-------------------------- MODULE MCAssetRegistry --------------------------
(* One asset and two registrations, the second begun in a dialog that was    *)
(* opened anew while the first was under way; a polled overview beside those *)
(* the registrations begin, and two catalog requests at a time.              *)
EXTENDS AssetRegistry
============================================================================
