---------------------------- MODULE MCShootConsole ----------------------------
(* Tests of one domain, of which the first can be invoked as well.           *)
EXTENDS ShootConsole

CONSTANTS t1
MCInvocable == {t1}
MCDomain == {Test}
==============================================================================
