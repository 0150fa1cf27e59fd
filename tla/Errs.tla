-------------------------------- MODULE Errs --------------------------------
(***************************************************************************)
(* The exit statuses of internal/errs.  An operation of the models ends    *)
(* with one of these, OK when the Go error is nil.  NotExecutable and      *)
(* NotFound are the shell's, which run keeps to.                           *)
(***************************************************************************)
EXTENDS Integers

OK == 0
Generic == 120
KeyNotFound == 121
VaultNotFound == 122
Identity == 123
Decrypt == 124
NoTerminal == 125
NotExecutable == 126
NotFound == 127
Interrupted == 130  \* 128 + SIGINT, the prompt's own exit

Statuses == {OK, Generic, KeyNotFound, VaultNotFound, Identity, Decrypt,
             NoTerminal, NotExecutable, NotFound, Interrupted}
=============================================================================
