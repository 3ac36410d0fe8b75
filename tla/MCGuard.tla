------------------------------- MODULE MCGuard -------------------------------
(* Model-checking instance of Guard: one pid, rounds 0..3, versions 0..2. *)
EXTENDS Guard

MCActors == {"inner", "timer", "outer"}
InnerOnly == {"inner"}
TimerOnly == {"timer"}
MCRoundArgs == {0, 1}
MCMaxOps == 3
MCMaxOps4 == 4
MCMaxVersion == 2
MCMaxVersion1 == 1
\* open regular files of the watched process, with their basenames
OneFd == {"/data/db/a.db"}
OneFdBase == [f \in OneFd |-> "a.db"]
TwoFds == {"/data/db/a.db", "/data/db/b.db"}
TwoFdsBase == [f \in TwoFds |-> IF f = "/data/db/a.db" THEN "a.db" ELSE "b.db"]
\* two open files under different dirs with the same basename
SameBaseFds == {"/data/db/app.log", "/tmp/app.log"}
SameBaseFdsBase == [f \in SameBaseFds |-> "app.log"]
=============================================================================
