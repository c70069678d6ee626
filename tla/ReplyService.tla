---------------------------- MODULE ReplyService ----------------------------
(***************************************************************************)
(* What the Switch is promised, whatever buffers and packets lie between:  *)
(* a command it waits on is answered by exactly its own reply, complete    *)
(* and once; between replies it may get input reports, also complete; and  *)
(* a bus suspension may make it give a command up, whose reply may come    *)
(* late then, or not at all.                                               *)
(***************************************************************************)
CONSTANTS
    Requests,       \* the commands that have a reply
    None,           \* no command is outstanding
    Reply(_),       \* the complete reply to a command
    InputReport,    \* a complete periodic input report
    NoReport        \* before the first report

VARIABLES
    asked,          \* the outstanding command, or None
    forgotten,      \* commands given up whose replies have not come
    got             \* the last report the Switch received

serviceVars == <<asked, forgotten, got>>

ServiceInit ==
    /\ asked = None
    /\ forgotten = {}
    /\ got = NoReport

Ask(request) ==
    /\ asked = None
    /\ asked' = request
    /\ UNCHANGED <<forgotten, got>>

Answer ==
    /\ asked # None
    /\ got' = Reply(asked)
    /\ asked' = None
    /\ UNCHANGED forgotten

Volunteer ==
    /\ got' = InputReport
    /\ UNCHANGED <<asked, forgotten>>

GiveUp ==
    /\ asked # None
    /\ asked' = None
    /\ forgotten' = forgotten \cup {asked}
    /\ UNCHANGED got

AnswerLate(request) ==
    /\ request \in forgotten
    /\ got' = Reply(request)
    /\ forgotten' = forgotten \ {request}
    /\ UNCHANGED asked

ServiceNext ==
    \/ \E request \in Requests : Ask(request)
    \/ Answer
    \/ Volunteer
    \/ GiveUp
    \/ \E request \in Requests : AnswerLate(request)

ServiceSpec ==
    /\ ServiceInit
    /\ [][ServiceNext]_serviceVars
    /\ WF_serviceVars(Answer)

=============================================================================
