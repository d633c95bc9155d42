------------------------------ MODULE Clients ------------------------------
(***************************************************************************)
(* The two clients of the daemon together: the bar widget, and one call of *)
(* bose-700-ctl, which connects, sends one command, waits ten seconds for  *)
(* each part of the answer and turns what happened into an exit code.      *)
(*                                                                         *)
(* What the command line changes, the daemon pushes to the widget.  The    *)
(* kernel keeps a request whose sender has gone, and the daemon executes   *)
(* it when it comes to it.                                                 *)
(***************************************************************************)
EXTENDS Widget

ASSUME ClientsAssumption ==
    None \notin {0, 1, 2} /\ None \notin {"ok", "error", "lost", "closed"}

VARIABLES
    ctl,        \* the call: "none", "waits", or "exited"
    code,       \* its exit code, or None
    request,    \* in the socket: what the daemon has not read, or None
    reply,      \* in the socket: "ok", "error", "closed", or None
    verdict     \* history: what came of the request at the daemon, or None

ctlVars == <<ctl, code, request, reply, verdict>>
vars == <<widgetVars, ctlVars>>

CtlRequests == {Status} \cup {Setting(v) : v \in Values}

TypeOK ==
    /\ WidgetTypeOK
    /\ ctl \in {"none", "waits", "exited"}
    /\ code \in {None, 0, 1, 2}
    /\ request \in CtlRequests \cup {None}
    /\ reply \in {None, "ok", "error", "closed"}
    /\ verdict \in {None, "ok", "error", "lost"}

Init ==
    /\ WidgetInit
    /\ ctl = "none" /\ code = None
    /\ request = None /\ reply = None /\ verdict = None

Exit(n) == ctl' = "exited" /\ code' = n

\* main and send_command: refused, unreachable, or sent
CallRefused ==
    /\ ctl = "none"
    /\ Exit(1)
    /\ UNCHANGED <<request, reply, verdict, widgetVars>>

CallUnreachable ==
    /\ ctl = "none" /\ daemon = "down"
    /\ Exit(2)
    /\ UNCHANGED <<request, reply, verdict, widgetVars>>

Call(r) ==
    /\ ctl = "none" /\ daemon # "down"
    /\ ctl' = "waits" /\ request' = r
    /\ UNCHANGED <<code, reply, verdict, widgetVars>>

\* the daemon reads and executes the command, whether its sender waits or not
Done(result) ==
    /\ request' = None /\ verdict' = result
    /\ reply' = IF ctl = "waits" THEN result ELSE None
    /\ UNCHANGED <<ctl, code>>

ServeCall ==
    /\ daemon = "up" /\ request # None
    /\ \/ Done("ok") /\ val' = IF request = Status THEN val ELSE request.value
       \/ Done("error") /\ request # Status /\ UNCHANGED val
    /\ UNCHANGED <<linkVars, shownVars, pipeVars, daemon, boundVars>>

\* the connection of a daemon that ends is closed
DropCall ==
    /\ request' = None
    /\ verdict' = IF request # None THEN "lost" ELSE verdict
    /\ reply' = IF ctl = "waits" /\ reply = None THEN "closed" ELSE reply
    /\ UNCHANGED <<ctl, code>>

\* mutant: only an error of the daemon counts as one
AnsweredUnlessError ==
    /\ ctl = "waits" /\ reply # None
    /\ Exit(IF reply = "error" THEN 1 ELSE 0)
    /\ reply' = None
    /\ UNCHANGED <<request, verdict, widgetVars>>

\* what came, or an end of file without an answer
Answered ==
    /\ ctl = "waits" /\ reply # None
    /\ Exit(IF reply = "ok" THEN 0 ELSE 1)
    /\ reply' = None
    /\ UNCHANGED <<request, verdict, widgetVars>>

\* SO_RCVTIMEO: the daemon serves a headset that does not answer, or hangs
TimedOut ==
    /\ ctl = "waits" /\ reply = None /\ daemon \in {"busy", "hung"}
    /\ Exit(1)
    /\ UNCHANGED <<request, reply, verdict, widgetVars>>

CtlStep ==
    \/ CallRefused \/ CallUnreachable \/ ServeCall \/ Answered \/ TimedOut
    \/ \E r \in CtlRequests : Call(r)

Ends == {"hung", "down"}

Next ==
    \/ WidgetStep /\ UNCHANGED ctlVars
    \/ DaemonStep /\ UNCHANGED ctlVars
    \/ DisconnectedTwice /\ UNCHANGED ctlVars
    \/ \E v \in Values : (Choose(v) \/ Change(v)) /\ UNCHANGED ctlVars
    \/ \E r \in {Status, Reconnect} : Ask(r) /\ UNCHANGED ctlVars
    \/ \E f \in {"busy", "hung"} : Fault(f) /\ UNCHANGED ctlVars
    \/ Fault("down") /\ DropCall
    \/ daemon = "busy" /\ Recover /\ UNCHANGED ctlVars
    \/ daemon \in Ends /\ Recover /\ DropCall
    \/ CtlStep

\* send_command ends by itself; the call itself may never come
Fairness ==
    /\ WidgetFairness
    /\ WF_vars(ServeCall) /\ WF_vars(Answered)

Spec == Init /\ [][Next]_vars /\ Fairness

-----------------------------------------------------------------------------
(* Properties *)

(* Exit code 0 means that the daemon executed the command, and 2 that it   *)
(* never had it, over restarts and late answers.  (1 says nothing of it:   *)
(* after the ten seconds, the daemon may still execute the command.)       *)
ExitCodesTell ==
    /\ code = 0 => verdict = "ok"
    /\ code = 2 => request = None /\ verdict = None
=============================================================================
