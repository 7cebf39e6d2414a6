---------------------------------- MODULE QrLogin ----------------------------------
(***************************************************************************)
(* QR login: the controller's challenges (sessions/qr.py) behind           *)
(* runtime.py's _qr_lock, which a call holds while it talks to the         *)
(* platform, and one browser tab (useQrLogin.ts, WorkbenchView.vue) that   *)
(* starts, polls and cancels over requests that may arrive in any order.   *)
(*                                                                         *)
(* A call without network is one action; begin, poll and import are two.   *)
(* The platform may give any answer to a poll, so its own clock and the    *)
(* phone are left out.                                                     *)
(***************************************************************************)
EXTENDS Naturals

CONSTANTS
    Challenges,    \* QR codes that can be begun
    Requests,      \* requests under way at once
    None,          \* no challenge, no request
    MaxRuns,       \* bound on the tab's runId
    Faults         \* subset of {"loss", "failure", "crash"}

ASSUME QrAssumption == None \notin Challenges \union Requests /\ MaxRuns \in Nat

VARIABLES
    lock,          \* the request inside _qr_lock
    chal,          \* QrLoginController._challenges
    late,          \* open challenges past expires_at
    stored,        \* history: challenges whose session was stored
    voided,        \* history: challenges ended by a cancel, import or logout
    req,           \* the requests under way
    run, current, shown, timer,   \* useQrLogin: runId, challenge, state, timer
    open, mode,    \* the session dialog
    refreshing,    \* runs whose onSuccess waits for refreshSessions
    abandoned      \* history: challenges nobody will cancel any more

serverVars == <<lock, chal, late, stored, voided>>
loginVars == <<run, current, shown, timer>>
dialogVars == <<open, mode, refreshing>>
vars == <<serverVars, req, loginVars, dialogVars, abandoned>>

Idle == [op |-> "none", chal |-> None, run |-> 0, at |-> "idle", ans |-> "none"]

Send(r, what, c, n) ==
    /\ req[r].at = "idle"
    /\ req' = [req EXCEPT ![r] =
          [op |-> what, chal |-> c, run |-> n, at |-> "sent", ans |-> "none"]]

Answer(r, a) == req' = [req EXCEPT ![r].at = "answered", ![r].ans = a]

-----------------------------------------------------------------------------
(* The server *)

Active == {c \in Challenges : chal[c] = "active"}

AlwaysFree == TRUE
Free == lock = None

Release == lock' = None

Arrived(r, what) == req[r].at = "sent" /\ req[r].op = what /\ Free
Inside(r, what) == lock = r /\ req[r].op = what

Enter(r) == lock' = r /\ req' = [req EXCEPT ![r].at = "held"]

\* _finish
End(cs) ==
    /\ chal' = [c \in Challenges |-> IF c \in cs THEN "gone" ELSE chal[c]]
    /\ late' = late \ cs

\* cancel_source, and cancel
Void(cs) == End(cs) /\ voided' = voided \union cs

Begin(r) ==
    /\ Arrived(r, "begin")
    /\ Enter(r)
    /\ UNCHANGED <<chal, late, stored, voided>>

\* The platform gives a key, and the code is drawn from it.
Born(c) == chal[c] = "unborn" /\ chal' = [chal EXCEPT ![c] = "active"]

Begun(r) ==
    /\ Inside(r, "begin")
    /\ Release
    /\ \/ \E c \in Challenges :
            /\ Born(c)
            /\ req' = [req EXCEPT ![r].chal = c, ![r].at = "answered", ![r].ans = "waiting"]
       \/ Answer(r, "error") /\ UNCHANGED chal
    /\ UNCHANGED <<late, stored, voided>>

\* _require_active, the clock, and then the platform.
Poll(r) ==
    LET c == req[r].chal IN
    /\ Arrived(r, "poll")
    /\ \/ c \notin Active /\ Answer(r, "gone") /\ UNCHANGED <<lock, chal, late>>
       \/ c \in Active \cap late /\ End({c}) /\ Answer(r, "expired") /\ UNCHANGED lock
       \/ c \in Active \ late /\ Enter(r) /\ UNCHANGED <<chal, late>>
    /\ UNCHANGED <<stored, voided>>

\* The code is over, or the platform cannot be reached or believed.
Over(r, c) == End({c}) /\ \E a \in {"expired", "error"} : Answer(r, a)

\* The login is stored before the challenge is finished and the tab is told.
Accept(c) == stored' = stored \union {c}

\* The code is still open, or over; or the login is confirmed and verified, and
\* stored, whatever the caller is told.
Polled(r) ==
    LET c == req[r].chal IN
    /\ Inside(r, "poll")
    /\ Release
    /\ \/ /\ \E a \in {"waiting", "scanned"} : Answer(r, a)
          /\ UNCHANGED <<chal, late, stored>>
       \/ Over(r, c) /\ UNCHANGED stored
       \/ /\ End({c})
          /\ Accept(c)
          /\ \E a \in {"success"} \union IF "failure" \in Faults THEN {"error"} ELSE {} :
                Answer(r, a)
    /\ UNCHANGED voided

Cancel(r) ==
    LET c == req[r].chal IN
    /\ Arrived(r, "cancel")
    /\ \/ c \in Active /\ Void({c}) /\ Answer(r, "done")
       \/ c \notin Active /\ Answer(r, "gone") /\ UNCHANGED <<chal, late, voided>>
    /\ UNCHANGED <<lock, stored>>

\* clear_session
Clear(r) ==
    /\ Arrived(r, "clear")
    /\ Void(Active)
    /\ Answer(r, "done")
    /\ UNCHANGED <<lock, stored>>

\* import_session validates under the lock, then ends the challenges.
Import(r) ==
    /\ Arrived(r, "import")
    /\ Enter(r)
    /\ UNCHANGED <<chal, late, stored, voided>>

\* The session of the import is not the platform's, or it cannot tell.
Rejected(r) == Answer(r, "error") /\ UNCHANGED <<chal, late, voided>>

Imported(r) ==
    /\ Inside(r, "import")
    /\ Release
    /\ \/ /\ Void(Active)
          /\ \E a \in {"done"} \union IF "failure" \in Faults THEN {"error"} ELSE {} :
                Answer(r, a)
       \/ Rejected(r)
    /\ UNCHANGED stored

Serve(r) == Begin(r) \/ Poll(r) \/ Cancel(r) \/ Clear(r) \/ Import(r)
Finish(r) == Begun(r) \/ Polled(r) \/ Imported(r)

ServerStep(r) ==
    /\ Serve(r) \/ Finish(r)
    /\ UNCHANGED <<loginVars, dialogVars, abandoned>>

\* The image endpoint meets an expired challenge first.
Image(c) ==
    /\ Free /\ c \in Active \cap late /\ current = c
    /\ End({c})
    /\ UNCHANGED <<lock, stored, voided, req, loginVars, dialogVars, abandoned>>

Lapse(c) ==
    /\ c \in Active \ late
    /\ late' = late \union {c}
    /\ UNCHANGED <<lock, chal, stored, voided, req, loginVars, dialogVars, abandoned>>

\* A request or its answer is lost, and with it what the tab would have learnt.
Lose(r) ==
    /\ "loss" \in Faults
    /\ req[r].at \in {"sent", "answered"} /\ req[r].ans # "lost"
    /\ Answer(r, "lost")
    /\ abandoned' = IF req[r].op = "begin" \/ (req[r].op = "cancel" /\ req[r].at = "sent")
                    THEN abandoned \union ({req[r].chal} \ {None}) ELSE abandoned
    /\ UNCHANGED <<serverVars, loginVars, dialogVars>>

\* The server restarts: its challenges and the calls in it are gone.
Crash ==
    /\ "crash" \in Faults
    /\ End(Active)
    /\ lock' = None
    /\ req' = [r \in Requests |->
          IF req[r].at \in {"sent", "held"}
          THEN [req[r] EXCEPT !.at = "answered", !.ans = "lost"] ELSE req[r]]
    /\ UNCHANGED <<stored, voided, loginVars, dialogVars, abandoned>>

-----------------------------------------------------------------------------
(* The tab *)

\* start, from the button of the session strip or from "refresh": an earlier
\* challenge is dropped, not cancelled.
Start(r) ==
    /\ ~open \/ (mode = "qr" /\ shown = "expired")
    /\ run < MaxRuns
    /\ run' = run + 1 /\ current' = None /\ shown' = "loading" /\ timer' = 0
    /\ open' = TRUE /\ mode' = "qr"
    /\ abandoned' = abandoned \union ({current} \ {None})
    /\ Send(r, "begin", None, run + 1)
    /\ UNCHANGED <<serverVars, refreshing>>

\* useQrLogin's cancel, which sends a request if it has a challenge.
Abort ==
    /\ run < MaxRuns
    /\ run' = run + 1 /\ current' = None /\ shown' = "idle" /\ timer' = 0

Close(r) ==
    /\ open /\ open' = FALSE
    /\ \/ mode = "import" /\ UNCHANGED <<req, loginVars>>
       \/ /\ mode = "qr" /\ Abort
          /\ IF current = None THEN UNCHANGED req ELSE Send(r, "cancel", current, 0)
    /\ UNCHANGED <<serverVars, mode, refreshing, abandoned>>

OpenImport ==
    /\ ~open /\ open' = TRUE /\ mode' = "import"
    /\ UNCHANGED <<serverVars, req, loginVars, refreshing, abandoned>>

SubmitImport(r) ==
    /\ open /\ mode = "import"
    /\ \A q \in Requests : req[q].op # "import"
    /\ Send(r, "import", None, 0)
    /\ UNCHANGED <<serverVars, loginVars, dialogVars, abandoned>>

\* The logout button, in this tab or another.
Logout(r) ==
    /\ Send(r, "clear", None, 0)
    /\ UNCHANGED <<serverVars, loginVars, dialogVars, abandoned>>

\* The timer fires: poll up to its request.
Fire(r) ==
    /\ timer # 0 /\ timer' = 0
    /\ IF timer = run /\ current # None THEN Send(r, "poll", current, run) ELSE UNCHANGED req
    /\ UNCHANGED <<serverVars, run, current, shown, dialogVars, abandoned>>

NeverStale(r) == FALSE
Stale(r) == req[r].run # run

\* The answers after which the tab polls again.
OnlyWaiting(a) == a = "waiting"
GoesOn(a) == a \in {"waiting", "scanned"}

Forget(r) == req' = [req EXCEPT ![r] = Idle]

\* What start does with a challenge that it no longer wants.
ForgetLate(r) == Forget(r)
CancelLate(r) ==
    req' = [req EXCEPT ![r].op = "cancel", ![r].run = 0, ![r].at = "sent", ![r].ans = "none"]

BeginAnswered(r) ==
    /\ req[r].op = "begin"
    /\ \/ /\ Stale(r)
          /\ IF req[r].ans = "waiting" THEN CancelLate(r) ELSE Forget(r)
          /\ UNCHANGED loginVars
       \/ /\ ~Stale(r) /\ req[r].ans = "waiting"
          /\ current' = req[r].chal /\ shown' = "waiting" /\ timer' = run
          /\ Forget(r) /\ UNCHANGED run
       \/ /\ ~Stale(r) /\ req[r].ans # "waiting"
          /\ shown' = "error"
          /\ Forget(r) /\ UNCHANGED <<run, current, timer>>
    /\ UNCHANGED dialogVars

PollAnswered(r) ==
    LET a == req[r].ans IN
    /\ req[r].op = "poll"
    /\ IF Stale(r) THEN UNCHANGED <<shown, timer, refreshing>>
       ELSE /\ shown' = IF a \in {"gone", "lost"} THEN "error" ELSE a
            /\ timer' = IF GoesOn(a) THEN run ELSE timer
            /\ refreshing' = IF a = "success" THEN refreshing \union {run} ELSE refreshing
    /\ Forget(r)
    /\ UNCHANGED <<run, current, open, mode>>

\* submitImport closes whatever dialog is there by then.
ImportAnswered(r) ==
    /\ req[r].op = "import"
    /\ IF req[r].ans # "done" THEN Forget(r) /\ UNCHANGED <<loginVars, open>>
       ELSE /\ open' = FALSE
            /\ \/ mode = "import" /\ Forget(r) /\ UNCHANGED loginVars
               \/ /\ mode = "qr" /\ Abort
                  /\ req' = [req EXCEPT ![r] =
                        IF current = None THEN Idle
                        ELSE [op |-> "cancel", chal |-> current, run |-> 0,
                              at |-> "sent", ans |-> "none"]]
    /\ UNCHANGED <<mode, refreshing>>

OtherAnswered(r) ==
    /\ req[r].op \in {"cancel", "clear"}
    /\ Forget(r)
    /\ UNCHANGED <<loginVars, dialogVars>>

Receive(r) ==
    /\ req[r].at = "answered"
    /\ BeginAnswered(r) \/ PollAnswered(r) \/ ImportAnswered(r) \/ OtherAnswered(r)
    /\ UNCHANGED <<serverVars, abandoned>>

\* onSuccess: refreshSessions ends, well or badly, and the dialog is dismissed,
\* with no look at which dialog it is by now.
Refreshed(n) ==
    /\ n \in refreshing
    /\ refreshing' = refreshing \ {n}
    /\ open' = FALSE
    /\ UNCHANGED <<serverVars, req, loginVars, mode, abandoned>>

-----------------------------------------------------------------------------

Init ==
    /\ lock = None
    /\ chal = [c \in Challenges |-> "unborn"]
    /\ late = {} /\ stored = {} /\ voided = {}
    /\ req = [r \in Requests |-> Idle]
    /\ run = 0 /\ current = None /\ shown = "idle" /\ timer = 0
    /\ open = FALSE /\ mode = "import" /\ refreshing = {}
    /\ abandoned = {}

TabStep(r) == Start(r) \/ Close(r) \/ SubmitImport(r) \/ Logout(r) \/ Fire(r) \/ Receive(r)

Next ==
    \/ \E r \in Requests : ServerStep(r) \/ TabStep(r) \/ Lose(r)
    \/ \E c \in Challenges : Image(c) \/ Lapse(c)
    \/ \E n \in 1..MaxRuns : Refreshed(n)
    \/ OpenImport \/ Crash

\* Calls end, as each request to the platform has a timeout; a call that waits
\* gets the lock; the browser handles what it has received and its timers.
Fairness ==
    /\ \A r \in Requests :
          /\ SF_vars(Serve(r) /\ ServerStep(r))
          /\ WF_vars(Finish(r) /\ ServerStep(r))
          /\ WF_vars(Receive(r))
    /\ SF_vars(\E r \in Requests : Fire(r))

Spec == Init /\ [][Next]_vars
FairSpec == Spec /\ Fairness

-----------------------------------------------------------------------------
(* Properties *)

Answers == {"none", "waiting", "scanned", "success", "expired", "error", "gone", "done", "lost"}
Request == [op : {"none", "begin", "poll", "cancel", "import", "clear"},
            chal : Challenges \union {None}, run : 0..MaxRuns,
            at : {"idle", "sent", "held", "answered"}, ans : Answers]

\* Every variable has its type, and the request that is held has the lock.
QrTypeOK ==
    /\ lock \in Requests \union {None}
    /\ chal \in [Challenges -> {"unborn", "active", "gone"}]
    /\ late \subseteq Challenges
    /\ stored \subseteq Challenges /\ voided \subseteq Challenges
    /\ req \in [Requests -> Request]
    /\ \A r \in Requests : req[r].at = "held" <=> lock = r
    /\ run \in 0..MaxRuns /\ current \in Challenges \union {None}
    /\ shown \in {"idle", "loading", "waiting", "scanned", "success", "expired", "error"}
    /\ timer \in 0..MaxRuns
    /\ open \in BOOLEAN /\ mode \in {"qr", "import"}
    /\ refreshing \subseteq 1..MaxRuns
    /\ abandoned \subseteq Challenges

\* A challenge that a cancel, a logout or an import has ended never stores its
\* login afterwards, although a poll of it may be at the platform meanwhile.
VoidedStayOut == stored \cap voided = {}

\* The tab says "success" only of its own challenge, whose session is stored, and
\* "expired" only of one that can no longer log in: late answers of earlier runs
\* are not taken for this one's.
VerdictIsOwn ==
    /\ shown = "success" => current \in stored
    /\ shown = "expired" => current \in Challenges \ (Active \union stored)

\* The tab polls its challenge once at a time: a timer or a request, never two, and
\* only while it shows a code that is open.
Polling == {r \in Requests : req[r].op = "poll" /\ ~Stale(r)}
PollsOnce ==
    /\ \A r, q \in Polling : r = q
    /\ timer # 0 => timer = run /\ Polling = {}
    /\ timer # 0 \/ Polling # {} => shown \in {"waiting", "scanned"}

\* A challenge that is still open at the server is the tab's, or on its way to
\* it, or about to be cancelled; else a message about it was lost, or the tab
\* was started again on top of it.
NoOrphans ==
    \A c \in Active :
        \/ c = current \/ c \in abandoned
        \/ \E r \in Requests : req[r].chal = c /\
              \/ req[r].op = "begin" /\ req[r].at = "answered"
              \/ req[r].op = "cancel" /\ req[r].at = "sent"

\* Once the challenge has expired, polling stops.
PollingStops ==
    \A c \in Challenges :
        (current = c /\ c \in late) ~> ~(current = c /\ shown \in {"waiting", "scanned"})

\* Why: what a request may be, and what is true of its challenge, at each of its
\* stations; a run has one begin; what has ended has ended for good.
Gone == {c \in Challenges : chal[c] = "gone"}

RequestRow(r) ==
    LET q == req[r] IN
    /\ q.at = "idle" <=> q.op = "none"
    /\ q.at = "held" => q.op \in {"begin", "poll", "import"}
    /\ q.op \in {"begin", "poll"} => q.run \in 1..run

PollRow(r) ==
    LET q == req[r] IN
    q.op = "poll" =>
        /\ q.chal \in Challenges
        /\ q.run = run => q.chal = current
        /\ q.at = "held" => q.chal \in Active
        /\ q.at = "answered" =>
              q.ans \in {"waiting", "scanned", "success", "expired", "error", "gone", "lost"}
        /\ q.ans = "success" => q.chal \in stored
        /\ q.ans = "expired" => q.chal \in Gone \ stored

BeginRow(r) ==
    LET q == req[r] IN
    q.op = "begin" =>
        /\ q.run = run => current = None /\ shown = "loading"
        /\ q.at # "answered" => q.chal = None
        /\ q.at = "answered" =>
              IF q.ans = "waiting" THEN q.chal \in Challenges
              ELSE q.chal \in abandoned \union {None}
        /\ \A u \in Requests : req[u].op = "begin" /\ req[u].run = q.run => u = r

HistoryRow ==
    /\ stored \union voided \subseteq Gone
    /\ stored \cap voided = {}
    /\ shown = "success" => current \in stored
    /\ shown = "expired" => current \in Gone \ stored

QrInv ==
    /\ QrTypeOK /\ HistoryRow /\ PollsOnce /\ NoOrphans
    /\ \A r \in Requests : RequestRow(r) /\ PollRow(r) /\ BeginRow(r)
=============================================================================
