-------------------------------- MODULE QrLoginProofs --------------------------------
(***************************************************************************)
(* QrLogin, for any challenges, requests and runs: a challenge that was    *)
(* ended never stores its login, the tab's verdicts are about its own      *)
(* challenge, it polls once at a time, and no open challenge is forgotten. *)
(***************************************************************************)
EXTENDS QrLogin, TLAPS

USE QrAssumption

\* Whoever enters the lock, or is inside, is alone there.
LEMMA HeldAlone ==
    ASSUME QrTypeOK, NEW r \in Requests, NEW u \in Requests, Free \/ lock = r, u # r
    PROVE  req[u].at # "held"
BY DEF QrTypeOK, Free

\* A request that has been answered is a request.
LEMMA AnswerTyped ==
    ASSUME req \in [Requests -> Request], NEW r \in Requests, NEW a \in Answers
    PROVE  [req EXCEPT ![r] = [req[r] EXCEPT !.at = "answered", !.ans = a]]
              \in [Requests -> Request]
<1>1. [req[r] EXCEPT !.at = "answered", !.ans = a] \in Request BY DEF Request
<1>2. QED BY <1>1

\* A new challenge comes with the answer to its begin.
LEMMA BegunGives ==
    ASSUME QrTypeOK, NEW r \in Requests, Begun(r)
    PROVE  /\ \A u \in Requests : u # r => req'[u] = req[u]
           /\ req[r].at = "held" /\ req[r].op = "begin"
           /\ \A c \in Active' : c \in Active \/ (req'[r].chal = c /\ req'[r].op = "begin"
                                                 /\ req'[r].at = "answered")
<1>1. req \in [Requests -> Request] /\ chal \in [Challenges -> {"unborn", "active", "gone"}]
  BY DEF QrTypeOK
<1>2. req[r].at = "held" /\ req[r].op = "begin" BY DEF Begun, Inside, QrTypeOK
<1>3. CASE chal' = chal /\ Answer(r, "error")
  BY <1>1, <1>2, <1>3 DEF Answer, Active, Request
<1>4. ASSUME NEW c \in Challenges, chal' = [chal EXCEPT ![c] = "active"],
             req' = [req EXCEPT ![r].chal = c, ![r].at = "answered", ![r].ans = "waiting"]
      PROVE  /\ \A u \in Requests : u # r => req'[u] = req[u]
             /\ \A d \in Active' : d \in Active \/ (req'[r].chal = d /\ req'[r].op = "begin"
                                                   /\ req'[r].at = "answered")
  BY <1>1, <1>2, <1>4 DEF Active, Request
<1>5. QED BY <1>2, <1>3, <1>4 DEF Begun, Born

\* What a call in the server does to the tab and its requests: one of them moves
\* on, and challenges that are open may end.
LEMMA ServerMoves ==
    ASSUME QrInv, NEW r \in Requests, ServerStep(r)
    PROVE  /\ QrTypeOK' /\ HistoryRow'
           /\ Gone \subseteq Gone' /\ stored \subseteq stored' /\ stored' \cap Gone \subseteq stored
           /\ \A u \in Requests : u # r => req'[u] = req[u]
           /\ req[r].at \in {"sent", "held"} /\ req'[r].op = req[r].op /\ req'[r].run = req[r].run
           /\ RequestRow(r)' /\ PollRow(r)' /\ BeginRow(r)'
<1> USE DEF QrInv, QrTypeOK, Request, Answers, HistoryRow, Gone, Active, RequestRow, PollRow, 
            BeginRow, loginVars, dialogVars, Arrived, Inside, Enter, Answer, Release, End, Void, Free
<1>1. CASE Begin(r) BY <1>1 DEF Begin, ServerStep
<1>2. CASE Poll(r) BY <1>2 DEF Poll, ServerStep
<1>3. CASE Cancel(r) BY <1>3 DEF Cancel, ServerStep
<1>4. CASE Clear(r)
  <2>1. QrTypeOK'
    <3>1. chal' \in [Challenges -> {"unborn", "active", "gone"}] BY <1>4 DEF Clear
    <3>2. voided' \subseteq Challenges /\ late' \subseteq Challenges BY <1>4 DEF Clear
    <3>3. /\ req' = [req EXCEPT ![r] = [req[r] EXCEPT !.at = "answered", !.ans = "done"]]
          /\ lock' = lock /\ lock = None /\ stored' = stored
          /\ UNCHANGED <<loginVars, dialogVars, abandoned>>
      BY <1>4 DEF Clear, ServerStep
    <3>4. req' \in [Requests -> Request] BY <3>3, AnswerTyped, "done" \in Answers
    <3>5. \A u \in Requests : req'[u].at # "held" BY <3>3
    <3>6. QED BY <3>1, <3>2, <3>3, <3>4, <3>5
  <2>2. HistoryRow' BY <1>4 DEF Clear, ServerStep
  <2>3. Gone \subseteq Gone' /\ stored \subseteq stored' /\ stored' \cap Gone \subseteq stored
    BY <1>4 DEF Clear, ServerStep
  <2>4. RequestRow(r)' /\ PollRow(r)' BY <1>4 DEF Clear, ServerStep
  <2>5. BeginRow(r)' BY <1>4 DEF Clear, ServerStep
  <2>6. QED BY <1>4, <2>1, <2>2, <2>3, <2>4, <2>5 DEF Clear, ServerStep
<1>5. CASE Import(r) BY <1>5 DEF Import, ServerStep
<1>6. CASE Begun(r)
  <2>1. /\ UNCHANGED <<late, stored, voided, loginVars, dialogVars, abandoned>>
        /\ lock = r /\ lock' = None /\ req[r].op = "begin" /\ req[r].at = "held"
    BY <1>6 DEF Begun, Born, ServerStep
  <2>2. CASE chal' = chal /\ Answer(r, "error")
    <3>1. req' = [req EXCEPT ![r] = [req[r] EXCEPT !.at = "answered", !.ans = "error"]]
      BY <2>2
    <3>2. QED BY <2>1, <2>2, <3>1
  <2>3. ASSUME NEW c \in Challenges, chal[c] = "unborn",
               chal' = [chal EXCEPT ![c] = "active"],
               req' = [req EXCEPT ![r].chal = c, ![r].at = "answered", ![r].ans = "waiting"]
        PROVE  /\ QrTypeOK' /\ HistoryRow' /\ Gone' = Gone
               /\ \A u \in Requests : u # r => req'[u] = req[u]
               /\ req'[r].op = "begin" /\ req'[r].run = req[r].run
               /\ RequestRow(r)' /\ PollRow(r)' /\ BeginRow(r)'
    <3>1. req' = [req EXCEPT ![r] =
             [req[r] EXCEPT !.chal = c, !.at = "answered", !.ans = "waiting"]]
      BY <2>3
    <3>2. Gone' = Gone BY <2>3
    <3>3. QrTypeOK' BY <2>1, <2>3, <3>1
    <3>4. HistoryRow' BY <2>1, <3>2
    <3>5. RequestRow(r)' /\ PollRow(r)' /\ BeginRow(r)' BY <2>1, <3>1
    <3>6. QED BY <2>1, <3>1, <3>2, <3>3, <3>4, <3>5
  <2>4. QED BY <1>6, <2>1, <2>2, <2>3 DEF Begun, Born
<1>7. CASE Polled(r)
  <2>1. QrTypeOK' BY <1>7 DEF Polled, Over, Accept, ServerStep
  <2>2. HistoryRow' BY <1>7 DEF Polled, Over, Accept, ServerStep
  <2>3. Gone \subseteq Gone' /\ stored \subseteq stored' /\ stored' \cap Gone \subseteq stored
    BY <1>7 DEF Polled, Over, Accept, ServerStep
  <2>4. RequestRow(r)' /\ PollRow(r)' BY <1>7 DEF Polled, Over, Accept, ServerStep
  <2>5. BeginRow(r)' BY <1>7 DEF Polled, Over, Accept, ServerStep
  <2>6. QED BY <1>7, <2>1, <2>2, <2>3, <2>4, <2>5 DEF Polled, Over, Accept, ServerStep
<1>8. CASE Imported(r) BY <1>8 DEF Imported, Rejected, ServerStep
<1>9. QED BY <1>1, <1>2, <1>3, <1>4, <1>5, <1>6, <1>7, <1>8 DEF ServerStep, Serve, Finish

\* No open challenge is forgotten by the server: it gives each to a begin, and
\* takes a cancel off the way only with its challenge.
LEMMA ServerOrphans ==
    ASSUME QrInv, NEW r \in Requests, ServerStep(r)
    PROVE  NoOrphans'
<1> USE DEF QrInv, QrTypeOK, Request, RequestRow, NoOrphans, Active, loginVars, dialogVars,
            Arrived, Inside, Enter, Answer, Release, End, Void, Free
<1>1. CASE Begin(r) BY <1>1 DEF Begin, ServerStep
<1>2. CASE Poll(r) BY <1>2 DEF Poll, ServerStep
<1>3. CASE Cancel(r) BY <1>3 DEF Cancel, ServerStep
<1>4. CASE Clear(r) BY <1>4 DEF Clear, ServerStep
<1>5. CASE Import(r) BY <1>5 DEF Import, ServerStep
<1>6. CASE Begun(r) BY <1>6, BegunGives DEF ServerStep
<1>7. CASE Polled(r) BY <1>7 DEF Polled, Over, Accept, ServerStep
<1>8. CASE Imported(r) BY <1>8 DEF Imported, Rejected, ServerStep
<1>9. QED BY <1>1, <1>2, <1>3, <1>4, <1>5, <1>6, <1>7, <1>8 DEF ServerStep, Serve, Finish

\* So a call in the server keeps the invariant.
LEMMA ServerKeeps ==
    ASSUME QrInv, NEW r \in Requests, ServerStep(r)
    PROVE  QrInv'
<1>1. Free \/ lock = r
  BY DEF ServerStep, Serve, Finish, Begin, Poll, Cancel, Clear, Import, Begun, Born, Polled, Over, Accept, Imported, Rejected,
         Arrived, Inside
<1>2. UNCHANGED <<loginVars, dialogVars, abandoned>> BY DEF ServerStep
<1>3. PollsOnce'
  BY <1>2, ServerMoves DEF PollsOnce, Polling, Stale, loginVars, QrInv
<1>4. ASSUME NEW u \in Requests PROVE RequestRow(u)' /\ PollRow(u)' /\ BeginRow(u)'
  <2>1. CASE u = r BY <2>1, ServerMoves
  <2>2. CASE u # r
    <3>1. req[u].at # "held" BY <1>1, <2>2, HeldAlone DEF QrInv
    <3>2. req'[u] = req[u] /\ Gone \subseteq Gone' /\ stored \subseteq stored'
          /\ stored' \cap Gone \subseteq stored
      BY <2>2, ServerMoves
    <3>3. RequestRow(u)' BY <1>2, <3>2 DEF QrInv, RequestRow, loginVars
    <3>4. PollRow(u)' BY <1>2, <3>1, <3>2 DEF QrInv, PollRow, loginVars
    <3>5. BeginRow(u)' BY <1>2, <3>2, ServerMoves DEF QrInv, BeginRow, loginVars
    <3>6. QED BY <3>3, <3>4, <3>5
  <2>3. QED BY <2>1, <2>2
<1>5. QED BY <1>3, <1>4, ServerMoves, ServerOrphans DEF QrInv

\* Time and the image endpoint end or mark challenges while nobody is inside.
LEMMA ClockKeeps ==
    ASSUME QrInv, NEW c \in Challenges, Image(c) \/ Lapse(c)
    PROVE  QrInv'
<1> USE DEF loginVars, dialogVars
<1>1. /\ UNCHANGED <<lock, stored, voided, req, loginVars, dialogVars, abandoned>>
      /\ chal' = chal \/ Free
      /\ chal' \in [Challenges -> {"unborn", "active", "gone"}] /\ late' \subseteq Challenges
      /\ Gone \subseteq Gone' /\ Active' \subseteq Active
  BY DEF Image, Lapse, End, Active, Gone, QrInv, QrTypeOK
<1>2. QrTypeOK' BY <1>1 DEF QrInv, QrTypeOK
<1>3. HistoryRow' BY <1>1 DEF QrInv, HistoryRow
<1>4. PollsOnce' /\ NoOrphans'
  BY <1>1 DEF QrInv, PollsOnce, Polling, Stale, NoOrphans
<1>5. ASSUME NEW u \in Requests PROVE RequestRow(u)' /\ PollRow(u)' /\ BeginRow(u)'
  <2>1. req[u].at = "held" => Active' = Active
    BY <1>1 DEF Free, Active, QrInv, QrTypeOK
  <2>2. PollRow(u)' BY <1>1, <2>1 DEF QrInv, PollRow
  <2>3. RequestRow(u)' /\ BeginRow(u)' BY <1>1 DEF QrInv, RequestRow, BeginRow
  <2>4. QED BY <2>2, <2>3
<1>6. QED BY <1>2, <1>3, <1>4, <1>5 DEF QrInv

\* A lost message leaves its challenge abandoned, if anybody was to act on it.
LEMMA LoseKeeps ==
    ASSUME QrInv, NEW r \in Requests, Lose(r)
    PROVE  QrInv'
<1> USE DEF serverVars, loginVars, dialogVars
<1>1. /\ UNCHANGED <<serverVars, loginVars, dialogVars>> /\ abandoned \subseteq abandoned'
      /\ req' = [req EXCEPT ![r] = [req[r] EXCEPT !.at = "answered", !.ans = "lost"]]
      /\ req[r].at \in {"sent", "answered"}
  BY DEF Lose, Answer
<1>2. abandoned' \subseteq Challenges
  BY DEF Lose, QrInv, QrTypeOK, Request
<1>3. req' \in [Requests -> Request] BY <1>1, AnswerTyped DEF QrInv, QrTypeOK, Answers
<1>4. QrTypeOK' BY <1>1, <1>2, <1>3 DEF QrInv, QrTypeOK
<1>5. HistoryRow' BY <1>1 DEF QrInv, HistoryRow, Gone
<1>6. PollsOnce' BY <1>1 DEF QrInv, QrTypeOK, Request, PollsOnce, Polling, Stale
<1>7. NoOrphans'
  <2>1. Active' = Active BY <1>1 DEF Active
  <2>2. ASSUME NEW c \in Active, req[r].chal = c,
               \/ req[r].op = "begin" /\ req[r].at = "answered"
               \/ req[r].op = "cancel" /\ req[r].at = "sent"
        PROVE  c \in abandoned'
    BY <2>2 DEF Lose, Active
  <2>3. \A u \in Requests : u # r => req'[u] = req[u] BY <1>1 DEF QrInv, QrTypeOK
  <2>4. QED BY <1>1, <2>1, <2>2, <2>3 DEF QrInv, NoOrphans
<1>8. ASSUME NEW u \in Requests PROVE RequestRow(u)' /\ PollRow(u)' /\ BeginRow(u)'
  <2>1. req'[u].op = req[u].op /\ req'[u].chal = req[u].chal /\ req'[u].run = req[u].run
    BY <1>1 DEF QrInv, QrTypeOK, Request
  <2>2. req'[u] = req[u] \/ (u = r /\ req'[u].at = "answered" /\ req'[u].ans = "lost")
    BY <1>1 DEF QrInv, QrTypeOK, Request
  <2>3. RequestRow(u)' BY <1>1, <2>1, <2>2 DEF QrInv, RequestRow
  <2>4. PollRow(u)' BY <1>1, <2>1, <2>2 DEF QrInv, PollRow, Active, Gone
  <2>5. BeginRow(u)'
    <3>1. \A v \in Requests : req'[v].op = req[v].op /\ req'[v].run = req[v].run
      BY <1>1 DEF QrInv, QrTypeOK, Request
    <3>2. u = r /\ req[r].op = "begin" => req[r].chal \in abandoned' \union {None}
      BY DEF Lose
    <3>3. QED BY <1>1, <2>1, <2>2, <3>1, <3>2 DEF QrInv, BeginRow
  <2>6. QED BY <2>3, <2>4, <2>5
<1>9. QED BY <1>4, <1>5, <1>6, <1>7, <1>8 DEF QrInv

\* A restart ends every challenge, and no answer to a call in it arrives.
LEMMA CrashKeeps == QrInv /\ Crash => QrInv'
<1> SUFFICES ASSUME QrInv, Crash PROVE QrInv'
  OBVIOUS
<1> USE DEF loginVars, dialogVars
<1>1. /\ UNCHANGED <<stored, voided, loginVars, dialogVars, abandoned>> /\ lock' = None
      /\ chal' \in [Challenges -> {"unborn", "active", "gone"}] /\ late' \subseteq Challenges
      /\ Gone \subseteq Gone' /\ Active' = {}
  BY DEF Crash, End, Active, Gone, QrInv, QrTypeOK
<1>2. ASSUME NEW u \in Requests
      PROVE  /\ req'[u].op = req[u].op /\ req'[u].chal = req[u].chal /\ req'[u].run = req[u].run
             /\ req'[u].at = IF req[u].at = "idle" THEN "idle" ELSE "answered"
             /\ req'[u].ans = IF req[u].at \in {"sent", "held"} THEN "lost" ELSE req[u].ans
             /\ req'[u] \in Request
  BY DEF Crash, QrInv, QrTypeOK, Request, Answers
<1>3. QrTypeOK'
  <2>1. req' \in [Requests -> Request] BY <1>2 DEF Crash
  <2>2. QED BY <1>1, <1>2, <2>1 DEF QrInv, QrTypeOK
<1>4. HistoryRow' BY <1>1 DEF QrInv, HistoryRow
<1>5. PollsOnce' BY <1>1, <1>2 DEF QrInv, PollsOnce, Polling, Stale
<1>6. NoOrphans' BY <1>1 DEF NoOrphans
<1>7. ASSUME NEW u \in Requests PROVE RequestRow(u)' /\ PollRow(u)' /\ BeginRow(u)'
  <2>1. RequestRow(u)' BY <1>1, <1>2 DEF QrInv, RequestRow
  <2>2. PollRow(u)' BY <1>1, <1>2 DEF QrInv, QrTypeOK, Request, PollRow
  <2>3. BeginRow(u)' BY <1>1, <1>2 DEF QrInv, QrTypeOK, Request, BeginRow
  <2>4. QED BY <2>1, <2>2, <2>3
<1>8. QED BY <1>3, <1>4, <1>5, <1>6, <1>7 DEF QrInv

\* The dialog alone: no request and no run is touched.
LEMMA DialogKeeps ==
    ASSUME QrInv, UNCHANGED <<serverVars, req, loginVars, abandoned>>,
           open' \in BOOLEAN, mode' \in {"qr", "import"}, refreshing' \subseteq 1..MaxRuns
    PROVE  QrInv'
<1>1. QrTypeOK' BY DEF QrInv, QrTypeOK, serverVars, loginVars
<1>2. HistoryRow' /\ PollsOnce' /\ NoOrphans'
  BY DEF QrInv, HistoryRow, Gone, PollsOnce, Polling, Stale, NoOrphans, Active, serverVars,
     loginVars
<1>3. ASSUME NEW u \in Requests PROVE RequestRow(u)' /\ PollRow(u)' /\ BeginRow(u)'
  BY DEF QrInv, RequestRow, PollRow, BeginRow, Gone, Active, serverVars, loginVars
<1>4. QED BY <1>1, <1>2, <1>3 DEF QrInv

\* A new run begins where nothing is known of it: no request is of it, and its
\* predecessor's challenge is abandoned or about to be cancelled.
LEMMA StartKeeps ==
    ASSUME QrInv, NEW r \in Requests, Start(r)
    PROVE  QrInv'
<1> DEFINE new == [op |-> "begin", chal |-> None, run |-> run + 1, at |-> "sent", ans |-> "none"]
<1>1. /\ run \in Nat /\ run < MaxRuns /\ run' = run + 1 /\ current' = None
      /\ shown' = "loading" /\ timer' = 0 /\ open' = TRUE /\ mode' = "qr"
      /\ abandoned' = abandoned \union ({current} \ {None})
      /\ req' = [req EXCEPT ![r] = new] /\ req[r].at = "idle"
      /\ UNCHANGED <<serverVars, refreshing>>
  BY DEF Start, Send, QrInv, QrTypeOK
<1>2. new \in Request /\ run + 1 \in 0..MaxRuns BY <1>1 DEF Request, Answers
<1>3. QrTypeOK' BY <1>1, <1>2 DEF QrInv, QrTypeOK, serverVars
<1>4. HistoryRow' BY <1>1 DEF QrInv, HistoryRow, Gone, serverVars
<1>5. \A u \in Requests : req[u].op \in {"begin", "poll"} => req[u].run \in Nat /\ req[u].run < run + 1
  BY <1>1 DEF QrInv, QrTypeOK, Request, RequestRow
<1>6. \A u \in Requests : req'[u] = IF u = r THEN new ELSE req[u] BY <1>1 DEF QrInv, QrTypeOK
<1>7. PollsOnce'
  <2>1. Polling' = {} BY <1>1, <1>5, <1>6 DEF Polling, Stale
  <2>2. QED BY <1>1, <2>1 DEF PollsOnce
<1>8. NoOrphans'
  <2>1. req[r].op = "none" BY <1>1 DEF QrInv, RequestRow
  <2>2. QED BY <1>1, <1>6, <2>1, QrAssumption DEF QrInv, NoOrphans, Active, serverVars
<1>9. ASSUME NEW u \in Requests PROVE RequestRow(u)' /\ PollRow(u)' /\ BeginRow(u)'
  <2>1. RequestRow(u)' BY <1>1, <1>5, <1>6 DEF QrInv, RequestRow
  <2>2. PollRow(u)' BY <1>1, <1>5, <1>6 DEF QrInv, PollRow, Active, Gone, serverVars
  <2>3. BeginRow(u)' BY <1>1, <1>5, <1>6 DEF QrInv, BeginRow, serverVars
  <2>4. QED BY <2>1, <2>2, <2>3
<1>10. QED BY <1>3, <1>4, <1>7, <1>8, <1>9 DEF QrInv

\* The same for a run that ends a login: one request slot may turn into the cancel
\* of its challenge, if it carries nothing that must not be forgotten.
LEMMA AbortKeeps ==
    ASSUME QrInv, NEW r \in Requests, Abort, open' \in BOOLEAN, mode' = mode,
           UNCHANGED <<serverVars, refreshing, abandoned>>,
           \/ req' = req /\ current = None
           \/ /\ req[r].op \in {"none", "import"} /\ req[r].at # "held"
              /\ \/ req' = [req EXCEPT ![r] = Idle] /\ current = None
                 \/ req' = [req EXCEPT ![r] =
                      [op |-> "cancel", chal |-> current, run |-> 0, at |-> "sent", ans |-> "none"]]
    PROVE  QrInv'
<1> DEFINE msg == [op |-> "cancel", chal |-> current, run |-> 0, at |-> "sent", ans |-> "none"]
<1>1. /\ run \in Nat /\ run < MaxRuns /\ run' = run + 1 /\ current' = None
      /\ shown' = "idle" /\ timer' = 0
  BY DEF Abort, QrInv, QrTypeOK
<1>2. msg \in Request /\ Idle \in Request /\ run + 1 \in 0..MaxRuns
  BY <1>1 DEF Request, Answers, QrInv, QrTypeOK, Idle
<1>3. \A u \in Requests : u # r => req'[u] = req[u] BY DEF QrInv, QrTypeOK
<1>4. req'[r] = req[r] \/ req'[r] = Idle \/ req'[r] = msg BY DEF QrInv, QrTypeOK
<1>5. current # None => req'[r] = msg BY DEF QrInv, QrTypeOK
<1>6. QrTypeOK'
  <2>1. req' \in [Requests -> Request] BY <1>2 DEF QrInv, QrTypeOK
  <2>2. \A u \in Requests : req'[u].at = "held" <=> req[u].at = "held" BY <1>3, <1>4 DEF Idle
  <2>3. QED BY <1>1, <1>2, <2>1, <2>2 DEF QrInv, QrTypeOK, serverVars
<1>7. HistoryRow' BY <1>1 DEF QrInv, HistoryRow, Gone, serverVars
<1>8. \A u \in Requests : req[u].op \in {"begin", "poll"} => req[u].run \in Nat /\ req[u].run < run + 1
  BY <1>1 DEF QrInv, QrTypeOK, Request, RequestRow
<1>9. req' = req \/ req'[r].op \notin {"begin", "poll"}
  BY QrAssumption DEF QrInv, QrTypeOK, Idle
<1>10. PollsOnce'
  <2>1. Polling' = {} BY <1>1, <1>3, <1>8, <1>9 DEF Polling, Stale
  <2>2. QED BY <1>1, <2>1 DEF PollsOnce
<1>11. NoOrphans'
  BY <1>3, <1>5 DEF QrInv, NoOrphans, Active, serverVars
<1>12. ASSUME NEW u \in Requests PROVE RequestRow(u)' /\ PollRow(u)' /\ BeginRow(u)'
  <2>1. RequestRow(u)' BY <1>1, <1>3, <1>4, <1>8 DEF QrInv, RequestRow, Idle
  <2>2. PollRow(u)' BY <1>1, <1>3, <1>8, <1>9 DEF QrInv, PollRow, Active, Gone, serverVars
  <2>3. BeginRow(u)' BY <1>1, <1>3, <1>8, <1>9 DEF QrInv, BeginRow
  <2>4. QED BY <2>1, <2>2, <2>3
<1>13. QED BY <1>6, <1>7, <1>10, <1>11, <1>12 DEF QrInv

\* Closing the dialog.
LEMMA CloseKeeps ==
    ASSUME QrInv, NEW r \in Requests, Close(r)
    PROVE  QrInv'
<1>1. CASE mode = "import" /\ UNCHANGED <<req, loginVars>>
  BY <1>1, DialogKeeps DEF Close, QrInv, QrTypeOK
<1>2. CASE Abort /\ current = None /\ UNCHANGED req
  BY <1>2, AbortKeeps DEF Close
<1>3. CASE Abort /\ Send(r, "cancel", current, 0)
  <2>1. req[r].op = "none" BY <1>3 DEF Send, QrInv, RequestRow
  <2>2. QED BY <1>3, <2>1, AbortKeeps DEF Close, Send
<1>4. QED BY <1>1, <1>2, <1>3 DEF Close

\* An import or a logout is sent from an idle slot.
LEMMA SendKeeps ==
    ASSUME QrInv, NEW r \in Requests, NEW what \in {"import", "clear"}, Send(r, what, None, 0),
           UNCHANGED <<serverVars, loginVars, dialogVars, abandoned>>
    PROVE  QrInv'
<1> USE DEF serverVars, loginVars, dialogVars
<1> DEFINE new == [op |-> what, chal |-> None, run |-> 0, at |-> "sent", ans |-> "none"]
<1>1. req' = [req EXCEPT ![r] = new] /\ req[r].at = "idle" /\ req[r].op = "none"
  BY DEF Send, QrInv, RequestRow
<1>2. \A u \in Requests : req'[u] = IF u = r THEN new ELSE req[u]
  BY <1>1 DEF QrInv, QrTypeOK
<1>3. QrTypeOK'
  <2>1. new \in Request BY DEF Request, Answers
  <2>2. QED BY <1>1, <1>2, <2>1 DEF QrInv, QrTypeOK
<1>4. HistoryRow' BY DEF QrInv, HistoryRow, Gone
<1>5. PollsOnce' BY <1>1, <1>2 DEF QrInv, PollsOnce, Polling, Stale
<1>6. NoOrphans' BY <1>1, <1>2 DEF QrInv, NoOrphans, Active
<1>7. ASSUME NEW u \in Requests PROVE RequestRow(u)' /\ PollRow(u)' /\ BeginRow(u)'
  <2>1. RequestRow(u)' BY <1>2 DEF QrInv, RequestRow
  <2>2. PollRow(u)' BY <1>2 DEF QrInv, PollRow, Active, Gone
  <2>3. BeginRow(u)' BY <1>2 DEF QrInv, BeginRow
  <2>4. QED BY <2>1, <2>2, <2>3
<1>8. QED BY <1>3, <1>4, <1>5, <1>6, <1>7 DEF QrInv

\* The timer becomes the run's only poll, or, of an earlier run, nothing.
LEMMA FireKeeps ==
    ASSUME QrInv, NEW r \in Requests, Fire(r)
    PROVE  QrInv'
<1> USE DEF serverVars, dialogVars
<1> DEFINE new == [op |-> "poll", chal |-> current, run |-> run, at |-> "sent", ans |-> "none"]
<1>1. /\ timer # 0 /\ timer' = 0 /\ timer = run
      /\ UNCHANGED <<serverVars, run, current, shown, dialogVars, abandoned>>
  BY DEF Fire, QrInv, PollsOnce
<1>2. HistoryRow' BY <1>1 DEF QrInv, HistoryRow, Gone
<1>3. CASE UNCHANGED req
  <2>1. QrTypeOK' BY <1>1, <1>3 DEF QrInv, QrTypeOK
  <2>2. PollsOnce' /\ NoOrphans'
    BY <1>1, <1>3 DEF QrInv, PollsOnce, Polling, Stale, NoOrphans, Active
  <2>3. ASSUME NEW u \in Requests PROVE RequestRow(u)' /\ PollRow(u)' /\ BeginRow(u)'
    BY <1>1, <1>3 DEF QrInv, RequestRow, PollRow, BeginRow, Gone, Active
  <2>4. QED BY <1>2, <2>1, <2>2, <2>3 DEF QrInv
<1>4. CASE current # None /\ Send(r, "poll", current, run)
  <2>1. /\ req' = [req EXCEPT ![r] = new] /\ req[r].at = "idle" /\ req[r].op = "none"
        /\ current \in Challenges /\ run \in 1..run /\ new \in Request
    BY <1>1, <1>4 DEF Send, QrInv, QrTypeOK, RequestRow, Request, Answers
  <2>2. \A u \in Requests : req'[u] = IF u = r THEN new ELSE req[u]
    BY <2>1 DEF QrInv, QrTypeOK
  <2>3. QrTypeOK' BY <1>1, <2>1, <2>2 DEF QrInv, QrTypeOK
  <2>4. PollsOnce' BY <1>1, <2>1, <2>2 DEF QrInv, PollsOnce, Polling, Stale
  <2>5. NoOrphans' BY <1>1, <2>1, <2>2 DEF QrInv, NoOrphans, Active
  <2>6. ASSUME NEW u \in Requests PROVE RequestRow(u)' /\ PollRow(u)' /\ BeginRow(u)'
    <3>1. RequestRow(u)' BY <1>1, <2>1, <2>2 DEF QrInv, RequestRow
    <3>2. PollRow(u)' BY <1>1, <2>1, <2>2 DEF QrInv, PollRow, Active, Gone
    <3>3. BeginRow(u)' BY <1>1, <2>1, <2>2 DEF QrInv, BeginRow
    <3>4. QED BY <3>1, <3>2, <3>3
  <2>7. QED BY <1>2, <2>3, <2>4, <2>5, <2>6 DEF QrInv
<1>5. QED BY <1>3, <1>4 DEF Fire

\* An answer that brings no challenge is dropped, or only dismisses the dialog.
LEMMA ForgetKeeps ==
    ASSUME QrInv, NEW r \in Requests, req[r].at = "answered", Forget(r),
           ~(req[r].op = "begin" /\ req[r].ans = "waiting"),
           UNCHANGED <<serverVars, loginVars, mode, refreshing, abandoned>>, open' \in BOOLEAN
    PROVE  QrInv'
<1> USE DEF serverVars, loginVars
<1>1. \A u \in Requests : req'[u] = IF u = r THEN Idle ELSE req[u]
  BY DEF Forget, QrInv, QrTypeOK
<1>2. QrTypeOK'
  <2>1. Idle \in Request BY DEF Request, Answers, Idle, QrInv, QrTypeOK
  <2>2. Idle.at # "held" BY DEF Idle
  <2>3. req' \in [Requests -> Request] BY <2>1 DEF Forget, QrInv, QrTypeOK
  <2>4. QED BY <1>1, <2>2, <2>3 DEF QrInv, QrTypeOK
<1>3. HistoryRow' BY DEF QrInv, HistoryRow, Gone
<1>4. PollsOnce' BY <1>1 DEF QrInv, PollsOnce, Polling, Stale, Idle
<1>5. NoOrphans'
  <2>1. req[r].op = "begin" => req[r].chal \in abandoned \union {None} BY DEF QrInv, BeginRow
  <2>2. QED BY <1>1, <2>1, QrAssumption DEF QrInv, NoOrphans, Active
<1>6. ASSUME NEW u \in Requests PROVE RequestRow(u)' /\ PollRow(u)' /\ BeginRow(u)'
  <2>1. RequestRow(u)' BY <1>1 DEF QrInv, RequestRow, Idle
  <2>2. PollRow(u)' BY <1>1 DEF QrInv, PollRow, Active, Gone, Idle
  <2>3. BeginRow(u)' BY <1>1 DEF QrInv, BeginRow, Idle
  <2>4. QED BY <2>1, <2>2, <2>3
<1>7. QED BY <1>2, <1>3, <1>4, <1>5, <1>6 DEF QrInv

\* The challenge of a run that is over is not dropped but cancelled.
LEMMA CancelLateKeeps ==
    ASSUME QrInv, NEW r \in Requests, req[r].at = "answered", req[r].op = "begin", CancelLate(r),
           UNCHANGED <<serverVars, loginVars, dialogVars, abandoned>>
    PROVE  QrInv'
<1> USE DEF serverVars, loginVars, dialogVars
<1> DEFINE msg == [op |-> "cancel", chal |-> req[r].chal, run |-> 0, at |-> "sent", ans |-> "none"]
<1>1. req[r] \in Request /\ msg \in Request BY DEF Request, Answers, QrInv, QrTypeOK
<1>2. \A u \in Requests : req'[u] = IF u = r THEN msg ELSE req[u]
  BY <1>1 DEF CancelLate, QrInv, QrTypeOK, Request
<1>3. QrTypeOK'
  <2>1. req' \in [Requests -> Request] BY <1>1, <1>2 DEF CancelLate, QrInv, QrTypeOK
  <2>2. QED BY <1>2, <2>1 DEF QrInv, QrTypeOK
<1>4. HistoryRow' BY DEF QrInv, HistoryRow, Gone
<1>5. PollsOnce' BY <1>2 DEF QrInv, PollsOnce, Polling, Stale
<1>6. NoOrphans' BY <1>2 DEF QrInv, NoOrphans, Active
<1>7. ASSUME NEW u \in Requests PROVE RequestRow(u)' /\ PollRow(u)' /\ BeginRow(u)'
  <2>1. RequestRow(u)' BY <1>2 DEF QrInv, RequestRow
  <2>2. PollRow(u)' BY <1>2 DEF QrInv, PollRow, Active, Gone
  <2>3. BeginRow(u)' BY <1>2 DEF QrInv, BeginRow
  <2>4. QED BY <2>1, <2>2, <2>3
<1>8. QED BY <1>3, <1>4, <1>5, <1>6, <1>7 DEF QrInv

\* The run's own challenge arrives: no other begin and no poll is of this run.
LEMMA TakeKeeps ==
    ASSUME QrInv, NEW r \in Requests, req[r].at = "answered", req[r].op = "begin",
           req[r].ans = "waiting", ~Stale(r), current' = req[r].chal, shown' = "waiting",
           timer' = run, Forget(r), UNCHANGED <<serverVars, run, dialogVars, abandoned>>
    PROVE  QrInv'
<1> USE DEF serverVars, dialogVars
<1>1. /\ current = None /\ shown = "loading" /\ req[r].chal \in Challenges
      /\ run \in Nat /\ run # 0 /\ req[r].run = run
  BY DEF QrInv, QrTypeOK, BeginRow, RequestRow, Stale
<1>2. \A u \in Requests : req'[u] = IF u = r THEN Idle ELSE req[u]
  BY DEF Forget, QrInv, QrTypeOK
<1>3. \A u \in Requests : req[u].op = "poll" => req[u].run # run
  BY <1>1, QrAssumption DEF QrInv, PollRow
<1>4. \A u \in Requests : u # r /\ req[u].op = "begin" => req[u].run # run
  BY <1>1 DEF QrInv, BeginRow
<1>5. QrTypeOK'
  <2>1. Idle \in Request BY DEF Request, Answers, Idle, QrInv, QrTypeOK
  <2>2. Idle.at # "held" BY DEF Idle
  <2>3. req' \in [Requests -> Request] BY <2>1 DEF Forget, QrInv, QrTypeOK
  <2>4. QED BY <1>1, <1>2, <2>2, <2>3 DEF QrInv, QrTypeOK
<1>6. HistoryRow' BY DEF QrInv, HistoryRow, Gone
<1>7. PollsOnce'
  <2>1. Polling' = {} BY <1>2, <1>3 DEF Polling, Stale, Idle
  <2>2. QED BY <2>1 DEF PollsOnce
<1>8. NoOrphans' BY <1>1, <1>2, QrAssumption DEF QrInv, NoOrphans, Active
<1>9. ASSUME NEW u \in Requests PROVE RequestRow(u)' /\ PollRow(u)' /\ BeginRow(u)'
  <2>1. RequestRow(u)' BY <1>2 DEF QrInv, RequestRow, Idle
  <2>2. PollRow(u)' BY <1>2, <1>3 DEF QrInv, PollRow, Active, Gone, Idle
  <2>3. BeginRow(u)' BY <1>2, <1>4 DEF QrInv, BeginRow, Idle
  <2>4. QED BY <2>1, <2>2, <2>3
<1>10. QED BY <1>5, <1>6, <1>7, <1>8, <1>9 DEF QrInv

\* The run's begin has failed: it has no challenge, and will have none.
LEMMA FailKeeps ==
    ASSUME QrInv, NEW r \in Requests, req[r].at = "answered", req[r].op = "begin",
           req[r].ans # "waiting", ~Stale(r), shown' = "error", Forget(r),
           UNCHANGED <<serverVars, run, current, timer, dialogVars, abandoned>>
    PROVE  QrInv'
<1> USE DEF serverVars, dialogVars
<1>1. /\ current = None /\ shown = "loading" /\ req[r].chal \in abandoned \union {None}
      /\ req[r].run = run
  BY DEF QrInv, BeginRow, Stale
<1>2. \A u \in Requests : req'[u] = IF u = r THEN Idle ELSE req[u]
  BY DEF Forget, QrInv, QrTypeOK
<1>3. timer = 0 /\ Polling = {} BY <1>1 DEF QrInv, PollsOnce
<1>4. \A u \in Requests : u # r /\ req[u].op = "begin" => req[u].run # run
  BY <1>1 DEF QrInv, BeginRow
<1>5. QrTypeOK'
  <2>1. Idle \in Request BY DEF Request, Answers, Idle, QrInv, QrTypeOK
  <2>2. Idle.at # "held" BY DEF Idle
  <2>3. req' \in [Requests -> Request] BY <2>1 DEF Forget, QrInv, QrTypeOK
  <2>4. QED BY <1>2, <2>2, <2>3 DEF QrInv, QrTypeOK
<1>6. HistoryRow' BY DEF QrInv, HistoryRow, Gone
<1>7. PollsOnce' BY <1>2, <1>3 DEF PollsOnce, Polling, Stale, Idle
<1>8. NoOrphans' BY <1>1, <1>2, QrAssumption DEF QrInv, NoOrphans, Active
<1>9. ASSUME NEW u \in Requests PROVE RequestRow(u)' /\ PollRow(u)' /\ BeginRow(u)'
  <2>1. RequestRow(u)' BY <1>2 DEF QrInv, RequestRow, Idle
  <2>2. PollRow(u)' BY <1>2 DEF QrInv, PollRow, Active, Gone, Idle
  <2>3. BeginRow(u)' BY <1>2, <1>4 DEF QrInv, BeginRow, Idle
  <2>4. QED BY <2>1, <2>2, <2>3
<1>10. QED BY <1>5, <1>6, <1>7, <1>8, <1>9 DEF QrInv

\* The answer to the run's only poll: its verdict is about the tab's challenge, and
\* either the timer takes over or polling is over.
LEMMA VerdictKeeps ==
    ASSUME QrInv, NEW r \in Requests, req[r].at = "answered", req[r].op = "poll",
           ~Stale(r), PollAnswered(r), UNCHANGED <<serverVars, abandoned>>
    PROVE  QrInv'
<1> USE DEF serverVars
<1> DEFINE a == req[r].ans
<1>1. /\ current \in Challenges /\ req[r].chal = current /\ req[r].run = run
      /\ a \in {"waiting", "scanned", "success", "expired", "error", "gone", "lost"}
      /\ a = "success" => current \in stored
      /\ a = "expired" => current \in Gone \ stored
  BY DEF QrInv, PollRow, Stale
<1>2. /\ shown' = IF a \in {"gone", "lost"} THEN "error" ELSE a
      /\ timer' = IF a \in {"waiting", "scanned"} THEN run ELSE timer
      /\ refreshing' = IF a = "success" THEN refreshing \union {run} ELSE refreshing
      /\ Forget(r) /\ UNCHANGED <<run, current, open, mode>>
  BY DEF PollAnswered, GoesOn
<1>3. \A u \in Requests : req'[u] = IF u = r THEN Idle ELSE req[u]
  BY <1>2 DEF Forget, QrInv, QrTypeOK
<1>4. run \in 1..MaxRuns BY <1>1 DEF QrInv, QrTypeOK, RequestRow
<1>5. r \in Polling /\ Polling = {r} /\ timer = 0
  BY DEF Polling, QrInv, PollsOnce
<1>6. QrTypeOK'
  <2>1. Idle \in Request BY DEF Request, Answers, Idle, QrInv, QrTypeOK
  <2>2. Idle.at # "held" BY DEF Idle
  <2>3. req' \in [Requests -> Request] BY <1>2, <2>1 DEF Forget, QrInv, QrTypeOK
  <2>4. /\ shown' \in {"idle", "loading", "waiting", "scanned", "success", "expired", "error"}
        /\ timer' \in 0..MaxRuns /\ refreshing' \subseteq 1..MaxRuns
    BY <1>1, <1>2, <1>4 DEF QrInv, QrTypeOK
  <2>5. QED BY <1>2, <1>3, <2>2, <2>3, <2>4 DEF QrInv, QrTypeOK
<1>7. HistoryRow' BY <1>1, <1>2 DEF QrInv, HistoryRow, Gone
<1>8. PollsOnce'
  <2>1. Polling' = {} BY <1>2, <1>3, <1>5 DEF Polling, Stale, Idle
  <2>2. QED BY <1>2, <1>5, <2>1 DEF PollsOnce
<1>9. NoOrphans' BY <1>2, <1>3 DEF QrInv, NoOrphans, Active
<1>10. ASSUME NEW u \in Requests PROVE RequestRow(u)' /\ PollRow(u)' /\ BeginRow(u)'
  <2>1. RequestRow(u)' BY <1>2, <1>3 DEF QrInv, RequestRow, Idle
  <2>2. PollRow(u)' BY <1>2, <1>3 DEF QrInv, PollRow, Active, Gone, Idle
  <2>3. \A v \in Requests : req[v].op = "begin" => req[v].run # run
    BY <1>1, QrAssumption DEF QrInv, BeginRow
  <2>4. BeginRow(u)' BY <1>2, <1>3, <2>3 DEF QrInv, BeginRow, Idle
  <2>5. QED BY <2>1, <2>2, <2>4
<1>11. QED BY <1>6, <1>7, <1>8, <1>9, <1>10 DEF QrInv

\* Whatever the tab receives.
LEMMA ReceiveKeeps ==
    ASSUME QrInv, NEW r \in Requests, Receive(r)
    PROVE  QrInv'
<1>1. req[r].at = "answered" /\ UNCHANGED <<serverVars, abandoned>> BY DEF Receive
<1>2. CASE BeginAnswered(r)
  <2>1. CASE Stale(r) /\ req[r].ans = "waiting"
    BY <1>1, <1>2, <2>1, CancelLateKeeps DEF BeginAnswered
  <2>2. CASE Stale(r) /\ req[r].ans # "waiting"
    BY <1>1, <1>2, <2>2, ForgetKeeps DEF BeginAnswered, QrInv, QrTypeOK, dialogVars
  <2>3. CASE ~Stale(r) /\ req[r].ans = "waiting"
    BY <1>1, <1>2, <2>3, TakeKeeps DEF BeginAnswered
  <2>4. CASE ~Stale(r) /\ req[r].ans # "waiting"
    BY <1>1, <1>2, <2>4, FailKeeps DEF BeginAnswered
  <2>5. QED BY <2>1, <2>2, <2>3, <2>4
<1>3. CASE PollAnswered(r)
  <2>1. CASE Stale(r)
    BY <1>1, <1>3, <2>1, ForgetKeeps DEF PollAnswered, QrInv, QrTypeOK, loginVars
  <2>2. CASE ~Stale(r)
    BY <1>1, <1>3, <2>2, VerdictKeeps DEF PollAnswered
  <2>3. QED BY <2>1, <2>2
<1>4. CASE ImportAnswered(r)
  <2>1. CASE Forget(r) /\ UNCHANGED loginVars /\ open' \in BOOLEAN
    BY <1>1, <1>4, <2>1, ForgetKeeps DEF ImportAnswered
  <2>2. CASE /\ open' = FALSE /\ Abort
             /\ req' = [req EXCEPT ![r] =
                   IF current = None THEN Idle
                   ELSE [op |-> "cancel", chal |-> current, run |-> 0,
                         at |-> "sent", ans |-> "none"]]
    BY <1>1, <1>4, <2>2, AbortKeeps DEF ImportAnswered
  <2>3. QED BY <1>4, <2>1, <2>2 DEF ImportAnswered, QrInv, QrTypeOK
<1>5. CASE OtherAnswered(r)
  BY <1>1, <1>5, ForgetKeeps DEF OtherAnswered, QrInv, QrTypeOK, dialogVars
<1>6. QED BY <1>2, <1>3, <1>4, <1>5 DEF Receive

\* Every step of the system keeps the invariant.
LEMMA StepKeeps == QrInv /\ [Next]_vars => QrInv'
<1> SUFFICES ASSUME QrInv, [Next]_vars PROVE QrInv'
  OBVIOUS
<1>1. ASSUME NEW r \in Requests, ServerStep(r) PROVE QrInv' BY <1>1, ServerKeeps
<1>2. ASSUME NEW r \in Requests, TabStep(r) PROVE QrInv'
  <2>1. CASE Start(r) BY <2>1, StartKeeps
  <2>2. CASE Close(r) BY <2>2, CloseKeeps
  <2>3. CASE SubmitImport(r) BY <2>3, SendKeeps DEF SubmitImport
  <2>4. CASE Logout(r) BY <2>4, SendKeeps DEF Logout
  <2>5. CASE Fire(r) BY <2>5, FireKeeps
  <2>6. CASE Receive(r) BY <2>6, ReceiveKeeps
  <2>7. QED BY <1>2, <2>1, <2>2, <2>3, <2>4, <2>5, <2>6 DEF TabStep
<1>3. ASSUME NEW r \in Requests, Lose(r) PROVE QrInv' BY <1>3, LoseKeeps
<1>4. ASSUME NEW c \in Challenges, Image(c) \/ Lapse(c) PROVE QrInv' BY <1>4, ClockKeeps
<1>5. CASE OpenImport
  BY <1>5, DialogKeeps DEF OpenImport, QrInv, QrTypeOK
<1>6. ASSUME NEW n \in 1..MaxRuns, Refreshed(n) PROVE QrInv'
  BY <1>6, DialogKeeps DEF Refreshed, QrInv, QrTypeOK
<1>7. CASE Crash BY <1>7, CrashKeeps
<1>8. CASE UNCHANGED vars
  <2>1. UNCHANGED <<serverVars, req, loginVars, dialogVars, abandoned>> BY <1>8 DEF vars
  <2>2. QED BY <2>1, DialogKeeps DEF dialogVars, QrInv, QrTypeOK
<1>9. QED BY <1>1, <1>2, <1>3, <1>4, <1>5, <1>6, <1>7, <1>8 DEF Next

\* In the beginning there is neither a challenge nor a request.
LEMMA InitHolds == Init => QrInv
<1> SUFFICES ASSUME Init PROVE QrInv
  OBVIOUS
<1> USE QrAssumption DEF Init
<1>1. QrTypeOK
  <2>1. Idle \in Request BY DEF Request, Answers, Idle
  <2>2. req \in [Requests -> Request] BY <2>1
  <2>3. \A r \in Requests : req[r].at # "held" /\ lock # r BY DEF Idle
  <2>4. run \in 0..MaxRuns /\ timer \in 0..MaxRuns OBVIOUS
  <2>5. QED BY <2>2, <2>3, <2>4 DEF QrTypeOK
<1>2. HistoryRow /\ NoOrphans BY DEF HistoryRow, NoOrphans, Active, Gone
<1>3. PollsOnce BY DEF PollsOnce, Polling, Idle
<1>4. ASSUME NEW u \in Requests PROVE RequestRow(u) /\ PollRow(u) /\ BeginRow(u)
  BY DEF RequestRow, PollRow, BeginRow, Idle
<1>5. QED BY <1>1, <1>2, <1>3, <1>4 DEF QrInv

\* Types, and with them what holds at each station of a request.
THEOREM QrInvariant == Spec => []QrInv
<1>1. QED BY InitHolds, StepKeeps, PTL DEF Spec

\* Challenges, requests and the tab of useQrLogin keep their types.
THEOREM QrTypes == Spec => []QrTypeOK
<1>1. QrInv => QrTypeOK BY DEF QrInv
<1>2. QED BY <1>1, QrInvariant, PTL

\* A challenge that a cancel, an import or a logout has ended never stores its login
\* afterwards: the poll that could is inside the lock, and they wait for it.
THEOREM EndedStaysOut == Spec => []VoidedStayOut
<1>1. QrInv => VoidedStayOut BY DEF QrInv, HistoryRow, VoidedStayOut
<1>2. QED BY <1>1, QrInvariant, PTL

\* The tab says "success" and "expired" of its own challenge only.
THEOREM VerdictsAreOwn == Spec => []VerdictIsOwn
<1>1. QrInv => VerdictIsOwn
  BY DEF QrInv, QrTypeOK, HistoryRow, Gone, Active, VerdictIsOwn
<1>2. QED BY <1>1, QrInvariant, PTL

\* The tab has one timer or one poll, never two, whatever runs were started and
\* dropped before, and however late their answers are.
THEOREM PollsAreSingle == Spec => []PollsOnce
<1>1. QrInv => PollsOnce BY DEF QrInv
<1>2. QED BY <1>1, QrInvariant, PTL

\* An open challenge is somebody's to poll or to cancel, if no message about it was
\* lost and the tab was not started again on top of it.
THEOREM NothingForgotten == Spec => []NoOrphans
<1>1. QrInv => NoOrphans BY DEF QrInv
<1>2. QED BY <1>1, QrInvariant, PTL

=============================================================================
