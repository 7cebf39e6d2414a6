---------------------------- MODULE PreviewPlayer ----------------------------
(***************************************************************************)
(* The short previews of a tab: frontend/src/composables/usePreview.ts and *)
(* the button of TrackRow.  One variable holds the present audio element,  *)
(* and the handlers of every element write it and the shared state.        *)
(*                                                                         *)
(* A media element reports by tasks of the browser's event loop, which run *)
(* after anything that was already queued: pausing an element that is      *)
(* still loading rejects the promise of its play() in such a task, and an  *)
(* event already queued is fired although the element was paused since.    *)
(***************************************************************************)
EXTENDS Naturals, FiniteSets

CONSTANTS
    Tracks,
    Elements,     \* bound: the audio elements a tab makes
    None

VARIABLES
    activeKey, state, audio,   \* as in usePreview
    sound,                     \* what each element does
    tasks                      \* events and rejections queued for its handlers

vars == <<activeKey, state, audio, sound, tasks>>

\* stop pauses the element the variable holds, and no other.
Paused ==
    [e \in Elements |-> IF e = audio /\ sound[e] \in {"loading", "playing"} THEN "paused"
                                                                           ELSE sound[e]]
Rejected ==
    [e \in Elements |-> IF e = audio /\ sound[e] = "loading" THEN tasks[e] \cup {"rejection"}
                                                             ELSE tasks[e]]

Stop ==
    /\ activeKey' = None /\ state' = "idle" /\ audio' = None
    /\ sound' = Paused /\ tasks' = Rejected

\* The button of the row that is active rests once it says unavailable.
ToggleOff ==
    /\ activeKey # None /\ state # "unavailable"
    /\ Stop

ToggleOn(t, e) ==
    /\ activeKey # t /\ sound[e] = "new"
    /\ activeKey' = t /\ state' = "loading" /\ audio' = e
    /\ sound' = [Paused EXCEPT ![e] = "loading"]
    /\ tasks' = Rejected

-----------------------------------------------------------------------------
(* The elements. *)

Report(e, before, after, event) ==
    /\ sound[e] \in before
    /\ sound' = [sound EXCEPT ![e] = after]
    /\ tasks' = [tasks EXCEPT ![e] = @ \cup {event}]
    /\ UNCHANGED <<activeKey, state, audio>>

Starts(e) == Report(e, {"loading"}, "playing", "playing")
Ends(e) == Report(e, {"playing"}, "over", "ended")
Fails(e) == Report(e, {"loading", "playing", "paused"}, "over", "error")

-----------------------------------------------------------------------------
(* The handlers: none asks whether its element is still the present one. *)

Handle(e, event) == event \in tasks[e] /\ tasks' = [tasks EXCEPT ![e] = @ \ {event}]

OnPlaying(e) ==
    /\ Handle(e, "playing")
    /\ state' = "playing"
    /\ UNCHANGED <<activeKey, audio, sound>>

OnFailure(e) ==
    /\ Handle(e, "error") \/ Handle(e, "rejection")
    /\ audio' = None /\ state' = "unavailable"
    /\ UNCHANGED <<activeKey, sound>>

OnEnded(e) ==
    /\ "ended" \in tasks[e]
    /\ activeKey' = None /\ state' = "idle" /\ audio' = None
    /\ sound' = Paused
    /\ tasks' = [Rejected EXCEPT ![e] = @ \ {"ended"}]

Init ==
    /\ activeKey = None /\ state = "idle" /\ audio = None
    /\ sound = [e \in Elements |-> "new"]
    /\ tasks = [e \in Elements |-> {}]

Next ==
    \/ ToggleOff
    \/ \E e \in Elements :
          \/ \E t \in Tracks : ToggleOn(t, e)
          \/ Starts(e) \/ Ends(e) \/ Fails(e)
          \/ OnPlaying(e) \/ OnFailure(e) \/ OnEnded(e)

Spec == Init /\ [][Next]_vars

-----------------------------------------------------------------------------
\* At most one preview sounds at a time, as docs/spec.md:18 says.
OneAtATime == Cardinality({e \in Elements : sound[e] = "playing"}) <= 1
=============================================================================
