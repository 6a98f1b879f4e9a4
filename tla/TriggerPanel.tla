---------------------------- MODULE TriggerPanel ----------------------------
(***************************************************************************)
(* The page of the scrapers in the browser: the trigger button of a source *)
(* and "Analisar tudo", with the answers they wait for and the timers that *)
(* clear what they show.  Buttons of different sources share nothing.      *)
(*                                                                         *)
(* Timers of 5 and of 8 seconds run in parallel and belong to no state in  *)
(* particular: here they fire in any order.                                *)
(***************************************************************************)
EXTENDS Integers, FiniteSets

CONSTANT Clicks      \* presses of the trigger button

VARIABLES
    view,        \* "shown", or "broken" by an error nothing on it handles
    backendOk,   \* whether the API was reachable when the page was rendered
    status,      \* what the button shows
    waiting,     \* clicks of this page whose answer has not come
    timers,      \* clicks of this page whose timer is set
    asking,      \* answers to "Analisar tudo" this page waits for
    pending,     \* analysisPending
    clearing     \* timers set to clear it

panel == <<view, backendOk, status, waiting, timers, asking, pending, clearing>>

PanelInit ==
    /\ view = "shown" /\ backendOk = TRUE /\ status = "idle"
    /\ waiting = {} /\ timers = {}
    /\ asking = 0 /\ pending = FALSE /\ clearing = 0

Buttons == view = "shown" /\ backendOk

(* Nothing of the component is left: neither state nor anyone to hear. *)
Unmount ==
    /\ status' = "idle" /\ waiting' = {} /\ timers' = {}
    /\ asking' = 0 /\ pending' = FALSE /\ clearing' = 0

(* The page is rendered anew. *)
Render(ok) == view' = "shown" /\ backendOk' = ok /\ Unmount

(* An exception in a transition: React takes the page away. *)
Break == view' = "broken" /\ UNCHANGED backendOk /\ Unmount

(* trigger: the button is disabled in the state "queued" only, so it can be  *)
(* pressed again while an answer is on its way.                              *)
Click(c) ==
    /\ Buttons
    /\ status # "queued"
    /\ status' = "idle"
    /\ waiting' = waiting \cup {c}
    /\ UNCHANGED <<view, backendOk, timers, asking, pending, clearing>>

(* The answer to a click is shown, and a timer set. *)
Answer(c, answer) ==
    /\ c \in waiting
    /\ status' = answer
    /\ waiting' = waiting \ {c}
    /\ timers' = timers \cup {c}
    /\ UNCHANGED <<view, backendOk, asking, pending, clearing>>

(* Mutant: a timer clears the state it was set for in the first place. *)
ExpireQueued(c) ==
    /\ c \in timers
    /\ status' = IF status = "queued" THEN "idle" ELSE status
    /\ timers' = timers \ {c}
    /\ UNCHANGED <<view, backendOk, waiting, asking, pending, clearing>>

(* The timer of a click clears whatever is shown by then. *)
Expire(c) ==
    /\ c \in timers
    /\ status' = "idle"
    /\ timers' = timers \ {c}
    /\ UNCHANGED <<view, backendOk, waiting, asking, pending, clearing>>

(* runAnalysis; pending keeps its button disabled. *)
Ask ==
    /\ Buttons
    /\ ~pending
    /\ pending' = TRUE
    /\ asking' = asking + 1
    /\ UNCHANGED <<view, backendOk, status, waiting, timers, clearing>>

(* Mutant: pending is cleared when the answer is there, and by the timer. *)
AskedClears ==
    /\ asking > 0
    /\ asking' = asking - 1
    /\ clearing' = clearing + 1
    /\ pending' = FALSE
    /\ UNCHANGED <<view, backendOk, status, waiting, timers>>

(* Whatever the answer says, a timer follows it. *)
Asked ==
    /\ asking > 0
    /\ asking' = asking - 1
    /\ clearing' = clearing + 1
    /\ UNCHANGED <<view, backendOk, status, waiting, timers, pending>>

Clear ==
    /\ clearing > 0
    /\ clearing' = clearing - 1
    /\ pending' = FALSE
    /\ UNCHANGED <<view, backendOk, status, waiting, timers, asking>>
=============================================================================
