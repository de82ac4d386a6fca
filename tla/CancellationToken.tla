--------------------------- MODULE CancellationToken ---------------------------
(***************************************************************************)
(* CancellationToken (async_primitives/cancellation.py): a tree of tokens  *)
(* with callbacks.  cancel() walks down the children and then runs the     *)
(* token's callbacks, and a callback may call any method of any token: the *)
(* walk is a stack of positions in lists that change under it.             *)
(***************************************************************************)
EXTENDS Integers, SequencesExt

CONSTANTS Tokens, Root, Callbacks

VARIABLES parent,     \* _parent of every token that was created
          own,        \* the tokens whose _cancelled is set
          children,   \* _children
          callbacks,  \* _callbacks
          runs,       \* how often each callback was run
          walk,       \* the calls of cancel() under way, innermost last
          late,       \* tokens created below one that was cancelled
          cut         \* tokens whose callbacks were shortened while they were run

vars == <<parent, own, children, callbacks, runs, walk, late, cut>>

Unborn == "unborn"
NoParent == "no parent"

\* What the constants are; MCTables, which instantiates this module, assumes it.
TokensAssumption == Root \in Tokens /\ {Unborn, NoParent} \cap Tokens = {}

Init ==
    /\ parent = [t \in Tokens |-> IF t = Root THEN NoParent ELSE Unborn]
    /\ own = {} /\ late = {} /\ cut = {}
    /\ children = [t \in Tokens |-> <<>>]
    /\ callbacks = [t \in Tokens |-> <<>>]
    /\ runs = [b \in Callbacks |-> 0]
    /\ walk = <<>>

Born == {t \in Tokens : parent[t] # Unborn}

\* is_cancelled: this token or any above it.
UpFrom(t) ==
    {u \in Tokens : \A above \in SUBSET Tokens :
        t \in above /\ (\A v \in above : parent[v] \in Tokens => parent[v] \in above) => u \in above}
IsCancelled(t) == UpFrom(t) \cap own # {}

\* A position in a walk: the token, the list that is walked, the elements done.
At(t, list, done) == [token |-> t, list |-> list, done |-> done, inside |-> FALSE]

\* Methods are called by the program, or by the callback that is running.
MayCall == walk # <<>> => Last(walk).inside
Top(position) == Append(Front(walk), position)

-----------------------------------------------------------------------------

\* cancel, of a token that is not cancelled yet
Cancel(t) ==
    /\ MayCall /\ t \in Born \ own
    /\ own' = own \cup {t}
    /\ walk' = Append(walk, At(t, "children", 0))
    /\ UNCHANGED <<parent, children, callbacks, runs, late, cut>>

\* The walk's next child: nothing is done for one that is cancelled itself.
CancelChild ==
    /\ walk # <<>>
    /\ LET w == Last(walk)
           child == children[w.token][w.done + 1]
           on == Top([w EXCEPT !.done = @ + 1])
       IN /\ w.list = "children" /\ w.done < Len(children[w.token])
          /\ own' = own \cup {child}
          /\ walk' = IF child \in own THEN on ELSE Append(on, At(child, "children", 0))
    /\ UNCHANGED <<parent, children, callbacks, runs, late, cut>>

ChildrenDone ==
    /\ walk # <<>>
    /\ LET w == Last(walk)
       IN /\ w.list = "children" /\ w.done >= Len(children[w.token])
          /\ walk' = Top(At(w.token, "callbacks", 0))
    /\ UNCHANGED <<parent, own, children, callbacks, runs, late, cut>>

RunCallback ==
    /\ walk # <<>>
    /\ LET w == Last(walk)
       IN /\ w.list = "callbacks" /\ ~w.inside /\ w.done < Len(callbacks[w.token])
          /\ runs' = [runs EXCEPT ![callbacks[w.token][w.done + 1]] = @ + 1]
          /\ walk' = Top([w EXCEPT !.done = @ + 1, !.inside = TRUE])
    /\ UNCHANGED <<parent, own, children, callbacks, late, cut>>

\* A callback that fails is logged; the next one is run.
CallbackReturns ==
    /\ walk # <<>> /\ Last(walk).inside
    /\ walk' = Top([Last(walk) EXCEPT !.inside = FALSE])
    /\ UNCHANGED <<parent, own, children, callbacks, runs, late, cut>>

CallbacksDone ==
    /\ walk # <<>>
    /\ LET w == Last(walk)
       IN w.list = "callbacks" /\ ~w.inside /\ w.done >= Len(callbacks[w.token])
    /\ walk' = Front(walk)
    /\ UNCHANGED <<parent, own, children, callbacks, runs, late, cut>>

-----------------------------------------------------------------------------

\* The new token's own _cancelled is false, whatever its parent is.
CreateChild(t, child) ==
    /\ MayCall /\ t \in Born /\ child \notin Born
    /\ parent' = [parent EXCEPT ![child] = t]
    /\ children' = [children EXCEPT ![t] = Append(@, child)]
    /\ late' = IF IsCancelled(t) THEN late \cup {child} ELSE late
    /\ UNCHANGED <<own, callbacks, runs, walk, cut>>

Known(b) == runs[b] > 0 \/ \E t \in Tokens : Contains(callbacks[t], b)

\* Mutant: the callback is kept as well.
OnCancel_Keeps(t, b) ==
    /\ MayCall /\ t \in Born /\ ~Known(b)
    /\ IF t \in own THEN runs' = [runs EXCEPT ![b] = @ + 1] ELSE UNCHANGED runs
    /\ callbacks' = [callbacks EXCEPT ![t] = Append(@, b)]
    /\ UNCHANGED <<parent, own, children, walk, late, cut>>

\* Only a token that is cancelled itself runs the callback at once.
OnCancel(t, b) ==
    /\ MayCall /\ t \in Born /\ ~Known(b)
    /\ IF t \in own
       THEN runs' = [runs EXCEPT ![b] = @ + 1] /\ UNCHANGED callbacks
       ELSE callbacks' = [callbacks EXCEPT ![t] = Append(@, b)] /\ UNCHANGED runs
    /\ UNCHANGED <<parent, own, children, walk, late, cut>>

RemoveCallback(t, b) ==
    /\ MayCall
    /\ \E i \in DOMAIN callbacks[t] :
          callbacks[t][i] = b /\ callbacks' = [callbacks EXCEPT ![t] = RemoveAt(@, i)]
    /\ cut' = IF t \in own THEN cut \cup {t} ELSE cut
    /\ UNCHANGED <<parent, own, children, runs, walk, late>>

Next ==
    \/ \E t \in Tokens :
         \/ Cancel(t)
         \/ \E child \in Tokens : CreateChild(t, child)
         \/ \E b \in Callbacks : OnCancel(t, b) \/ RemoveCallback(t, b)
    \/ CancelChild \/ ChildrenDone
    \/ RunCallback \/ CallbackReturns \/ CallbacksDone

Spec == Init /\ [][Next]_vars

-----------------------------------------------------------------------------
(* Properties *)

\* Whatever callbacks do to the tree that is being cancelled, no callback is run
\* twice, and when the outermost cancel() returns every token that was below a
\* cancelled one is cancelled itself and has run all it was given, with two
\* exceptions: tokens created later, and lists shortened while they were run.
CancelsOnceAndAll ==
    /\ \A b \in Callbacks : runs[b] <= 1
    /\ walk = <<>> => \A t \in Born : IsCancelled(t) =>
          /\ t \in own \cup late
          /\ t \in own \ cut => \A i \in DOMAIN callbacks[t] : runs[callbacks[t][i]] = 1
=============================================================================
