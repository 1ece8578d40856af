------------------------------ MODULE Shutdown ------------------------------
(***************************************************************************)
(* Package shutdown: components with dependencies are registered, started  *)
(* in dependency order and stopped in the reverse order.  One owner calls  *)
(* Start and Stop (as Run does); other goroutines may Add components at any*)
(* time.  Hooks may fail, which includes timeouts and recovered panics.    *)
(* Component n is the n-th that is added; 0 is a name nobody registers.    *)
(***************************************************************************)
EXTENDS Naturals, Sequences, SequencesExt, FiniteSets

CONSTANTS
    N,           \* how many components can be added
    MaxDeps      \* bound on the dependencies of one component

VARIABLES
    deps,        \* every component's list of dependencies
    added,       \* the components 1 .. added are registered
    order,       \* m.order, None when it is not resolved
    cancelled,   \* the context of Start is done
    owner,       \* the owner: [at, todo, done]
    up           \* the components that were started and not stopped since

vars == <<deps, added, order, cancelled, owner, up>>

Comps == 1 .. N
None == <<0>>
At(at, todo, done) == [at |-> at, todo |-> todo, done |-> done]

DepLists == {d \in UNION {[1 .. k -> 0 .. N] : k \in 0 .. MaxDeps} :
               \A i, j \in DOMAIN d : d[i] = d[j] => i = j}

Init ==
    /\ deps \in [Comps -> DepLists]
    /\ added = 0
    /\ order = None
    /\ cancelled = FALSE
    /\ owner = At("new", <<>>, <<>>)
    /\ up = {}

-----------------------------------------------------------------------------
\* resolveLocked: the depth-first search.  st is [on, done, order, cycle]: the
\* components on the stack, those that are finished, their order so far, and
\* whether a component on the stack was met again.
RECURSIVE Visit(_, _)
VisitAll(list, st) ==
    FoldLeft(LAMBDA s, c : IF s.cycle THEN s ELSE Visit(c, s), st, list)

Visit(c, st) ==
    CASE c \in st.on -> [st EXCEPT !.cycle = TRUE]
      [] c \in st.done -> st
      [] OTHER ->
           LET below == VisitAll(deps[c], [st EXCEPT !.on = @ \cup {c}])
           IN  IF below.cycle THEN below
               ELSE [below EXCEPT !.on = @ \ {c}, !.done = @ \cup {c}, !.order = Append(@, c)]

Names == 1 .. added
MissingDep == \E c \in Names : \E i \in DOMAIN deps[c] : deps[c][i] \notin Names
Search == VisitAll([i \in Names |-> i], [on |-> {}, done |-> {}, order |-> <<>>, cycle |-> FALSE])

\* The order, with the search that lists a component before its dependencies.
ResolvePreOrder == IF MissingDep \/ Search.cycle THEN None ELSE Reverse(Search.order)

\* The order, or None for ErrMissingDep and ErrCycle.
Resolve == IF MissingDep \/ Search.cycle THEN None ELSE Search.order

-----------------------------------------------------------------------------
\* Add that leaves the order as it was.
AddStale ==
    /\ added < N
    /\ added' = added + 1
    /\ UNCHANGED <<deps, order, cancelled, owner, up>>

\* Add invalidates the order.
Add ==
    /\ added < N
    /\ added' = added + 1
    /\ order' = None
    /\ UNCHANGED <<deps, cancelled, owner, up>>

Cancel ==
    /\ ~cancelled
    /\ cancelled' = TRUE
    /\ UNCHANGED <<deps, added, order, owner, up>>

\* Start resolves the order, and takes a snapshot of the components.
Start ==
    /\ owner.at = "new"
    /\ order' = IF Resolve = None THEN order ELSE Resolve
    /\ owner' = IF Resolve = None THEN At("failed", <<>>, <<>>) ELSE At("start", Resolve, <<>>)
    /\ UNCHANGED <<deps, added, cancelled, up>>

\* One round of Start's loop: the hook succeeds or fails; on a failure, or when
\* the context is done, what was started is rolled back in reverse.
StartHook ==
    /\ owner.at = "start" /\ owner.todo # <<>>
    /\ LET c == Head(owner.todo)
       IN \/ /\ up' = up \cup {c}
             /\ owner' = IF cancelled
                         THEN At("rollback", Reverse(Append(owner.done, c)), <<>>)
                         ELSE At("start", Tail(owner.todo), Append(owner.done, c))
          \/ /\ owner' = At("rollback", Reverse(owner.done), <<>>)
             /\ UNCHANGED up
    /\ UNCHANGED <<deps, added, order, cancelled>>

StartReturn ==
    /\ owner.at = "start" /\ owner.todo = <<>>
    /\ owner' = At("running", <<>>, <<>>)
    /\ UNCHANGED <<deps, added, order, cancelled, up>>

\* The stop order is the start order.
StopForward ==
    /\ owner.at \in {"new", "failed", "running"}
    /\ LET o == IF order = None THEN Resolve ELSE order
       IN  /\ order' = o
           /\ owner' = IF o = None THEN At("stopped", <<>>, <<>>) ELSE At("stop", o, <<>>)
    /\ UNCHANGED <<deps, added, cancelled, up>>

\* Stop resolves the order if it was invalidated, and returns an error when that
\* fails; otherwise it stops every registered component in reverse.
Stop ==
    /\ owner.at \in {"new", "failed", "running"}
    /\ LET o == IF order = None THEN Resolve ELSE order
       IN  /\ order' = o
           /\ owner' = IF o = None THEN At("stopped", <<>>, <<>>) ELSE At("stop", Reverse(o), <<>>)
    /\ UNCHANGED <<deps, added, cancelled, up>>

\* One round of stopReverse: whether or not the hook fails, the next one follows.
StopHook ==
    /\ owner.at \in {"rollback", "stop"} /\ owner.todo # <<>>
    /\ up' = up \ {Head(owner.todo)}
    /\ owner' = [owner EXCEPT !.todo = Tail(@)]
    /\ UNCHANGED <<deps, added, order, cancelled>>

StopReturn ==
    /\ owner.at \in {"rollback", "stop"} /\ owner.todo = <<>>
    /\ owner' = At(IF owner.at = "stop" THEN "stopped" ELSE "failed", <<>>, <<>>)
    /\ UNCHANGED <<deps, added, order, cancelled, up>>

Next == Add \/ Cancel \/ Start \/ StartHook \/ StartReturn \/ Stop \/ StopHook \/ StopReturn

Spec == Init /\ [][Next]_vars

-----------------------------------------------------------------------------
TypeOK ==
    /\ deps \in [Comps -> DepLists] /\ added \in 0 .. N
    /\ order = None \/ (order \in Seq(Comps) /\ Len(order) = added)
    /\ cancelled \in BOOLEAN
    /\ owner.at \in {"new", "start", "rollback", "running", "failed", "stop", "stopped"}
    /\ owner.todo \in Seq(Comps) /\ owner.done \in Seq(Comps)
    /\ up \subseteq Comps

DependsOn(c) == {deps[c][i] : i \in DOMAIN deps[c]}

\* Reference: the registered components can be ordered exactly if the names they
\* depend on are registered and no nonempty set of them is closed in itself.
Orderable ==
    /\ \A c \in Names : DependsOn(c) \subseteq Names
    /\ \A S \in SUBSET Names \ {{}} : \E c \in S : DependsOn(c) \cap S = {}

\* The search finds an order exactly when there is one; it has every registered
\* component once, after everything it depends on.
ResolveCorrect ==
    IF Orderable
    THEN /\ Resolve # None
         /\ Len(Resolve) = added /\ ToSet(Resolve) = Names
         /\ \A i \in 1 .. Len(Resolve) : DependsOn(Resolve[i]) \subseteq ToSet(SubSeq(Resolve, 1, i - 1))
    ELSE Resolve = None

\* A start hook runs only when all that the component depends on is up.
StartsInOrder == \A c \in up' \ up : DependsOn(c) \subseteq up
DepsUpAtStart == [][StartsInOrder]_vars

\* A stop hook runs only when nothing that is up depends on the component, in
\* Stop and in the rollback, also when components were added since Start.
StopsInOrder == \A c \in up \ up' : \A d \in up' : c \notin DependsOn(d)
DependentsDownAtStop == [][StopsInOrder]_vars

\* A failed Start leaves nothing running.
RollbackComplete == owner.at = "failed" => up = {}

\* Stop stops everything: when it has returned, no component is up.
StopIsComplete == owner.at = "stopped" => up = {}

=============================================================================
