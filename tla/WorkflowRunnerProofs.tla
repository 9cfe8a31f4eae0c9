------------------------ MODULE WorkflowRunnerProofs ------------------------
(***************************************************************************)
(* Proofs about WorkflowRunner for every plan and any number of pipelines  *)
(* and tasks: its types, the dependency order, the soundness of launches,  *)
(* the final statuses, what a reported cycle means, that the runner        *)
(* implements WorkflowSemantics, that decisions are final and that         *)
(* execution.json tells what happened.                                     *)
(*                                                                         *)
(* The argument rests on the order.  OrderInv says that the tasks placed   *)
(* are those no longer pending, each once, each after the tasks it depends *)
(* on.  StatusInv says that the tasks before next in that order are        *)
(* decided consistently and those from next on are undecided.  Since the   *)
(* dependencies of a task lie before it, deciding one task never changes a *)
(* status that an earlier decision was based on.  ResultInv adds what the  *)
(* results of the pipelines the loop has passed say of their tasks.        *)
(***************************************************************************)
EXTENDS WorkflowRunner, TLAPS

InPipeline == phase \in {"order", "execute", "running", "cycle", "noLauncher"}

PositionInv ==
  /\ InPipeline => current \in selected /\ ~IsRefused(Pl, allowPartial)
  /\ phase \in {"execute", "running"} => pending = {} /\ next \in 1 .. Len(order) + 1
  /\ phase = "running" => next \in 1 .. Len(order)
  /\ phase = "done" => current = NumPipelines + 1

OrderInv ==
  InPipeline =>
    /\ pending \subseteq TasksOf(Pl)
    /\ \A t \in TasksOf(Pl) : t \in pending \/ \E i \in 1 .. Len(order) : order[i] = t
    /\ \A i \in 1 .. Len(order) : order[i] \in TasksOf(Pl) \ pending
    /\ \A i, j \in 1 .. Len(order) : order[i] = order[j] => i = j
    /\ \A i \in 1 .. Len(order) : \A d \in Pl.deps[order[i]] :
         d.on \in TasksOf(Pl) => \E j \in 1 .. i - 1 : order[j] = d.on

\* A pass that has placed nothing has met no placeable task.
CycleInv ==
  /\ phase = "order" /\ ~progressed => \A t \in pending : t < cursor => ~Placeable(t)
  /\ phase = "cycle" => pending # {} /\ \A t \in pending : ~Placeable(t)

Untouched(p) == \A t \in Positions : status[p][t] = "undecided"

StatusInv ==
  /\ \A p \in Pipelines : p > current => Untouched(p)
  /\ phase \in {"select", "order", "cycle"} /\ current \in Pipelines => Untouched(current)
  /\ phase \in {"execute", "running"} =>
       \A i \in 1 .. Len(order) :
         IF i < next THEN Consistent(Pl, order[i], State) ELSE State[order[i]] = "undecided"
  /\ \A p \in Pipelines : result[p] \notin {"none", "refused"} =>
       p < current /\ \A t \in TasksOf(plan[p]) : Consistent(plan[p], t, status[p])

IInv == TypeOK /\ PositionInv /\ OrderInv /\ CycleInv /\ StatusInv

-----------------------------------------------------------------------------
LEMMA PipelineTyped ==
  ASSUME TypeOK, NEW p \in Pipelines
  PROVE  /\ plan[p].size \in 0 .. NumTasks
         /\ TasksOf(plan[p]) \subseteq Positions
         /\ \A t \in Positions : \A d \in plan[p].deps[t] : d.on \in 0 .. NumTasks
         /\ \A t \in Positions : plan[p].command[t] \in Commands
<1>1. plan[p] \in PipelineType
  BY DEF TypeOK
<1> QED
  BY <1>1, SizesAssumption DEF PipelineType, TasksOf, Positions

LEMMA StatusTyped ==
  ASSUME TypeOK, NEW p \in Pipelines, NEW t \in Positions, NEW s \in Statuses
  PROVE  /\ [status EXCEPT ![p][t] = s] \in [Pipelines -> [Positions -> Statuses]]
         /\ [status EXCEPT ![p][t] = s][p] = [status[p] EXCEPT ![t] = s]
         /\ [status EXCEPT ![p][t] = s][p][t] = s
         /\ \A q \in Pipelines : q # p => [status EXCEPT ![p][t] = s][q] = status[q]
         /\ \A u \in Positions : u # t => [status EXCEPT ![p][t] = s][p][u] = status[p][u]
BY DEF TypeOK

\* The statuses a consistent task depends on are all that its consistency reads.
LEMMA ConsistentReads ==
  ASSUME NEW pl, NEW t, NEW s1, NEW s2, s1[t] = s2[t],
         \A d \in pl.deps[t] : d.on \in TasksOf(pl) => s1[d.on] = s2[d.on]
  PROVE  /\ Triggered(pl, t, s1) <=> Triggered(pl, t, s2)
         /\ Consistent(pl, t, s1) <=> Consistent(pl, t, s2)
<1>1. Triggered(pl, t, s1) <=> Triggered(pl, t, s2)
  BY DEF Triggered, Satisfied
<1> QED
  BY <1>1 DEF Consistent

LEMMA ConsistentDecided ==
  ASSUME NEW pl, NEW t, NEW s, Consistent(pl, t, s)
  PROVE  s[t] \in Decided
BY DEF Consistent, Decided, Outcomes

LEMMA EmptyOrder == <<>> \in Seq(Positions)
OBVIOUS

LEMMA InitIInv == Init => IInv
<1> SUFFICES ASSUME Init PROVE IInv
  OBVIOUS
<1>1. TypeOK
  <2>1. plan \in [Pipelines -> PipelineType]
    BY PlansAssumption DEF Init
  <2>2. status \in [Pipelines -> [Positions -> Statuses]]
    BY DEF Init, Statuses
  <2>3. result \in [Pipelines -> Results]
    BY DEF Init, Results
  <2>4. current \in 1 .. NumPipelines + 1 /\ cursor \in Nat /\ next \in Nat
    BY SizesAssumption DEF Init
  <2> QED
    BY <2>1, <2>2, <2>3, <2>4, EmptyOrder DEF Init, TypeOK, Phases
<1>2. PositionInv /\ OrderInv /\ CycleInv
  BY DEF Init, PositionInv, OrderInv, CycleInv, InPipeline
<1>3. StatusInv
  BY DEF Init, StatusInv, Untouched
<1> QED
  BY <1>1, <1>2, <1>3 DEF IInv

-----------------------------------------------------------------------------
(* Typing, one lemma for all actions. *)

LEMMA TypeStep == IInv /\ [Next]_vars => TypeOK'
<1> SUFFICES ASSUME IInv, [Next]_vars PROVE TypeOK'
  OBVIOUS
<1>a. TypeOK /\ PositionInv /\ OrderInv
  BY DEF IInv
<1> USE SizesAssumption
<1>1. ASSUME current \in Pipelines, current' = current + 1
      PROVE  current' \in 1 .. NumPipelines + 1
  BY <1>1 DEF Pipelines
<1>2. ASSUME NEW t \in Positions, At(t)
      PROVE  current \in Pipelines
  BY <1>2, <1>a DEF At, PositionInv, InPipeline, TypeOK
<1>3. CASE SkipPipeline
  BY <1>3, <1>1, <1>a DEF SkipPipeline, TypeOK, inputs, orderVars
<1>4. CASE RefusePipeline
  <2>1. current \in Pipelines
    BY <1>4, <1>a DEF RefusePipeline, TypeOK
  <2> DEFINE refused == [t \in Positions |-> IF t \notin TasksOf(Pl) THEN "undecided"
                              ELSE IF t \in Pl.blocked THEN "blocked" ELSE "not_run"]
  <2>2. refused \in [Positions -> Statuses]
    BY DEF Statuses, Decided
  <2>3. status' \in [Pipelines -> [Positions -> Statuses]]
    <3> HIDE DEF refused
    <3>1. status' = [status EXCEPT ![current] = refused]
      BY <1>4 DEF RefusePipeline, refused
    <3> QED
      BY <3>1, <2>1, <2>2, <1>a DEF TypeOK
  <2>4. result' \in [Pipelines -> Results]
    BY <1>4, <2>1, <1>a DEF RefusePipeline, TypeOK, Results
  <2> QED
    BY <1>4, <1>1, <2>1, <2>3, <2>4, <1>a DEF RefusePipeline, TypeOK, inputs, orderVars
<1>5. CASE StartPipeline
  <2>1. TasksOf(Pl) \subseteq Positions
    BY <1>5, <1>a, PipelineTyped DEF StartPipeline, TypeOK, Pl
  <2> QED
    BY <1>5, <2>1, <1>a, EmptyOrder DEF StartPipeline, TypeOK, inputs, Phases
<1>6. CASE PlaceTask
  <2>1. cursor \in Positions
    BY <1>6, <1>a DEF PlaceTask, TypeOK
  <2>2. order' \in Seq(Positions)
    BY <1>6, <2>1, <1>a DEF PlaceTask, TypeOK
  <2> QED
    BY <1>6, <2>2, <1>a DEF PlaceTask, TypeOK, inputs
<1>7. CASE PassOver
  BY <1>7, <1>a DEF PassOver, TypeOK, inputs
<1>8. CASE NextPass
  BY <1>8, <1>a DEF NextPass, EndOfPass, TypeOK, inputs
<1>9. CASE CycleFound
  BY <1>9, <1>a DEF CycleFound, EndOfPass, TypeOK, inputs, orderVars, Phases
<1>10. CASE Ordered
  BY <1>10, <1>a DEF Ordered, EndOfPass, TypeOK, inputs, orderVars, Phases
<1>11. ASSUME NEW t \in Positions, NEW s \in Statuses, At(t), Decide(t, s)
       PROVE  TypeOK'
  <2>1. status' \in [Pipelines -> [Positions -> Statuses]]
    BY <1>11, <1>2, <1>a, StatusTyped DEF Decide
  <2>2. next' \in Nat
    BY <1>11, <1>a DEF Decide, TypeOK
  <2> QED
    BY <1>11, <2>1, <2>2, <1>a DEF Decide, TypeOK, inputs, orderVars
<1>12. "blocked" \in Statuses /\ "not_triggered" \in Statuses /\ "succeeded" \in Statuses
  BY DEF Statuses, Decided, Outcomes
<1>13. ASSUME NEW t \in Positions,
              BlockTask(t) \/ LeaveUntriggered(t) \/ RefuseTask(t) \/ RecordNotification(t)
       PROVE  TypeOK'
  BY <1>11, <1>12, <1>13 DEF BlockTask, LeaveUntriggered, RefuseTask, RecordNotification
<1>14. ASSUME NEW t \in Positions, Launch(t) \/ LaunchError(t)
       PROVE  TypeOK'
  BY <1>14, <1>a DEF Launch, LaunchError, TypeOK, inputs, orderVars, Phases
<1>15. CASE Finish
  <2>1. current \in Pipelines
    BY <1>15, <1>a DEF Finish, PositionInv, InPipeline, TypeOK
  <2>2. order[next] \in Positions
    BY <1>15, <1>a DEF Finish, PositionInv, TypeOK
  <2>3. status' \in [Pipelines -> [Positions -> Statuses]]
    <3>1. PICK outcome \in Outcomes : status' = [status EXCEPT ![current][order[next]] = outcome]
      BY <1>15 DEF Finish
    <3>2. outcome \in Statuses
      BY DEF Statuses, Decided
    <3> QED
      BY <3>1, <3>2, <2>1, <2>2, <1>a, StatusTyped
  <2>4. next' \in Nat
    BY <1>15, <1>a DEF Finish, TypeOK
  <2> QED
    BY <1>15, <2>3, <2>4, <1>a DEF Finish, TypeOK, inputs, orderVars, Phases
<1>16. CASE EndPipeline
  <2>1. current \in Pipelines
    BY <1>16, <1>a DEF EndPipeline, PositionInv, InPipeline, TypeOK
  <2>2. result' \in [Pipelines -> Results]
    BY <1>16, <2>1, <1>a DEF EndPipeline, PipelineStatus, TypeOK, Results
  <2> QED
    BY <1>16, <1>1, <2>1, <2>2, <1>a DEF EndPipeline, TypeOK, inputs, orderVars, Phases
<1>17. CASE WriteExecution
  <2>1. execution' \in {"succeeded", "partial", "failed"}
    BY <1>17 DEF WriteExecution, Overall
  <2> QED
    BY <1>17, <2>1, <1>a DEF WriteExecution, TypeOK, inputs, orderVars, Phases
<1>18. CASE UNCHANGED vars
  BY <1>18, <1>a DEF vars, inputs, orderVars, TypeOK
<1> QED
  BY <1>3, <1>4, <1>5, <1>6, <1>7, <1>8, <1>9, <1>10, <1>13, <1>14, <1>15, <1>16, <1>17, <1>18
  DEF Next

-----------------------------------------------------------------------------
(* The steps outside the loop over the ordered tasks. *)

Rest == PositionInv /\ OrderInv /\ CycleInv /\ StatusInv

LEMMA SkipStep == IInv /\ SkipPipeline => Rest'
<1> SUFFICES ASSUME IInv, SkipPipeline PROVE Rest'
  OBVIOUS
<1>1. TypeOK /\ StatusInv
  BY DEF IInv
<1>2. PositionInv' /\ OrderInv' /\ CycleInv'
  BY DEF SkipPipeline, PositionInv, OrderInv, CycleInv, InPipeline
<1>3. StatusInv'
  <2>1. \A p \in Pipelines : p > current + 1 => p > current
    BY <1>1, SizesAssumption DEF Pipelines, TypeOK
  <2>2. current + 1 > current
    BY <1>1 DEF TypeOK
  <2>3. \A p \in Pipelines : p < current => p < current + 1
    BY <1>1, SizesAssumption DEF Pipelines, TypeOK
  <2>4. plan' = plan /\ status' = status /\ result' = result /\ current' = current + 1
        /\ phase' = "select"
    BY DEF SkipPipeline, inputs
  <2> QED
    BY <1>1, <2>1, <2>2, <2>3, <2>4 DEF StatusInv, Untouched
<1> QED
  BY <1>2, <1>3 DEF Rest

LEMMA RefuseStep == IInv /\ RefusePipeline => Rest'
<1> SUFFICES ASSUME IInv, RefusePipeline PROVE Rest'
  OBVIOUS
<1>1. TypeOK /\ StatusInv /\ current \in Pipelines
  BY DEF IInv, RefusePipeline, TypeOK
<1>2. PositionInv' /\ OrderInv' /\ CycleInv'
  BY DEF RefusePipeline, PositionInv, OrderInv, CycleInv, InPipeline
<1>3. StatusInv'
  <2>1. \A p \in Pipelines : p > current + 1 => p > current
    BY <1>1, SizesAssumption DEF Pipelines, TypeOK
  <2>2. current + 1 > current
    BY <1>1 DEF TypeOK
  <2>3. \A p \in Pipelines : p < current => p < current + 1
    BY <1>1, SizesAssumption DEF Pipelines, TypeOK
  <2>4. plan' = plan /\ current' = current + 1 /\ phase' = "select"
    BY DEF RefusePipeline, inputs
  <2>5. \A p \in Pipelines : p # current => status'[p] = status[p] /\ result'[p] = result[p]
    BY <1>1 DEF RefusePipeline, TypeOK
  <2>6. result'[current] = "refused"
    BY <1>1 DEF RefusePipeline, TypeOK
  <2>7. \A p \in Pipelines : p > current' => Untouched(p)'
    <3>1. \A p \in Pipelines : p > current + 1 => p # current
      BY <1>1, SizesAssumption DEF Pipelines, TypeOK
    <3> QED
      BY <1>1, <2>1, <2>4, <2>5, <3>1 DEF StatusInv, Untouched
  <2>8. current' \in Pipelines => Untouched(current)'
    <3>1. current + 1 # current
      BY <1>1 DEF TypeOK
    <3> QED
      BY <1>1, <2>2, <2>4, <2>5, <3>1 DEF StatusInv, Untouched
  <2>9. \A p \in Pipelines : result'[p] \notin {"none", "refused"} =>
          p < current' /\ \A t \in TasksOf(plan'[p]) : Consistent(plan'[p], t, status'[p])
    BY <1>1, <2>3, <2>4, <2>5, <2>6 DEF StatusInv
  <2> QED
    BY <2>4, <2>7, <2>8, <2>9 DEF StatusInv
<1> QED
  BY <1>2, <1>3 DEF Rest

LEMMA StartStep == IInv /\ StartPipeline => Rest'
<1> SUFFICES ASSUME IInv, StartPipeline PROVE Rest'
  OBVIOUS
<1>1. plan' = plan /\ selected' = selected /\ allowPartial' = allowPartial
      /\ current' = current /\ phase' = "order" /\ order' = <<>> /\ pending' = TasksOf(Pl)
      /\ cursor' = 1 /\ status' = status /\ result' = result
  BY DEF StartPipeline, inputs
<1>2. Pl' = Pl
  BY <1>1 DEF Pl
<1>3. PositionInv'
  BY <1>1, <1>2 DEF StartPipeline, PositionInv, InPipeline
<1>4. OrderInv'
  BY <1>1, <1>2 DEF OrderInv
<1>5. CycleInv'
  <2>1. \A t \in TasksOf(Pl) : ~(t < 1)
    BY PipelineTyped, SizesAssumption DEF IInv, TypeOK, StartPipeline, Pl, TasksOf
  <2> QED
    BY <1>1, <2>1 DEF CycleInv
<1>6. StatusInv'
  BY <1>1 DEF IInv, StatusInv, StartPipeline, Untouched
<1> QED
  BY <1>3, <1>4, <1>5, <1>6 DEF Rest

\* What the steps of _order leave alone.
LEMMA OrderStepStable ==
  ASSUME IInv, phase = "order", phase' = "order",
         UNCHANGED <<inputs, current, next, status, result, execution>>
  PROVE  PositionInv' /\ StatusInv' /\ Pl' = Pl /\ State' = State
<1>1. Pl' = Pl /\ State' = State
  BY DEF inputs, Pl, State
<1>2. PositionInv'
  BY <1>1 DEF IInv, PositionInv, InPipeline, inputs
<1>3. StatusInv'
  BY DEF IInv, StatusInv, Untouched, inputs
<1> QED
  BY <1>1, <1>2, <1>3

LEMMA PlaceStep == IInv /\ PlaceTask => Rest'
<1> SUFFICES ASSUME IInv, PlaceTask PROVE Rest'
  OBVIOUS
<1>1. PositionInv' /\ StatusInv' /\ Pl' = Pl
  BY OrderStepStable DEF PlaceTask
<1>2. /\ order \in Seq(Positions) /\ cursor \in Positions /\ cursor \in pending
      /\ order' = Append(order, cursor)
      /\ pending' = pending \ {cursor}
      /\ phase' = "order" /\ progressed'
  BY DEF IInv, TypeOK, PlaceTask
<1>3. /\ Len(order') = Len(order) + 1 /\ Len(order) \in Nat
      /\ \A i \in 1 .. Len(order) : order'[i] = order[i]
      /\ order'[Len(order) + 1] = cursor
  BY <1>2
<1>4. \A i \in 1 .. Len(order') : i \in 1 .. Len(order) \/ i = Len(order) + 1
  BY <1>3
<1>5. /\ pending \subseteq TasksOf(Pl)
      /\ \A t \in TasksOf(Pl) : t \in pending \/ \E i \in 1 .. Len(order) : order[i] = t
      /\ \A i \in 1 .. Len(order) : order[i] \in TasksOf(Pl) \ pending
      /\ \A i, j \in 1 .. Len(order) : order[i] = order[j] => i = j
      /\ \A i \in 1 .. Len(order) : \A d \in Pl.deps[order[i]] :
           d.on \in TasksOf(Pl) => \E j \in 1 .. i - 1 : order[j] = d.on
  BY DEF IInv, OrderInv, InPipeline, PlaceTask
<1>6. \A t \in TasksOf(Pl) : t \in pending' \/ \E i \in 1 .. Len(order') : order'[i] = t
  <2> SUFFICES ASSUME NEW t \in TasksOf(Pl), t \notin pending'
               PROVE  \E i \in 1 .. Len(order') : order'[i] = t
    OBVIOUS
  <2>1. CASE t = cursor
    BY <2>1, <1>3
  <2>2. CASE t # cursor
    <3>1. PICK i \in 1 .. Len(order) : order[i] = t
      BY <2>2, <1>2, <1>5
    <3> QED
      BY <3>1, <1>3
  <2> QED
    BY <2>1, <2>2
<1>7. \A i \in 1 .. Len(order') : order'[i] \in TasksOf(Pl) \ pending'
  BY <1>2, <1>3, <1>4, <1>5
<1>8. \A i, j \in 1 .. Len(order') : order'[i] = order'[j] => i = j
  BY <1>2, <1>3, <1>4, <1>5
<1>9. \A i \in 1 .. Len(order') : \A d \in Pl.deps[order'[i]] :
        d.on \in TasksOf(Pl) => \E j \in 1 .. i - 1 : order'[j] = d.on
  <2> SUFFICES ASSUME NEW i \in 1 .. Len(order'), NEW d \in Pl.deps[order'[i]],
                      d.on \in TasksOf(Pl)
               PROVE  \E j \in 1 .. i - 1 : order'[j] = d.on
    OBVIOUS
  <2>1. CASE i \in 1 .. Len(order)
    <3>1. PICK j \in 1 .. i - 1 : order[j] = d.on
      BY <2>1, <1>3, <1>5
    <3>2. j \in 1 .. Len(order)
      BY <2>1, <1>3
    <3> QED
      BY <3>1, <3>2, <1>3
  <2>2. CASE i = Len(order) + 1
    <3>1. d.on \notin pending
      BY <2>2, <1>3 DEF PlaceTask, Placeable
    <3>2. PICK j \in 1 .. Len(order) : order[j] = d.on
      BY <3>1, <1>5
    <3> QED
      BY <3>2, <2>2, <1>3
  <2> QED
    BY <2>1, <2>2, <1>4
<1>10. OrderInv'
  BY <1>1, <1>2, <1>5, <1>6, <1>7, <1>8, <1>9 DEF OrderInv
<1>11. CycleInv'
  BY <1>2 DEF CycleInv
<1> QED
  BY <1>1, <1>10, <1>11 DEF Rest

LEMMA PassOverStep == IInv /\ PassOver => Rest'
<1> SUFFICES ASSUME IInv, PassOver PROVE Rest'
  OBVIOUS
<1>1. PositionInv' /\ StatusInv' /\ Pl' = Pl
  BY OrderStepStable DEF PassOver
<1>2. OrderInv'
  BY <1>1 DEF IInv, OrderInv, PassOver, InPipeline
<1>3. CycleInv'
  <2>1. pending \subseteq Positions /\ cursor \in Nat /\ \A t \in Positions : t \in Nat
    BY SizesAssumption DEF IInv, TypeOK, Positions
  <2>2. \A t \in pending : t < cursor + 1 => t < cursor \/ t = cursor
    BY <2>1
  <2>3. \A t \in pending : Placeable(t)' <=> Placeable(t)
    BY <1>1 DEF Placeable, PassOver
  <2> QED
    BY <2>2, <2>3 DEF IInv, CycleInv, PassOver
<1> QED
  BY <1>1, <1>2, <1>3 DEF Rest

LEMMA NextPassStep == IInv /\ NextPass => Rest'
<1> SUFFICES ASSUME IInv, NextPass PROVE Rest'
  OBVIOUS
<1>1. PositionInv' /\ StatusInv' /\ Pl' = Pl
  BY OrderStepStable DEF NextPass, EndOfPass
<1>2. OrderInv'
  BY <1>1 DEF IInv, OrderInv, NextPass, EndOfPass, InPipeline
<1>3. CycleInv'
  <2>1. \A t \in pending : ~(t < 1)
    BY SizesAssumption DEF IInv, TypeOK, Positions
  <2> QED
    BY <2>1 DEF CycleInv, NextPass, EndOfPass
<1> QED
  BY <1>1, <1>2, <1>3 DEF Rest

LEMMA CycleStep == IInv /\ CycleFound => Rest'
<1> SUFFICES ASSUME IInv, CycleFound PROVE Rest'
  OBVIOUS
<1>1. Pl' = Pl /\ phase = "order" /\ phase' = "cycle" /\ pending' = pending
  BY DEF CycleFound, EndOfPass, inputs, orderVars, Pl
<1>2. PositionInv' /\ OrderInv'
  BY <1>1 DEF IInv, PositionInv, OrderInv, InPipeline, CycleFound, inputs, orderVars
<1>3. CycleInv'
  <2>1. \A t \in pending : t < cursor
    <3>1. current \in Pipelines /\ pending \subseteq TasksOf(Pl)
      BY DEF IInv, PositionInv, OrderInv, InPipeline, TypeOK, CycleFound, EndOfPass
    <3>2. Pl.size \in Nat
      BY <3>1, PipelineTyped, SizesAssumption DEF IInv, Pl
    <3> QED
      BY <3>1, <3>2 DEF CycleFound, EndOfPass, TasksOf
  <2>2. pending # {} /\ \A t \in pending : ~Placeable(t)
    BY <2>1 DEF IInv, CycleInv, CycleFound, EndOfPass
  <2> QED
    BY <1>1, <2>2 DEF CycleInv, Placeable
<1>4. StatusInv'
  BY DEF IInv, StatusInv, CycleFound, EndOfPass, Untouched, inputs
<1> QED
  BY <1>2, <1>3, <1>4 DEF Rest

LEMMA OrderedStep == IInv /\ Ordered => Rest'
<1> SUFFICES ASSUME IInv, Ordered PROVE Rest'
  OBVIOUS
<1>1. Pl' = Pl /\ State' = State /\ phase = "order" /\ phase' = "execute" /\ next' = 1
      /\ order' = order /\ pending' = {}
  BY DEF Ordered, EndOfPass, inputs, orderVars, Pl, State
<1>2. order \in Seq(Positions) /\ current \in Pipelines
  BY <1>1 DEF IInv, TypeOK, PositionInv, InPipeline
<1>3. PositionInv'
  BY <1>1, <1>2 DEF IInv, PositionInv, InPipeline, Ordered, inputs, orderVars
<1>4. OrderInv' /\ CycleInv'
  BY <1>1 DEF IInv, OrderInv, CycleInv, InPipeline, Ordered, orderVars
<1>5. StatusInv'
  <2>1. Untouched(current)
    BY <1>1, <1>2 DEF IInv, StatusInv
  <2>2. \A i \in 1 .. Len(order) : order[i] \in Positions /\ ~(i < 1)
    BY <1>2
  <2>3. \A i \in 1 .. Len(order) : State[order[i]] = "undecided"
    BY <2>1, <2>2 DEF Untouched, State
  <2>4. \A p \in Pipelines : p > current => Untouched(p)
    BY DEF IInv, StatusInv
  <2>5. \A p \in Pipelines : result[p] \notin {"none", "refused"} =>
          p < current /\ \A t \in TasksOf(plan[p]) : Consistent(plan[p], t, status[p])
    BY DEF IInv, StatusInv
  <2> QED
    BY <1>1, <2>2, <2>3, <2>4, <2>5 DEF StatusInv, Ordered, Untouched, inputs
<1> QED
  BY <1>3, <1>4, <1>5 DEF Rest

-----------------------------------------------------------------------------
(* The loop over the ordered tasks. *)

\* What the invariant says of the task to decide and of those before it.
LEMMA TaskToDecide ==
  ASSUME IInv, phase \in {"execute", "running"}, next \in 1 .. Len(order)
  PROVE  /\ current \in Pipelines /\ current \in selected
         /\ ~IsRefused(Pl, allowPartial)
         /\ order[next] \in TasksOf(Pl) /\ order[next] \in Positions
         /\ State[order[next]] = "undecided"
         /\ \A d \in Pl.deps[order[next]] : d.on \in TasksOf(Pl) =>
              /\ d.on # order[next]
              /\ \E j \in 1 .. Len(order) : j < next /\ order[j] = d.on
              /\ State[d.on] \in Decided
<1>1. TypeOK /\ OrderInv /\ StatusInv /\ PositionInv
  BY DEF IInv
<1>2. current \in Pipelines /\ current \in selected /\ ~IsRefused(Pl, allowPartial)
  BY <1>1 DEF PositionInv, InPipeline, TypeOK
<1>3. order[next] \in TasksOf(Pl) /\ order[next] \in Positions
  <2>1. order[next] \in TasksOf(Pl)
    BY <1>1 DEF OrderInv, InPipeline
  <2>2. TasksOf(Pl) \subseteq Positions
    BY <1>1, <1>2, PipelineTyped DEF Pl
  <2> QED
    BY <2>1, <2>2
<1>4. State[order[next]] = "undecided"
  BY <1>1 DEF StatusInv
<1>5. ASSUME NEW d \in Pl.deps[order[next]], d.on \in TasksOf(Pl)
      PROVE  /\ d.on # order[next]
             /\ \E j \in 1 .. Len(order) : j < next /\ order[j] = d.on
             /\ State[d.on] \in Decided
  <2>1. PICK j \in 1 .. next - 1 : order[j] = d.on
    BY <1>1, <1>5 DEF OrderInv, InPipeline
  <2>2. j \in 1 .. Len(order) /\ j < next /\ j # next
    BY <1>1, <2>1 DEF TypeOK
  <2>3. d.on # order[next]
    BY <1>1, <2>1, <2>2 DEF OrderInv, InPipeline
  <2>4. Consistent(Pl, order[j], State)
    BY <1>1, <2>2 DEF StatusInv
  <2> QED
    BY <2>1, <2>2, <2>3, <2>4, ConsistentDecided
<1> QED
  BY <1>2, <1>3, <1>4, <1>5

\* A task decided consistently keeps the invariant, however it was decided.
LEMMA DecideStep ==
  ASSUME IInv, phase \in {"execute", "running"}, next \in 1 .. Len(order),
         NEW s \in Statuses,
         Consistent(Pl, order[next], [State EXCEPT ![order[next]] = s]),
         status' = [status EXCEPT ![current][order[next]] = s],
         next' = next + 1, phase' = "execute",
         UNCHANGED <<inputs, current, orderVars, result>>
  PROVE  Rest'
<1> DEFINE t == order[next]
<1>1. /\ current \in Pipelines /\ t \in Positions /\ TypeOK
      /\ OrderInv /\ StatusInv /\ PositionInv
  BY TaskToDecide DEF IInv
<1>2. Pl' = Pl /\ plan' = plan /\ current' = current /\ order' = order /\ pending' = pending
      /\ result' = result
  BY DEF inputs, orderVars, Pl
<1>3. State' = [State EXCEPT ![t] = s]
      /\ \A q \in Pipelines : q # current => status'[q] = status[q]
  BY <1>1, <1>2, StatusTyped DEF State
<1>4. State \in [Positions -> Statuses]
  BY <1>1 DEF TypeOK, State
<1>5. order \in Seq(Positions) /\ next \in Nat
  BY <1>1 DEF TypeOK
<1>6. PositionInv'
  BY <1>1, <1>2, <1>5 DEF PositionInv, InPipeline, inputs
<1>7. OrderInv' /\ CycleInv'
  BY <1>1, <1>2 DEF OrderInv, CycleInv, InPipeline
<1>8. StatusInv'
  <2>1. \A i \in 1 .. Len(order) : order[i] = t => i = next
    BY <1>1 DEF OrderInv, InPipeline
  <2>2. ASSUME NEW i \in 1 .. Len(order), i < next
        PROVE  Consistent(Pl, order[i], State')
    <3>1. Consistent(Pl, order[i], State)
      BY <1>1, <2>2 DEF StatusInv
    <3>2. order[i] # t
      BY <2>1, <2>2, <1>5
    <3>3. ASSUME NEW d \in Pl.deps[order[i]], d.on \in TasksOf(Pl)
          PROVE  State'[d.on] = State[d.on]
      <4>1. PICK j \in 1 .. i - 1 : order[j] = d.on
        BY <1>1, <3>3 DEF OrderInv, InPipeline
      <4>2. j \in 1 .. Len(order) /\ j # next
        BY <4>1, <2>2, <1>5
      <4>3. d.on # t /\ d.on \in Positions
        BY <4>1, <4>2, <2>1, <1>5
      <4> QED
        BY <4>3, <1>3, <1>4
    <3>4. State'[order[i]] = State[order[i]]
      BY <3>2, <1>3, <1>4, <1>5
    <3> QED
      BY <3>1, <3>3, <3>4, ConsistentReads
  <2>3. ASSUME NEW i \in 1 .. Len(order), i = next
        PROVE  Consistent(Pl, order[i], State')
    BY <2>3, <1>3
  <2>4. ASSUME NEW i \in 1 .. Len(order), ~(i < next + 1)
        PROVE  State'[order[i]] = "undecided"
    <3>1. i # next /\ ~(i < next)
      BY <2>4, <1>5
    <3>2. State[order[i]] = "undecided"
      BY <3>1, <1>1 DEF StatusInv
    <3>3. order[i] # t /\ order[i] \in Positions
      BY <3>1, <2>1, <1>5
    <3> QED
      BY <3>2, <3>3, <1>3, <1>4
  <2>5. \A i \in 1 .. Len(order) :
          IF i < next + 1 THEN Consistent(Pl, order[i], State')
                          ELSE State'[order[i]] = "undecided"
    <3>1. \A i \in 1 .. Len(order) : i < next + 1 => i < next \/ i = next
      BY <1>5
    <3> QED
      BY <3>1, <2>2, <2>3, <2>4
  <2>6. \A p \in Pipelines : p > current => Untouched(p)'
    <3>1. \A p \in Pipelines : p > current => p # current
      BY <1>1 DEF Pipelines
    <3> QED
      BY <3>1, <1>1, <1>3 DEF StatusInv, Untouched
  <2>7. \A p \in Pipelines : result[p] \notin {"none", "refused"} =>
          p < current /\ \A u \in TasksOf(plan[p]) : Consistent(plan[p], u, status'[p])
    <3>1. \A p \in Pipelines : p < current => p # current
      BY <1>1 DEF Pipelines
    <3> QED
      BY <3>1, <1>1, <1>3 DEF StatusInv
  <2> QED
    BY <1>2, <2>5, <2>6, <2>7 DEF StatusInv
<1> QED
  BY <1>6, <1>7, <1>8 DEF Rest

\* The guard of the action was evaluated before the status was recorded; recording
\* it does not change the guard, since no task depends on itself in an order.
LEMMA GuardStable ==
  ASSUME IInv, phase \in {"execute", "running"}, next \in 1 .. Len(order),
         NEW s \in Statuses
  PROVE  LET State2 == [State EXCEPT ![order[next]] = s] IN
           /\ Triggered(Pl, order[next], State2) <=> Triggered(Pl, order[next], State)
           /\ State2[order[next]] = s
<1>1. /\ order[next] \in Positions /\ current \in Pipelines /\ TasksOf(Pl) \subseteq Positions
      /\ State \in [Positions -> Statuses]
  BY TaskToDecide, PipelineTyped DEF IInv, TypeOK, State, Pl
<1>2. \A d \in Pl.deps[order[next]] : d.on \in TasksOf(Pl) => d.on # order[next]
  BY TaskToDecide
<1> QED
  BY <1>1, <1>2 DEF Triggered, Satisfied

LEMMA TaskStep ==
  ASSUME IInv, NEW t \in Positions,
         BlockTask(t) \/ LeaveUntriggered(t) \/ RefuseTask(t) \/ RecordNotification(t)
  PROVE  Rest'
<1>1. At(t)
  BY DEF BlockTask, LeaveUntriggered, RefuseTask, RecordNotification
<1>2. phase = "execute" /\ next \in 1 .. Len(order) /\ order[next] = t
  BY <1>1 DEF At
<1>3. "blocked" \in Statuses /\ "not_triggered" \in Statuses /\ "succeeded" \in Statuses
  BY DEF Statuses, Decided, Outcomes
<1>4. PICK s \in Statuses : Decide(t, s) /\ Consistent(Pl, t, [State EXCEPT ![t] = s])
  <2>1. CASE BlockTask(t)
    <3>1. Consistent(Pl, t, [State EXCEPT ![t] = "blocked"])
      BY <1>2, <1>3, <2>1, GuardStable DEF BlockTask, Consistent
    <3> QED
      BY <3>1, <2>1, <1>3 DEF BlockTask
  <2>2. CASE LeaveUntriggered(t)
    <3>1. Consistent(Pl, t, [State EXCEPT ![t] = "not_triggered"])
      BY <1>2, <1>3, <2>2, GuardStable DEF LeaveUntriggered, Consistent
    <3> QED
      BY <3>1, <2>2, <1>3 DEF LeaveUntriggered
  <2>3. CASE RefuseTask(t)
    <3>1. Consistent(Pl, t, [State EXCEPT ![t] = "blocked"])
      BY <1>2, <1>3, <2>3, GuardStable DEF RefuseTask, Consistent
    <3> QED
      BY <3>1, <2>3, <1>3 DEF RefuseTask
  <2>4. CASE RecordNotification(t)
    <3>1. Consistent(Pl, t, [State EXCEPT ![t] = "succeeded"])
      BY <1>2, <1>3, <2>4, GuardStable DEF RecordNotification, Consistent
    <3> QED
      BY <3>1, <2>4, <1>3 DEF RecordNotification
  <2> QED
    BY <2>1, <2>2, <2>3, <2>4
<1> QED
  BY <1>2, <1>4, DecideStep DEF Decide

LEMMA LaunchStep ==
  ASSUME IInv, NEW t \in Positions, Launch(t) \/ LaunchError(t)
  PROVE  Rest'
<1>1. /\ phase = "execute" /\ phase' \in {"running", "noLauncher"} /\ next \in 1 .. Len(order)
      /\ UNCHANGED <<inputs, current, orderVars, next, status, result>>
  BY DEF Launch, LaunchError, Launchable, At
<1>2. Pl' = Pl /\ State' = State
  BY <1>1 DEF inputs, Pl, State
<1>3. PositionInv'
  BY <1>1, <1>2 DEF IInv, PositionInv, InPipeline, inputs, orderVars
<1>4. OrderInv' /\ CycleInv'
  BY <1>1, <1>2 DEF IInv, OrderInv, CycleInv, InPipeline, orderVars
<1>5. StatusInv'
  BY <1>1, <1>2 DEF IInv, StatusInv, Untouched, inputs, orderVars
<1> QED
  BY <1>3, <1>4, <1>5 DEF Rest

\* The guard of Launch still holds when the job ends: nothing else has moved.
RunningInv ==
  phase = "running" =>
    LET t == order[next] IN
      t \notin Pl.blocked /\ Triggered(Pl, t, State) /\ Pl.command[t] = "job"

LEMMA RunningStep ==
  ASSUME IInv, RunningInv, [Next]_vars
  PROVE  RunningInv'
<1>1. CASE phase' = "running" /\ \E t \in Positions : Launch(t)
  BY <1>1 DEF RunningInv, Launch, Launchable, At, Pl, State, inputs, orderVars
<1>2. CASE UNCHANGED vars
  BY <1>2 DEF RunningInv, vars, inputs, orderVars, Pl, State
<1>3. CASE Next /\ phase' = "running" /\ ~\E t \in Positions : Launch(t)
  BY <1>3 DEF Next, SkipPipeline, RefusePipeline, StartPipeline, PlaceTask, PassOver, NextPass,
     EndOfPass, CycleFound, Ordered, BlockTask, LeaveUntriggered, RefuseTask,
     RecordNotification, LaunchError, Decide, At, Finish, EndPipeline, WriteExecution
<1> QED
  BY <1>1, <1>2, <1>3 DEF RunningInv

LEMMA FinishStep == IInv /\ RunningInv /\ Finish => Rest'
<1> SUFFICES ASSUME IInv, RunningInv, Finish PROVE Rest'
  OBVIOUS
<1>1. PICK outcome \in Outcomes : status' = [status EXCEPT ![current][order[next]] = outcome]
  BY DEF Finish
<1>2. outcome \in Statuses
  BY DEF Statuses, Decided
<1>3. phase = "running" /\ next \in 1 .. Len(order)
  BY DEF IInv, PositionInv, Finish
<1>4. Consistent(Pl, order[next], [State EXCEPT ![order[next]] = outcome])
  BY <1>2, <1>3, GuardStable DEF RunningInv, Consistent
<1> QED
  BY <1>1, <1>2, <1>3, <1>4, DecideStep DEF Finish

LEMMA EndPipelineStep == IInv /\ EndPipeline => Rest'
<1> SUFFICES ASSUME IInv, EndPipeline PROVE Rest'
  OBVIOUS
<1>1. TypeOK /\ PositionInv /\ OrderInv /\ StatusInv /\ current \in Pipelines
  BY DEF IInv, EndPipeline, PositionInv, InPipeline, TypeOK
<1>2. phase = "execute" /\ phase' = "select" /\ plan' = plan /\ status' = status
      /\ current' = current + 1 /\ pending = {}
  BY <1>1 DEF EndPipeline, inputs, PositionInv
<1>3. PositionInv' /\ OrderInv' /\ CycleInv'
  BY <1>2 DEF PositionInv, OrderInv, CycleInv, InPipeline
<1>4. \A t \in TasksOf(Pl) : Consistent(Pl, t, State)
  <2> SUFFICES ASSUME NEW t \in TasksOf(Pl) PROVE Consistent(Pl, t, State)
    OBVIOUS
  <2>1. PICK i \in 1 .. Len(order) : order[i] = t
    BY <1>1, <1>2 DEF OrderInv, InPipeline
  <2>2. i < next
    BY <1>1 DEF EndPipeline, TypeOK
  <2> QED
    BY <2>1, <2>2, <1>1, <1>2 DEF StatusInv
<1>5. \A p \in Pipelines : p # current => result'[p] = result[p]
  BY <1>1 DEF EndPipeline, TypeOK
<1>6. StatusInv'
  <2>1. /\ \A p \in Pipelines : p > current + 1 => p > current
        /\ \A p \in Pipelines : p < current => p < current + 1
        /\ current < current + 1 /\ current + 1 > current
    BY <1>1 DEF Pipelines
  <2>2. \A p \in Pipelines : result'[p] \notin {"none", "refused"} =>
          p < current + 1 /\ \A t \in TasksOf(plan[p]) : Consistent(plan[p], t, status[p])
    BY <1>1, <1>4, <1>5, <2>1 DEF StatusInv, Pl, State
  <2> QED
    BY <1>1, <1>2, <2>1, <2>2 DEF StatusInv, Untouched
<1> QED
  BY <1>3, <1>6 DEF Rest

LEMMA WriteStep == IInv /\ WriteExecution => Rest'
<1> SUFFICES ASSUME IInv, WriteExecution PROVE Rest'
  OBVIOUS
<1>1. phase = "select" /\ phase' = "done" /\ current = NumPipelines + 1
      /\ UNCHANGED <<inputs, current, orderVars, next, status, result>>
  BY DEF WriteExecution
<1>2. PositionInv' /\ OrderInv' /\ CycleInv'
  BY <1>1 DEF PositionInv, OrderInv, CycleInv, InPipeline
<1>3. StatusInv'
  BY <1>1 DEF IInv, StatusInv, Untouched, inputs
<1> QED
  BY <1>2, <1>3 DEF Rest

Inv == IInv /\ RunningInv

LEMMA InvInit == Init => Inv
BY InitIInv DEF Inv, RunningInv, Init

LEMMA InvStep == Inv /\ [Next]_vars => Inv'
<1> SUFFICES ASSUME Inv, [Next]_vars PROVE Inv'
  OBVIOUS
<1>1. TypeOK' /\ RunningInv'
  BY TypeStep, RunningStep DEF Inv
<1>2. CASE UNCHANGED vars
  <2>1. Pl' = Pl /\ State' = State
    BY <1>2 DEF vars, inputs, Pl, State
  <2>2. PositionInv' /\ OrderInv'
    BY <1>2, <2>1 DEF Inv, IInv, vars, inputs, orderVars, PositionInv, OrderInv, InPipeline
  <2>3. CycleInv'
    BY <1>2, <2>1 DEF Inv, IInv, vars, orderVars, CycleInv, Placeable
  <2>4. StatusInv'
    BY <1>2, <2>1 DEF Inv, IInv, vars, inputs, orderVars, StatusInv, Untouched
  <2> QED
    BY <1>1, <2>2, <2>3, <2>4 DEF Inv, IInv
<1>3. CASE Next
  <2>1. Rest'
    BY <1>3, SkipStep, RefuseStep, StartStep, PlaceStep, PassOverStep, NextPassStep, CycleStep,
       OrderedStep, TaskStep, LaunchStep, FinishStep, EndPipelineStep, WriteStep
    DEF Inv, Next
  <2> QED
    BY <1>1, <2>1 DEF Inv, IInv, Rest
<1> QED
  BY <1>2, <1>3

-----------------------------------------------------------------------------
(* What the invariant implies. *)

LEMMA InvLaunches == Inv => LaunchesAreSound
<1> SUFFICES ASSUME Inv, phase = "running" PROVE LaunchesAreSound
  BY DEF LaunchesAreSound
<1>1. IInv /\ next \in 1 .. Len(order)
  BY DEF Inv, IInv, PositionInv
<1>2. /\ current \in selected /\ order[next] \in TasksOf(Pl)
      /\ State[order[next]] = "undecided" /\ ~IsRefused(Pl, allowPartial)
  BY <1>1, TaskToDecide
<1>3. order[next] \notin Pl.blocked /\ Triggered(Pl, order[next], State)
  BY DEF Inv, RunningInv
<1>4. ASSUME NEW d \in Pl.deps[order[next]]
      PROVE  d.on \in {order[i] : i \in 1 .. next - 1} /\ State[d.on] \in AskedFor(d.condition)
  <2>1. Satisfied(Pl, d, State)
    BY <1>3 DEF Triggered
  <2>2. State[d.on] \in AskedFor(d.condition)
    BY <2>1 DEF Satisfied, Outcomes, AskedFor
  <2>3. \E j \in 1 .. next - 1 : order[j] = d.on
    BY <1>1, <2>1 DEF IInv, OrderInv, InPipeline, Satisfied
  <2> QED
    BY <2>2, <2>3
<1> QED
  BY <1>2, <1>3, <1>4 DEF LaunchesAreSound, IsRefused

LEMMA InvStatuses == Inv => StatusesStandUp
<1> SUFFICES ASSUME Inv PROVE StatusesStandUp
  OBVIOUS
<1>1. selected \subseteq Pipelines
  BY DEF Inv, IInv, TypeOK
<1> QED
  BY <1>1 DEF Inv, IInv, StatusInv, StatusesStandUp, Finished

LEMMA InvOrder == Inv => OrderIsLinearExtension
<1> SUFFICES ASSUME Inv, phase \in {"execute", "running"} PROVE OrderIsLinearExtension
  BY DEF OrderIsLinearExtension
<1>1. pending = {} /\ OrderInv /\ InPipeline
  BY DEF Inv, IInv, PositionInv, InPipeline
<1> QED
  BY <1>1 DEF OrderInv, OrderIsLinearExtension

LEMMA InvCycle == Inv => AbortsOnlyOnCycle
BY DEF Inv, IInv, CycleInv, AbortsOnlyOnCycle, Placeable

-----------------------------------------------------------------------------
\* The runner keeps the types of its variables (run_package, every variable).
THEOREM TypeCorrect == Spec => []TypeOK
<1>1. Inv => TypeOK
  BY DEF Inv, IInv
<1> QED
  BY <1>1, InvInit, InvStep, PTL DEF Spec

\* Tasks are taken in an order that respects every dependency, each task once (_order).
THEOREM OrderCorrect == Spec => []OrderIsLinearExtension
BY InvInit, InvStep, InvOrder, PTL DEF Spec

\* No job runs unless its task is unblocked, has not run before and every task it
\* depends on was taken before it and has ended as the condition asks: with a success,
\* with a failure, or with either (the loop of run_package).
THEOREM LaunchSafety == Spec => []LaunchesAreSound
BY InvInit, InvStep, InvLaunches, PTL DEF Spec

\* The statuses of a finished pipeline are those the dependency conditions call for.
THEOREM StatusCorrect == Spec => []StatusesStandUp
BY InvInit, InvStep, InvStatuses, PTL DEF Spec

\* The exception about a cycle is raised only for a plan that has one (_order).
THEOREM CycleCorrect == Spec => []AbortsOnlyOnCycle
BY InvInit, InvStep, InvCycle, PTL DEF Spec

-----------------------------------------------------------------------------
(* The refinement.  Shown is the status function the abstract specification *)
(* sees: the recorded statuses, with the task that is running marked.       *)

Shown == [p \in Pipelines |-> [t \in Positions |->
            IF phase = "running" /\ p = current /\ t = order[next]
              THEN "running" ELSE status[p][t]]]

\* While no job runs, the abstract statuses are the recorded ones.
LEMMA ShownIdle ==
  ASSUME TypeOK, phase # "running"
  PROVE  Shown = status
<1>1. \A p \in Pipelines : Shown[p] = status[p]
  BY DEF TypeOK, Shown
<1> QED
  BY <1>1 DEF TypeOK, Shown

LEMMA ShownIdleNext ==
  ASSUME TypeOK', phase' # "running"
  PROVE  Shown' = status'
<1>1. \A p \in Pipelines : Shown'[p] = status'[p]
  BY DEF TypeOK, Shown
<1> QED
  BY <1>1 DEF TypeOK, Shown

LEMMA ShownRunning ==
  ASSUME TypeOK, phase = "running", current \in Pipelines, order[next] \in Positions
  PROVE  Shown = [status EXCEPT ![current][order[next]] = "running"]
<1> DEFINE marked == [status EXCEPT ![current][order[next]] = "running"]
<1>1. \A p \in Pipelines : Shown[p] = marked[p]
  <2> SUFFICES ASSUME NEW p \in Pipelines PROVE Shown[p] = marked[p]
    OBVIOUS
  <2>1. Shown[p] = [t \in Positions |-> IF p = current /\ t = order[next]
                                          THEN "running" ELSE status[p][t]]
    BY DEF Shown
  <2>2. marked[p] = IF p = current THEN [status[p] EXCEPT ![order[next]] = "running"]
                                   ELSE status[p]
    BY DEF TypeOK
  <2>3. status[p] \in [Positions -> Statuses]
    BY DEF TypeOK
  <2> QED
    BY <2>1, <2>2, <2>3
<1>2. marked = [p \in Pipelines |-> marked[p]]
  BY DEF TypeOK
<1>3. Shown = [p \in Pipelines |-> Shown[p]]
  BY DEF Shown
<1> QED
  BY <1>1, <1>2, <1>3

\* The two instances of WorkflowPlans define the same operators.
LEMMA SameOperators ==
  ASSUME NEW pl, NEW t, NEW s, NEW b
  PROVE  /\ Meaning!TasksOf(pl) = TasksOf(pl)
         /\ Meaning!IsRefused(pl, b) <=> IsRefused(pl, b)
         /\ Meaning!Triggered(pl, t, s) <=> Triggered(pl, t, s)
BY DEF Meaning!TasksOf, TasksOf, Meaning!IsRefused, IsRefused, Meaning!BlockedTasksOf,
   BlockedTasksOf, Meaning!Triggered, Triggered, Meaning!Satisfied, Satisfied,
   Meaning!Outcomes, Outcomes

LEMMA SameSets == /\ Meaning!Decided = Decided /\ Meaning!Outcomes = Outcomes
                  /\ Meaning!Pipelines = Pipelines /\ Meaning!Positions = Positions
BY DEF Meaning!Decided, Decided, Meaning!Outcomes, Outcomes, Meaning!Pipelines, Pipelines,
   Meaning!Positions, Positions

LEMMA RefineInit == Init => Meaning!Init
<1> SUFFICES ASSUME Init PROVE Meaning!Init
  OBVIOUS
<1>1. Shown = [p \in Pipelines |-> [t \in Positions |-> "undecided"]]
  BY ShownIdle, InitIInv DEF Init, IInv
<1>2. plan \in [Pipelines -> PipelineType]
  BY InitIInv DEF IInv, TypeOK
<1> QED
  BY <1>1, <1>2 DEF Init, Meaning!Init, Shown, Meaning!Pipelines, Pipelines,
     Meaning!Positions, Positions

\* A step that shows the same statuses is a stuttering step.
LEMMA Stutter ==
  ASSUME UNCHANGED inputs, Shown' = Shown
  PROVE  UNCHANGED Meaning!vars
BY DEF inputs, Meaning!vars, Shown

LEMMA IdleStutter ==
  ASSUME TypeOK, TypeOK', phase # "running", phase' # "running",
         UNCHANGED inputs, UNCHANGED status
  PROVE  UNCHANGED Meaning!vars
<1>1. Shown = status /\ Shown' = status'
  BY ShownIdle, ShownIdleNext
<1> QED
  BY <1>1, Stutter

\* The task to decide is one the abstract specification may take next.
LEMMA ReadyToDecide ==
  ASSUME Inv, NEW p \in Pipelines, NEW t \in Positions, p = current,
         phase = "execute", next \in 1 .. Len(order), t = order[next]
  PROVE  Meaning!Ready(p, t)
<1>1. /\ current \in Pipelines /\ current \in selected /\ ~IsRefused(Pl, allowPartial)
      /\ t \in TasksOf(Pl) /\ t \in Positions /\ State[t] = "undecided"
      /\ \A d \in Pl.deps[t] : d.on \in TasksOf(Pl) => State[d.on] \in Decided
      /\ TypeOK
  BY TaskToDecide DEF Inv, IInv
<1>2. Shown = status
  BY <1>1, ShownIdle
<1>3. \A q \in Pipelines, u \in Positions : status[q][u] # "running"
  BY <1>1 DEF TypeOK, Statuses, Decided, Outcomes
<1>4. \A u \in TasksOf(Pl) \cap {d.on : d \in Pl.deps[t]} : State[u] \in Decided
  BY <1>1
<1>5. \A q \in Meaning!Pipelines, u \in Meaning!Positions : ~Meaning!Running(q, u)
  BY <1>2, <1>3, SameSets DEF Meaning!Running, Shown
<1>6. Meaning!UpstreamOf(p, t) = TasksOf(Pl) \cap {d.on : d \in Pl.deps[t]}
  BY SameOperators DEF Meaning!UpstreamOf, Pl
<1>7. \A u \in Meaning!UpstreamOf(p, t) : Shown[p][u] \in Meaning!Decided
  BY <1>2, <1>4, <1>6, SameSets DEF State
<1>8. Shown[p][t] = "undecided" /\ t \in Meaning!TasksOf(plan[p])
      /\ ~Meaning!IsRefused(plan[p], allowPartial)
  BY <1>1, <1>2, SameOperators DEF State, Pl
<1> QED
  BY <1>1, <1>5, <1>7, <1>8 DEF Meaning!Ready, Shown

LEMMA RefineRefuse ==
  ASSUME Inv, TypeOK', NEW p \in Pipelines, p = current, RefusePipeline
  PROVE  Meaning!Refuse(p)
<1>1. TypeOK /\ current \in Pipelines /\ current \in selected /\ Untouched(current)
      /\ IsRefused(Pl, allowPartial)
  BY DEF Inv, IInv, TypeOK, StatusInv, RefusePipeline
<1>2. Shown = status /\ Shown' = status'
  <2>1. phase = "select" /\ phase' = "select"
    BY DEF RefusePipeline
  <2> QED
    BY <2>1, <1>1, ShownIdle, ShownIdleNext
<1>3. \A t \in Meaning!Positions : Shown[p][t] = "undecided"
  BY <1>1, <1>2, SameSets DEF Untouched
<1>4. Shown' = [Shown EXCEPT ![p] =
        [t \in Meaning!Positions |->
          IF t \notin Meaning!TasksOf(plan[p]) THEN "undecided"
          ELSE IF t \in plan[p].blocked THEN "blocked" ELSE "not_run"]]
  BY <1>2 DEF RefusePipeline, Pl, TasksOf, Meaning!TasksOf, Positions, Meaning!Positions
<1>5. p \in selected /\ Meaning!IsRefused(plan[p], allowPartial) /\ UNCHANGED inputs
  BY <1>1, SameOperators DEF RefusePipeline, Pl
<1> QED
  BY <1>3, <1>4, <1>5 DEF Meaning!Refuse, inputs, Shown

LEMMA RefineDecide ==
  ASSUME Inv, TypeOK', NEW p \in Pipelines, p = current, NEW t \in Positions, NEW s,
         At(t), Decide(t, s)
  PROVE  Meaning!Set(p, t, s)
<1>1. TypeOK /\ phase = "execute" /\ phase' = "execute"
  BY DEF Inv, IInv, At, Decide
<1>2. Shown = status /\ Shown' = status'
  BY <1>1, ShownIdle, ShownIdleNext
<1>3. Shown' = [Shown EXCEPT ![p][t] = s] /\ UNCHANGED inputs
  BY <1>2 DEF Decide
<1> QED
  BY <1>3 DEF Meaning!Set, inputs, Shown

LEMMA RefineTask ==
  ASSUME Inv, TypeOK', NEW p \in Pipelines, p = current, NEW t \in Positions,
         BlockTask(t) \/ LeaveUntriggered(t) \/ RefuseTask(t) \/ RecordNotification(t)
  PROVE  Meaning!Next
<1>1. At(t) /\ phase = "execute" /\ next \in 1 .. Len(order) /\ order[next] = t
  BY DEF BlockTask, LeaveUntriggered, RefuseTask, RecordNotification, At
<1>2. Meaning!Ready(p, t)
  BY <1>1, ReadyToDecide
<1>3. Shown = status
  BY <1>1, ShownIdle DEF Inv, IInv
<1>4. Meaning!Triggered(plan[p], t, Shown[p]) <=> Triggered(Pl, t, State)
  BY <1>3, SameOperators DEF Pl, State
<1>5. CASE BlockTask(t)
  <2>1. Meaning!Set(p, t, "blocked") /\ t \in plan[p].blocked
    BY <1>1, <1>5, RefineDecide DEF BlockTask, Pl
  <2>2. Meaning!NotRun(p, t)
    BY <2>1, <1>2 DEF Meaning!NotRun
  <2> QED
    BY <2>2, <1>2, SameSets DEF Meaning!Next
<1>6. CASE LeaveUntriggered(t)
  <2>1. /\ Meaning!Set(p, t, "not_triggered") /\ t \notin plan[p].blocked
        /\ ~Meaning!Triggered(plan[p], t, Shown[p])
    BY <1>1, <1>4, <1>6, RefineDecide DEF LeaveUntriggered, Pl
  <2>2. Meaning!NotRun(p, t)
    BY <2>1, <1>2 DEF Meaning!NotRun, Shown
  <2> QED
    BY <2>2, <1>2, SameSets DEF Meaning!Next
<1>7. CASE RefuseTask(t)
  <2>1. /\ Meaning!Set(p, t, "blocked") /\ t \notin plan[p].blocked
        /\ Meaning!Triggered(plan[p], t, Shown[p])
        /\ plan[p].command[t] = "none"
    BY <1>1, <1>4, <1>7, RefineDecide DEF RefuseTask, Pl
  <2>2. Meaning!NotRun(p, t)
    BY <2>1, <1>2 DEF Meaning!NotRun, Shown
  <2> QED
    BY <2>2, <1>2, SameSets DEF Meaning!Next
<1>8. CASE RecordNotification(t)
  <2>1. /\ Meaning!Set(p, t, "succeeded") /\ t \notin plan[p].blocked
        /\ Meaning!Triggered(plan[p], t, Shown[p])
        /\ plan[p].command[t] = "notify"
    BY <1>1, <1>4, <1>8, RefineDecide DEF RecordNotification, Pl
  <2>2. Meaning!Run(p, t)
    BY <2>1, <1>2 DEF Meaning!Run, Shown
  <2> QED
    BY <2>2, <1>2, SameSets DEF Meaning!Next
<1> QED
  BY <1>5, <1>6, <1>7, <1>8

LEMMA RefineLaunch ==
  ASSUME Inv, TypeOK', NEW p \in Pipelines, p = current, NEW t \in Positions, Launch(t)
  PROVE  Meaning!Next
<1>1. /\ phase = "execute" /\ phase' = "running" /\ next \in 1 .. Len(order) /\ order[next] = t
      /\ UNCHANGED <<inputs, current, orderVars, next, status>>
  BY DEF Launch, Launchable, At
<1>2. Meaning!Ready(p, t)
  BY <1>1, ReadyToDecide
<1>3. Shown = status /\ TypeOK
  BY <1>1, ShownIdle DEF Inv, IInv
<1>4. Shown' = [Shown EXCEPT ![p][t] = "running"]
  <2>1. current' = current /\ order' = order /\ next' = next /\ status' = status
    BY <1>1 DEF orderVars
  <2>2. Pipelines' = Pipelines /\ Positions' = Positions
    BY DEF Pipelines, Positions
  <2>3. Shown' = [q \in Pipelines |-> [u \in Positions |->
                    IF q = current /\ u = order[next] THEN "running" ELSE status[q][u]]]
    BY <1>1, <2>1 DEF Shown
  <2>4. [q \in Pipelines |-> [u \in Positions |->
           IF q = current /\ u = order[next] THEN "running" ELSE status[q][u]]]
        = [status EXCEPT ![p][t] = "running"]
    <3> DEFINE marked == [status EXCEPT ![p][t] = "running"]
    <3> DEFINE built  == [q \in Pipelines |-> [u \in Positions |->
                  IF q = current /\ u = order[next] THEN "running" ELSE status[q][u]]]
    <3>1. \A q \in Pipelines : built[q] = marked[q]
      BY <1>1, <1>2, <1>3 DEF TypeOK
    <3> QED
      BY <3>1, <1>3 DEF TypeOK
  <2> QED
    BY <2>3, <2>4, <1>3
<1>5. /\ t \notin plan[p].blocked
      /\ Meaning!Triggered(plan[p], t, Shown[p])
      /\ plan[p].command[t] = "job"
  BY <1>3, SameOperators DEF Launch, Launchable, Pl, State
<1>6. Meaning!Set(p, t, "running")
  BY <1>1, <1>4 DEF Meaning!Set, inputs, Shown
<1>7. Meaning!Run(p, t)
  BY <1>2, <1>5, <1>6 DEF Meaning!Run, Shown
<1> QED
  BY <1>7, <1>2, SameSets DEF Meaning!Next

LEMMA RefineFinish ==
  ASSUME Inv, TypeOK', NEW p \in Pipelines, p = current, NEW t \in Positions,
         t = order[next], Finish
  PROVE  Meaning!Next
<1>1. phase = "running" /\ phase' = "execute" /\ next \in 1 .. Len(order) /\ UNCHANGED inputs
  BY DEF Finish, Inv, IInv, PositionInv
<1>2. current \in Pipelines /\ t \in Positions /\ TypeOK
  BY <1>1, TaskToDecide DEF Inv, IInv
<1>3. Shown = [status EXCEPT ![p][t] = "running"] /\ Shown' = status'
  BY <1>1, <1>2, ShownRunning, ShownIdleNext
<1>4. PICK outcome \in Outcomes : status' = [status EXCEPT ![p][t] = outcome]
  BY DEF Finish
<1>5. Shown' = [Shown EXCEPT ![p][t] = outcome]
  <2>1. status \in [Pipelines -> [Positions -> Statuses]]
    BY <1>2 DEF TypeOK
  <2> QED
    BY <2>1, <1>2, <1>3, <1>4
<1>6. Shown[p][t] = "running"
  <2>1. status \in [Pipelines -> [Positions -> Statuses]]
    BY <1>2 DEF TypeOK
  <2> QED
    BY <2>1, <1>2, <1>3
<1>7. Meaning!Set(p, t, outcome)
  BY <1>1, <1>5 DEF Meaning!Set, inputs, Shown
<1>8. Meaning!Finish(p, t)
  BY <1>6, <1>7, SameSets DEF Meaning!Finish, Meaning!Running, Shown
<1> QED
  BY <1>8, <1>2, SameSets DEF Meaning!Next

LEMMA RefineStep == Inv /\ Inv' /\ [Next]_vars => [Meaning!Next]_(Meaning!vars)
<1> SUFFICES ASSUME Inv, Inv', [Next]_vars PROVE [Meaning!Next]_(Meaning!vars)
  OBVIOUS
<1>1. TypeOK /\ TypeOK'
  BY DEF Inv, IInv
<1>2. CASE RefusePipeline
  <2>1. PICK p \in Pipelines : p = current
    BY <1>1, <1>2 DEF RefusePipeline, TypeOK
  <2>2. Meaning!Refuse(p)
    BY <2>1, <1>1, <1>2, RefineRefuse
  <2> QED
    BY <2>2, SameSets DEF Meaning!Next
<1>3. CASE SkipPipeline \/ StartPipeline \/ PlaceTask \/ PassOver \/ NextPass \/ CycleFound
           \/ Ordered \/ EndPipeline \/ WriteExecution \/ \E t \in Positions : LaunchError(t)
  <2>1. phase # "running" /\ phase' # "running" /\ UNCHANGED inputs /\ UNCHANGED status
    BY <1>3 DEF SkipPipeline, StartPipeline, PlaceTask, PassOver, NextPass, EndOfPass,
       CycleFound, Ordered, EndPipeline, WriteExecution, LaunchError, Launchable, At
  <2> QED
    BY <2>1, <1>1, IdleStutter
<1>4. CASE \E t \in Positions : BlockTask(t) \/ LeaveUntriggered(t) \/ RefuseTask(t)
                                  \/ RecordNotification(t)
  <2>1. current \in Pipelines
    BY <1>4, TaskToDecide DEF BlockTask, LeaveUntriggered, RefuseTask, RecordNotification, At, Inv
  <2> QED
    BY <2>1, <1>1, <1>4, RefineTask
<1>5. CASE \E t \in Positions : Launch(t)
  <2>1. current \in Pipelines
    BY <1>5, TaskToDecide DEF Launch, Launchable, At, Inv
  <2> QED
    BY <2>1, <1>1, <1>5, RefineLaunch
<1>6. CASE Finish
  <2>1. phase = "running" /\ next \in 1 .. Len(order)
    BY <1>6 DEF Finish, Inv, IInv, PositionInv
  <2>2. current \in Pipelines /\ order[next] \in Positions
    BY <2>1, TaskToDecide DEF Inv
  <2> QED
    BY <2>2, <1>1, <1>6, RefineFinish
<1>7. CASE UNCHANGED vars
  <2>1. Shown' = Shown /\ UNCHANGED inputs
    BY <1>7 DEF vars, orderVars, Shown
  <2> QED
    BY <2>1, Stutter
<1> QED
  BY <1>2, <1>3, <1>4, <1>5, <1>6, <1>7 DEF Next

\* The runner implements the meaning of a workflow: its order, its passes and its
\* cursors are invisible, and what it does to the statuses is what
\* WorkflowSemantics allows (the loop of run_package).
THEOREM Refinement == Spec => ImplementsMeaning
<1>1. Init => Meaning!Init
  BY RefineInit
<1>2. Inv /\ Inv' /\ [Next]_vars => [Meaning!Next]_(Meaning!vars)
  BY RefineStep
<1>3. Spec => []Inv
  BY InvInit, InvStep, PTL DEF Spec
<1> QED
  BY <1>1, <1>2, <1>3, PTL DEF Spec, ImplementsMeaning, Meaning!Spec

-----------------------------------------------------------------------------
(* The verdict. *)

\* What the result of a pipeline the loop has passed says of the statuses of its tasks.
Judged(p) ==
  IF IsRefused(plan[p], allowPartial)
  THEN result[p] = "refused" /\ \E t \in TasksOf(plan[p]) : status[p][t] = "blocked"
  ELSE result[p] = PipelineStatus({status[p][t] : t \in TasksOf(plan[p])})

ResultInv ==
  /\ \A p \in selected : p < current => Judged(p)
  /\ phase = "done" => execution = Overall({result[p] : p \in selected})

LEMMA ResultInit == Init => ResultInv
<1>1. ASSUME Init PROVE \A p \in selected : ~(p < current)
  BY <1>1, SizesAssumption DEF Init, Pipelines
<1> QED
  BY <1>1 DEF Init, ResultInv

\* A pipeline that is judged stays so while its tasks and its result stay.
LEMMA JudgedKept ==
  ASSUME NEW p, Judged(p), plan' = plan, allowPartial' = allowPartial,
         status'[p] = status[p], result'[p] = result[p]
  PROVE  Judged(p)'
BY DEF Judged

\* A step that changes neither the position of the loop nor a result can only change tasks of
\* the pipeline the loop is at, which is not judged yet.
LEMMA SamePipeline ==
  ASSUME IInv, ResultInv, UNCHANGED inputs, current' = current, result' = result,
         \A p \in Pipelines : p # current => status'[p] = status[p], phase' # "done"
  PROVE  ResultInv'
<1>1. \A p \in selected : p \in Pipelines /\ (p < current => p # current)
  BY SizesAssumption DEF IInv, TypeOK, Pipelines
<1>2. ASSUME NEW p \in selected, p < current PROVE Judged(p)'
  BY <1>1, <1>2, JudgedKept DEF ResultInv, inputs
<1> QED
  BY <1>2 DEF ResultInv, inputs

\* A step of the loop over the pipelines.
LEMMA NextPipeline ==
  ASSUME IInv, ResultInv, UNCHANGED inputs, NEW c \in Pipelines, c = current, current' = c + 1,
         \A p \in Pipelines : p # c => status'[p] = status[p] /\ result'[p] = result[p],
         c \in selected => Judged(c)', phase' # "done"
  PROVE  ResultInv'
<1>1. \A p \in selected : p \in Pipelines /\ (p < c + 1 => p < c \/ p = c)
  <2>1. selected \subseteq Pipelines
    BY DEF IInv, TypeOK
  <2>2. \A p \in Pipelines : p < c + 1 => p < c \/ p = c
    BY SizesAssumption DEF Pipelines
  <2> QED
    BY <2>1, <2>2
<1>2. ASSUME NEW p \in selected, p < c PROVE Judged(p)'
  <2>1. p # c
    BY <1>1, <1>2, SizesAssumption DEF IInv, TypeOK, Pipelines
  <2> QED
    BY <1>1, <1>2, <2>1, JudgedKept DEF ResultInv, inputs
<1>3. selected' = selected
  BY DEF inputs
<1>4. \A p \in selected : p < c + 1 => Judged(p)'
  BY <1>1, <1>2
<1> QED
  BY <1>3, <1>4 DEF ResultInv

LEMMA ResultStep == Inv /\ ResultInv /\ [Next]_vars => ResultInv'
<1> SUFFICES ASSUME Inv, ResultInv, [Next]_vars PROVE ResultInv'
  OBVIOUS
<1>1. IInv /\ TypeOK
  BY DEF Inv, IInv
<1>2. CASE SkipPipeline
  <2>1. PICK c \in Pipelines : c = current
    BY <1>2 DEF SkipPipeline
  <2>2. /\ UNCHANGED inputs /\ c \notin selected /\ current' = c + 1
        /\ status' = status /\ result' = result /\ phase' # "done"
    BY <1>2, <2>1 DEF SkipPipeline
  <2> QED
    BY <1>1, <2>1, <2>2, NextPipeline
<1>3. CASE RefusePipeline
  <2>1. PICK c \in Pipelines : c = current
    BY <1>1, <1>3 DEF RefusePipeline, TypeOK
  <2>2. /\ IsRefused(plan[c], allowPartial) /\ UNCHANGED inputs
        /\ current' = c + 1 /\ phase' # "done"
    BY <1>3, <2>1 DEF RefusePipeline, Pl
  <2>3. PICK t \in TasksOf(plan[c]) : t \in plan[c].blocked
    BY <2>2 DEF IsRefused, BlockedTasksOf
  <2>4. t \in Positions
    BY <1>1, <2>3, PipelineTyped
  <2>5. result'[c] = "refused" /\ status'[c][t] = "blocked"
    BY <1>1, <1>3, <2>1, <2>3, <2>4 DEF RefusePipeline, TypeOK, Pl
  <2>6. Judged(c)'
    BY <2>2, <2>3, <2>5 DEF Judged, inputs
  <2>7. \A p \in Pipelines : p # c => status'[p] = status[p] /\ result'[p] = result[p]
    BY <1>1, <1>3, <2>1 DEF RefusePipeline, TypeOK
  <2> QED
    BY <1>1, <2>1, <2>2, <2>6, <2>7, NextPipeline
<1>4. CASE EndPipeline
  <2>1. current \in selected /\ ~IsRefused(Pl, allowPartial)
    BY <1>1, <1>4 DEF EndPipeline, IInv, PositionInv, InPipeline
  <2>2. PICK c \in Pipelines : c = current
    BY <1>1, <2>1 DEF TypeOK
  <2>3. /\ ~IsRefused(plan[c], allowPartial) /\ UNCHANGED inputs /\ status' = status
        /\ current' = c + 1 /\ phase' # "done"
        /\ result' = [result EXCEPT ![c] = PipelineStatus({status[c][t] : t \in TasksOf(plan[c])})]
    BY <1>4, <2>1, <2>2 DEF EndPipeline, Pl, State
  <2>4. result'[c] = PipelineStatus({status[c][t] : t \in TasksOf(plan[c])})
    BY <1>1, <2>3 DEF TypeOK
  <2>5. Judged(c)'
    BY <2>3, <2>4 DEF Judged, inputs
  <2>6. \A p \in Pipelines : p # c => status'[p] = status[p] /\ result'[p] = result[p]
    BY <1>1, <2>3 DEF TypeOK
  <2> QED
    BY <1>1, <2>2, <2>3, <2>5, <2>6, NextPipeline
<1>5. CASE StartPipeline \/ PlaceTask \/ PassOver \/ NextPass \/ CycleFound \/ Ordered
           \/ \E t \in Positions : Launch(t) \/ LaunchError(t)
  <2>1. /\ UNCHANGED inputs /\ current' = current /\ result' = result /\ status' = status
        /\ phase' # "done"
    BY <1>5 DEF StartPipeline, PlaceTask, PassOver, NextPass, EndOfPass, CycleFound, Ordered,
       Launch, LaunchError
  <2> QED
    BY <1>1, <2>1, SamePipeline
<1>6. CASE \E t \in Positions : BlockTask(t) \/ LeaveUntriggered(t) \/ RefuseTask(t)
                                  \/ RecordNotification(t)
  <2>1. /\ UNCHANGED inputs /\ current' = current /\ result' = result /\ phase' = phase
        /\ phase = "execute"
        /\ \E t \in Positions, s \in Statuses : status' = [status EXCEPT ![current][t] = s]
    BY <1>6 DEF BlockTask, LeaveUntriggered, RefuseTask, RecordNotification, At, Decide,
       Statuses, Decided, Outcomes
  <2>2. \A p \in Pipelines : p # current => status'[p] = status[p]
    BY <1>1, <2>1 DEF TypeOK
  <2> QED
    BY <1>1, <2>1, <2>2, SamePipeline
<1>7. CASE Finish
  <2>1. /\ UNCHANGED inputs /\ current' = current /\ result' = result /\ phase' # "done"
        /\ \E s \in Outcomes : status' = [status EXCEPT ![current][order[next]] = s]
    BY <1>7 DEF Finish
  <2>2. \A p \in Pipelines : p # current => status'[p] = status[p]
    BY <1>1, <2>1 DEF TypeOK
  <2> QED
    BY <1>1, <2>1, <2>2, SamePipeline
<1>8. CASE WriteExecution
  BY <1>8 DEF WriteExecution, ResultInv, Judged, inputs
<1>9. CASE UNCHANGED vars
  BY <1>9 DEF vars, inputs, ResultInv, Judged
<1> QED
  BY <1>2, <1>3, <1>4, <1>5, <1>6, <1>7, <1>8, <1>9 DEF Next

\* What the result of a pipeline means for its tasks.
LEMMA ResultMeans ==
  ASSUME TypeOK, NEW p \in Pipelines, Judged(p)
  PROVE  /\ result[p] = "succeeded" <=>
              plan[p].size > 0 /\ \A t \in TasksOf(plan[p]) : status[p][t] = "succeeded"
         /\ (\E t \in TasksOf(plan[p]) : status[p][t] = "failed")
              \/ (\A t \in TasksOf(plan[p]) : status[p][t] # "succeeded")
              => result[p] \notin {"succeeded", "partial"}
<1> DEFINE states == {status[p][t] : t \in TasksOf(plan[p])}
<1>1. plan[p].size > 0 <=> TasksOf(plan[p]) # {}
  BY PipelineTyped, SizesAssumption DEF TasksOf
<1>2. CASE IsRefused(plan[p], allowPartial)
  BY <1>1, <1>2 DEF Judged
<1>3. CASE ~IsRefused(plan[p], allowPartial)
  <2>1. result[p] = PipelineStatus(states)
    BY <1>3 DEF Judged
  <2>2. states = {"succeeded"} <=>
          TasksOf(plan[p]) # {} /\ \A t \in TasksOf(plan[p]) : status[p][t] = "succeeded"
    OBVIOUS
  <2>3. "failed" \in states <=> \E t \in TasksOf(plan[p]) : status[p][t] = "failed"
    OBVIOUS
  <2>4. "succeeded" \in states <=> \E t \in TasksOf(plan[p]) : status[p][t] = "succeeded"
    OBVIOUS
  <2> HIDE DEF states
  <2>5. result[p] = "succeeded" <=> "failed" \notin states /\ states = {"succeeded"}
    BY <2>1 DEF PipelineStatus
  <2>6. "failed" \in states \/ "succeeded" \notin states => result[p] \notin {"succeeded", "partial"}
    BY <2>1 DEF PipelineStatus
  <2> QED
    BY <1>1, <2>2, <2>3, <2>4, <2>5, <2>6
<1> QED
  BY <1>2, <1>3

LEMMA InvVerdict == Inv /\ ResultInv => VerdictIsHonest
<1> SUFFICES ASSUME Inv, ResultInv, phase = "done" PROVE VerdictIsHonest
  BY DEF VerdictIsHonest
<1> DEFINE results == {result[p] : p \in selected}
<1>1. TypeOK /\ current = NumPipelines + 1 /\ selected \subseteq Pipelines
  BY DEF Inv, IInv, PositionInv, TypeOK
<1>2. \A p \in selected : p \in Pipelines /\ Judged(p)
  BY <1>1, SizesAssumption DEF ResultInv, Pipelines
<1>3. execution = Overall(results)
  BY DEF ResultInv
<1>4. execution = "succeeded" <=> selected # {} /\ \A p \in selected : result[p] = "succeeded"
  <2>1. results = {"succeeded"} <=> selected # {} /\ \A p \in selected : result[p] = "succeeded"
    OBVIOUS
  <2> HIDE DEF results
  <2> QED
    BY <1>3, <2>1 DEF Overall
<1>5. ASSUME NEW p \in selected, result[p] \notin {"succeeded", "partial"}
      PROVE  execution = "failed"
  <2>1. result[p] \in results
    OBVIOUS
  <2> HIDE DEF results
  <2> QED
    BY <1>3, <1>5, <2>1 DEF Overall
<1> QED
  BY <1>1, <1>2, <1>4, <1>5, ResultMeans DEF VerdictIsHonest

\* What execution.json says of the run is what happened (_overall and the status of a pipeline).
THEOREM VerdictCorrect == Spec => []VerdictIsHonest
<1>1. Spec => []Inv
  BY InvInit, InvStep, PTL DEF Spec
<1>2. Inv /\ ResultInv /\ [Next]_vars => ResultInv'
  BY ResultStep
<1> QED
  BY <1>1, <1>2, ResultInit, InvVerdict, PTL DEF Spec

-----------------------------------------------------------------------------
(* A decision is final. *)

LEMMA ShownTyped ==
  ASSUME TypeOK
  PROVE  Shown \in [Pipelines -> [Positions -> Statuses \cup {"running"}]]
BY DEF TypeOK, Shown

\* A step of the meaning sets a task that was not decided.
LEMMA SetsUndecided ==
  ASSUME TypeOK, NEW p \in Pipelines, NEW t \in Positions, NEW s,
         Shown[p][t] \notin Decided, Meaning!Set(p, t, s),
         NEW q \in Pipelines, NEW u \in Positions, Shown[q][u] \in Decided
  PROVE  Shown'[q][u] = Shown[q][u]
<1>1. Shown' = [Shown EXCEPT ![p][t] = s]
  BY DEF Meaning!Set, Shown
<1>2. q # p \/ u # t
  OBVIOUS
<1> QED
  BY <1>1, <1>2, ShownTyped

LEMMA FinalStep ==
  ASSUME TypeOK, [Meaning!Next]_(Meaning!vars),
         NEW q \in Pipelines, NEW u \in Positions, Shown[q][u] \in Decided
  PROVE  Shown'[q][u] = Shown[q][u]
<1>1. CASE UNCHANGED Meaning!vars
  BY <1>1 DEF Meaning!vars, Shown
<1>2. ASSUME NEW p \in Pipelines, Meaning!Refuse(p) PROVE Shown'[q][u] = Shown[q][u]
  <2>1. /\ Shown[p][u] = "undecided"
        /\ Shown' = [Shown EXCEPT ![p] =
             [t \in Positions |-> IF t \notin Meaning!TasksOf(plan[p]) THEN "undecided"
                                  ELSE IF t \in plan[p].blocked THEN "blocked" ELSE "not_run"]]
    BY <1>2, SameSets DEF Meaning!Refuse, Shown
  <2>2. q # p
    BY <2>1 DEF Decided, Outcomes
  <2> QED
    BY <2>1, <2>2, ShownTyped
<1>3. ASSUME NEW p \in Pipelines, NEW t \in Positions, Meaning!NotRun(p, t) \/ Meaning!Run(p, t)
      PROVE  Shown'[q][u] = Shown[q][u]
  <2>1. Shown[p][t] = "undecided"
    BY <1>3 DEF Meaning!NotRun, Meaning!Run, Meaning!Ready, Shown
  <2>2. \E s \in Statuses \cup {"running"} : Meaning!Set(p, t, s)
    BY <1>3 DEF Meaning!NotRun, Meaning!Run, Statuses, Decided, Outcomes
  <2> QED
    BY <2>1, <2>2, SetsUndecided DEF Decided, Outcomes
<1>4. ASSUME NEW p \in Pipelines, NEW t \in Positions, Meaning!Finish(p, t)
      PROVE  Shown'[q][u] = Shown[q][u]
  <2>1. Shown[p][t] = "running" /\ \E s \in Meaning!Outcomes : Meaning!Set(p, t, s)
    BY <1>4 DEF Meaning!Finish, Meaning!Running, Shown
  <2> QED
    BY <2>1, SetsUndecided DEF Decided, Outcomes
<1> QED
  BY <1>1, <1>2, <1>3, <1>4, SameSets DEF Meaning!Next

\* What is decided stays so, in every step of a run.
LEMMA DecisionsKept ==
  ASSUME Inv, Inv', [Next]_vars
  PROVE  Meaning!DecisionsStand
<1>1. TypeOK /\ [Meaning!Next]_(Meaning!vars)
  BY RefineStep DEF Inv, IInv
<1>2. \A p \in Pipelines, t \in Positions : Shown[p][t] \in Decided => Shown'[p][t] = Shown[p][t]
  BY <1>1, FinalStep
<1> QED
  BY <1>2, SameSets DEF Meaning!DecisionsStand, Shown
=============================================================================
