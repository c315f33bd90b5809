----------------------------- MODULE Window_proofs -----------------------------
(***************************************************************************)
(* Proofs about the panes, the tabs and the statements of a window, for    *)
(* any sessions, tabs to begin with, gestures and bounds.  What a pane has *)
(* to be is said of one pane at a time (`Good'); the invariant adds to the *)
(* properties of Window that every statement in flight or held is of the   *)
(* session it is on, and that what waits in a queue is newer than all its  *)
(* pane has sent.                                                          *)
(***************************************************************************)
EXTENDS Window, TLAPS, FiniteSetTheorems, SequenceTheorems

Statements == [batch : Nat, pos : Nat, pane : Nat, tab : Nat, on : Sessions,
               answer : Answers \cup {"none"}]
Outcomes(n) == [stmt : 0..n, answer : Answers \cup {"none"}]
Tabs(n) == [id : Nat, kind : Kinds, session : Sessions, cached : 0..n]
PaneSet(n) == [tabs : Seq(Tabs(n)), active_tab : Nat, queue : Seq(Planning),
               results : Seq(1..n), grid : 0..n]
Slots(n) == [stmt : 0..n, superseding : 0..n]

Before(a, b) == a.batch < b.batch \/ (a.batch = b.batch /\ a.pos < b.pos)

\* A pane's rows are of the session of the query tab in front.
Drawn(pane, all) ==
    pane.grid # 0 =>
        /\ HasTab(pane)
        /\ Active(pane).kind = "Query" => all[pane.grid].on = Active(pane).session

\* What waits is the pane's own, in order, and newer than what it has sent.
Waits(p, pane, all, b) ==
    /\ \A k \in DOMAIN pane.queue : pane.queue[k].pane = p /\ pane.queue[k].batch <= b
    /\ \A k, l \in DOMAIN pane.queue : k < l => Before(pane.queue[k], pane.queue[l])
    /\ \A i \in DOMAIN all : all[i].pane = p =>
           \A k \in DOMAIN pane.queue : Before(all[i], pane.queue[k])

Whole(pane, all) ==
    /\ pane \in PaneSet(Len(all)) /\ (pane.tabs # <<>> => HasTab(pane))
    /\ Drawn(pane, all)

Good(p, pane, all, b) == Whole(pane, all) /\ Waits(p, pane, all, b)

\* The statements sent, their history, and what each session has of them.
Told(all, told) ==
    /\ all \in Seq(Statements) /\ told \in Seq(Outcomes(Len(all))) /\ Len(told) = Len(all)
Theirs(slots, all) ==
    /\ slots \in [Sessions -> Slots(Len(all))]
    /\ \A s \in Sessions : /\ slots[s].stmt # 0 => all[slots[s].stmt].on = s
                           /\ slots[s].superseding # 0 => all[slots[s].superseding].on = s
InOrder(all, b) ==
    /\ b \in Nat
    /\ \A i \in DOMAIN all : all[i].batch <= b
    /\ \A i, j \in DOMAIN all : i < j /\ all[i].pane = all[j].pane => Before(all[i], all[j])

Dealt ==
    /\ Told(sent, outcome) /\ Theirs(slot, sent) /\ InOrder(sent, batch)
    /\ pending_history \in 0..Len(sent)

Laid ==
    /\ layout \in Seq(Nat) /\ IsInjective(layout) /\ DOMAIN panes = ToSet(layout)
    /\ next_pane \in Nat /\ next_tab \in Nat
    /\ \A p \in DOMAIN panes : p \in Nat /\ p < next_pane
    /\ active_pane \in DOMAIN panes /\ session \in Sessions

IInv ==
    /\ Dealt /\ Laid /\ running_pane \in {0} \cup DOMAIN panes
    /\ \A p \in DOMAIN panes : Good(p, panes[p], sent, batch)
-----------------------------------------------------------------------------
\* More has been sent, or answered: what was sent is what it was.
Grows(before, after) ==
    /\ DOMAIN before \subseteq DOMAIN after /\ Len(before) <= Len(after)
    /\ \A i \in DOMAIN before :
          /\ after[i].batch = before[i].batch /\ after[i].pos = before[i].pos
          /\ after[i].pane = before[i].pane /\ after[i].on = before[i].on

LEMMA PaneSetGrows ==
    ASSUME NEW m \in Nat, NEW n \in Nat, m <= n, NEW pane \in PaneSet(m) PROVE pane \in PaneSet(n)
<1>1. 0..m \subseteq 0..n /\ 1..m \subseteq 1..n
  OBVIOUS
<1>2. Tabs(m) \subseteq Tabs(n)
  BY <1>1 DEF Tabs
<1>3. Seq(Tabs(m)) \subseteq Seq(Tabs(n)) /\ Seq(1..m) \subseteq Seq(1..n)
  BY <1>1, <1>2
<1> QED BY <1>1, <1>3 DEF PaneSet

LEMMA WholeGrows ==
    ASSUME NEW before \in Seq(Statements), NEW after \in Seq(Statements), Grows(before, after),
           NEW pane, Whole(pane, before)
    PROVE  Whole(pane, after)
<1>1. pane \in PaneSet(Len(after))
  BY PaneSetGrows DEF Whole, Grows
<1>2. pane.grid # 0 => pane.grid \in DOMAIN before
  BY DEF Whole, PaneSet
<1> QED BY <1>1, <1>2 DEF Whole, Drawn, Grows

\* A pane that asked for nothing new is as good as it was.
LEMMA GoodGrows ==
    ASSUME NEW before \in Seq(Statements), NEW after \in Seq(Statements), Grows(before, after),
           NEW b \in Nat, NEW c \in Nat, b <= c, NEW p, NEW pane, Good(p, pane, before, b),
           \A i \in DOMAIN after \ DOMAIN before : after[i].pane # p
    PROVE  Good(p, pane, after, c)
<1>1. Whole(pane, after)
  BY WholeGrows DEF Good
<1>2. pane.queue \in Seq(Planning)
  BY DEF Good, Whole, PaneSet
<1>3. \A k \in DOMAIN pane.queue : pane.queue[k].batch \in Nat
  <2>1. \A k \in DOMAIN pane.queue : pane.queue[k] \in Planning
    BY <1>2
  <2> QED BY <2>1 DEF Planning
<1>4. \A k \in DOMAIN pane.queue : pane.queue[k].batch <= c
  BY <1>3 DEF Good, Waits
<1>5. \A i \in DOMAIN after : after[i].pane = p =>
         \A k \in DOMAIN pane.queue : Before(after[i], pane.queue[k])
  BY DEF Good, Waits, Grows, Before
<1> QED BY <1>1, <1>4, <1>5 DEF Good, Waits

LEMMA OneMoreGrows ==
    ASSUME NEW all \in Seq(Statements), NEW one \in Statements
    PROVE  /\ Append(all, one) \in Seq(Statements) /\ Grows(all, Append(all, one))
           /\ Len(Append(all, one)) = Len(all) + 1
           /\ Append(all, one)[Len(all) + 1] = one
           /\ DOMAIN Append(all, one) = DOMAIN all \cup {Len(all) + 1}
           /\ \A i \in DOMAIN all : Append(all, one)[i] = all[i]
BY DEF Grows

LEMMA SentIsTyped ==
    ASSUME NEW what \in Planning, NEW s \in Sessions
    PROVE  /\ Sent(what, s) \in Statements /\ Sent(what, s).on = s
           /\ Sent(what, s).batch = what.batch /\ Sent(what, s).pos = what.pos
           /\ Sent(what, s).pane = what.pane
BY DEF Sent, Planning, Statements

LEMMA TheirsGrows ==
    ASSUME NEW before \in Seq(Statements), NEW after \in Seq(Statements), Grows(before, after),
           NEW slots, Theirs(slots, before)
    PROVE  Theirs(slots, after)
<1>1. Slots(Len(before)) \subseteq Slots(Len(after))
  BY DEF Slots, Grows
<1>2. slots \in [Sessions -> Slots(Len(after))]
  BY <1>1 DEF Theirs
<1>3. ASSUME NEW s \in Sessions
      PROVE  /\ slots[s].stmt # 0 => slots[s].stmt \in DOMAIN before
             /\ slots[s].superseding # 0 => slots[s].superseding \in DOMAIN before
  <2>1. slots[s] \in Slots(Len(before))
    BY DEF Theirs
  <2> QED BY <2>1 DEF Slots
<1> QED BY <1>2, <1>3 DEF Theirs, Grows

\* What a session is handed is on it.
LEMMA HandedIsTheirs ==
    ASSUME NEW all \in Seq(Statements), NEW slots, Theirs(slots, all), NEW s \in Sessions,
           NEW id \in DOMAIN all, all[id].on = s
    PROVE  Theirs(Handed(slots, s, id), all)
<1> DEFINE after == Handed(slots, s, id)
<1>1. slots \in [Sessions -> Slots(Len(all))] /\ slots[s] \in Slots(Len(all)) /\ id \in 0..Len(all)
  BY DEF Theirs
<1>2. \/ after = [slots EXCEPT ![s] = [stmt |-> id, superseding |-> slots[s].superseding]]
      \/ after = [slots EXCEPT ![s] = [stmt |-> slots[s].stmt, superseding |-> id]]
  <2>1. slots[s] = [stmt |-> slots[s].stmt, superseding |-> slots[s].superseding]
    BY <1>1 DEF Slots
  <2>2. CASE slots[s].stmt = 0
    <3>1. after = [slots EXCEPT ![s] = [slots[s] EXCEPT !.stmt = id]]
      BY <2>2 DEF Handed
    <3>2. [slots[s] EXCEPT !.stmt = id] = [stmt |-> id, superseding |-> slots[s].superseding]
      BY <2>1
    <3> QED BY <3>1, <3>2
  <2>3. CASE slots[s].stmt # 0
    <3>1. after = [slots EXCEPT ![s] = [slots[s] EXCEPT !.superseding = id]]
      BY <2>3 DEF Handed
    <3>2. [slots[s] EXCEPT !.superseding = id] = [stmt |-> slots[s].stmt, superseding |-> id]
      BY <2>1
    <3> QED BY <3>1, <3>2
  <2> QED BY <2>2, <2>3
<1>3. [stmt |-> id, superseding |-> slots[s].superseding] \in Slots(Len(all))
  BY <1>1 DEF Slots
<1>4. [stmt |-> slots[s].stmt, superseding |-> id] \in Slots(Len(all))
  BY <1>1 DEF Slots
<1>5. after \in [Sessions -> Slots(Len(all))] /\ \A r \in Sessions : r # s => after[r] = slots[r]
  BY <1>1, <1>2, <1>3, <1>4
<1>6. /\ after[s].stmt \in {id, slots[s].stmt}
      /\ after[s].superseding \in {id, slots[s].superseding}
  BY <1>1, <1>2
<1> QED BY <1>5, <1>6 DEF Theirs

LEMMA OutcomesGrow ==
    ASSUME NEW m \in Nat, NEW n \in Nat, m <= n, NEW told \in Seq(Outcomes(m))
    PROVE  told \in Seq(Outcomes(n))
<1>1. Outcomes(m) \subseteq Outcomes(n)
  BY DEF Outcomes
<1> QED BY <1>1

\* One more statement is sent, newer than all its pane has sent.
LEMMA RunAtDeals ==
    ASSUME Told(sent, outcome), InOrder(sent, batch), NEW b \in Nat, batch <= b,
           NEW what \in Planning, what.batch <= b, NEW s \in Sessions, NEW target,
           \A i \in DOMAIN sent : sent[i].pane = what.pane => Before(sent[i], what),
           NEW slots, Theirs(slots, sent), NEW told, Told(sent, told),
           RunAt(target, what, s, slots, told)
    PROVE  /\ Told(sent', outcome') /\ Theirs(slot', sent') /\ InOrder(sent', b)
           /\ pending_history' \in 0..Len(sent') /\ running_pane' = target
           /\ Grows(sent, sent') /\ sent' = Append(sent, Sent(what, s))
           /\ sent' \in Seq(Statements)
<1> DEFINE one == Sent(what, s)
<1>1. sent \in Seq(Statements) /\ Len(sent) \in Nat /\ DOMAIN sent = 1..Len(sent)
  BY DEF Told
<1>2. /\ one \in Statements /\ one.on = s /\ one.batch = what.batch /\ one.pos = what.pos
      /\ one.pane = what.pane
  BY SentIsTyped
<1>3. /\ sent' = Append(sent, one) /\ running_pane' = target /\ pending_history' = Len(sent) + 1
      /\ outcome' = Append(told, NoOutcome) /\ slot' = Handed(slots, s, Len(sent) + 1)
  BY DEF RunAt
<1> HIDE DEF one
<1>4. /\ sent' \in Seq(Statements) /\ Grows(sent, sent') /\ Len(sent') = Len(sent) + 1
      /\ sent'[Len(sent) + 1] = one /\ DOMAIN sent' = DOMAIN sent \cup {Len(sent) + 1}
      /\ \A i \in DOMAIN sent : sent'[i] = sent[i]
  BY <1>1, <1>2, <1>3, OneMoreGrows
<1>5. Told(sent', outcome')
  <2>1. told \in Seq(Outcomes(Len(sent'))) /\ Len(told) = Len(sent)
    BY <1>1, <1>4, OutcomesGrow DEF Told
  <2>2. NoOutcome \in Outcomes(Len(sent'))
    BY <1>1, <1>4 DEF NoOutcome, Outcomes
  <2> QED BY <1>1, <1>3, <1>4, <2>1, <2>2 DEF Told
<1>6. Theirs(slot', sent')
  <2>1. Theirs(slots, sent')
    BY <1>1, <1>4, TheirsGrows
  <2>2. Len(sent) + 1 \in DOMAIN sent' /\ sent'[Len(sent) + 1].on = s
    BY <1>2, <1>4
  <2> QED BY <1>3, <1>4, <2>1, <2>2, HandedIsTheirs
<1>7. InOrder(sent', b)
  <2>1. \A i \in DOMAIN sent : sent[i].batch \in Nat /\ sent[i].pos \in Nat
    <3>1. \A i \in DOMAIN sent : sent[i] \in Statements
      BY <1>1
    <3> QED BY <3>1 DEF Statements
  <2>2. \A i \in DOMAIN sent' : sent'[i].batch <= b
    BY <1>2, <1>4, <2>1 DEF InOrder
  <2>3. ASSUME NEW i \in DOMAIN sent', NEW j \in DOMAIN sent', i < j, sent'[i].pane = sent'[j].pane
        PROVE  Before(sent'[i], sent'[j])
    <3>1. CASE j \in DOMAIN sent
      <4>1. i \in DOMAIN sent
        BY <1>1, <1>4, <2>3, <3>1
      <4> QED BY <1>4, <2>3, <3>1, <4>1 DEF InOrder
    <3>2. CASE j = Len(sent) + 1
      <4>1. i \in DOMAIN sent
        BY <1>1, <1>4, <2>3, <3>2
      <4>2. Before(sent[i], what)
        BY <1>2, <1>4, <2>3, <3>2, <4>1
      <4> QED BY <1>2, <1>4, <3>2, <4>1, <4>2 DEF Before
    <3> QED BY <1>4, <3>1, <3>2
  <2> QED BY <2>2, <2>3 DEF InOrder
<1> QED BY <1>1, <1>3, <1>4, <1>5, <1>6, <1>7 DEF one
-----------------------------------------------------------------------------
LEMMA Plain ==
    ASSUME IInv
    PROVE  /\ sent \in Seq(Statements) /\ Len(sent) \in Nat /\ DOMAIN sent = 1..Len(sent)
           /\ batch \in Nat /\ active_pane \in DOMAIN panes /\ active_pane \in Nat
           /\ session \in Sessions
           /\ \A p \in DOMAIN panes : p \in Nat /\ Good(p, panes[p], sent, batch)
           /\ Told(sent, outcome) /\ Theirs(slot, sent) /\ InOrder(sent, batch)
<1>1. sent \in Seq(Statements)
  BY DEF IInv, Dealt, Told
<1>2. Len(sent) \in Nat /\ DOMAIN sent = 1..Len(sent)
  BY <1>1
<1> QED BY <1>1, <1>2 DEF IInv, Dealt, InOrder, Laid

LEMMA PaneIsRecord ==
    ASSUME NEW n, NEW pane \in PaneSet(n)
    PROVE  pane = [tabs |-> pane.tabs, active_tab |-> pane.active_tab, queue |-> pane.queue,
                   results |-> pane.results, grid |-> pane.grid]
BY DEF PaneSet

LEMMA StartBatchIs ==
    ASSUME NEW n, NEW pane \in PaneSet(n)
    PROVE  StartBatch(pane) = [tabs |-> pane.tabs, active_tab |-> pane.active_tab, queue |-> <<>>,
                               results |-> <<>>, grid |-> pane.grid]
<1>1. PICK tabs, active, queue, results, grid :
         pane = [tabs |-> tabs, active_tab |-> active, queue |-> queue, results |-> results,
                 grid |-> grid]
  BY PaneIsRecord
<1>2. [pane EXCEPT !.queue = <<>>] = [tabs |-> tabs, active_tab |-> active, queue |-> <<>>,
                                       results |-> results, grid |-> grid]
  BY <1>1
<1>3. StartBatch(pane) = [[pane EXCEPT !.queue = <<>>] EXCEPT !.results = <<>>]
  BY DEF StartBatch
<1>4. StartBatch(pane) = [tabs |-> tabs, active_tab |-> active, queue |-> <<>>,
                          results |-> <<>>, grid |-> grid]
  BY <1>2, <1>3
<1> QED BY <1>1, <1>4

LEMMA ActiveIsTyped ==
    ASSUME NEW n \in Nat, NEW pane \in PaneSet(n), NEW i \in DOMAIN pane.tabs
    PROVE  /\ pane.tabs[i] \in Tabs(n) /\ pane.tabs[i].id \in Nat /\ pane.tabs[i].kind \in Kinds
           /\ pane.tabs[i].session \in Sessions /\ pane.tabs[i].cached \in 0..n
<1>1. pane.tabs \in Seq(Tabs(n))
  BY DEF PaneSet
<1>2. pane.tabs[i] \in Tabs(n)
  BY <1>1
<1> QED BY <1>2 DEF Tabs

\* The statements of a script that wait once the first is sent.
Rest(n, p, pane) == IF n = 1 THEN <<>> ELSE Tail(Script(n, p, pane))

Begins(what, p, b) == /\ what \in Planning
                      /\ what.pane = p /\ what.batch = b /\ what.pos = 1
Follows(rest, p, b) ==
    /\ rest \in Seq(Planning)
    /\ \A k \in DOMAIN rest : /\ k \in Nat /\ rest[k].pos = k + 1
                              /\ rest[k].pane = p /\ rest[k].batch = b

LEMMA ScriptIsTyped ==
    ASSUME IInv, NEW n \in Nat \ {0}, NEW p, p \in Nat, NEW pane, Active(pane).id \in Nat
    PROVE  /\ Begins(Script(n, p, pane)[1], p, batch + 1)
           /\ Follows(Rest(n, p, pane), p, batch + 1)
<1> DEFINE script == Script(n, p, pane)
<1> DEFINE rest == IF n = 1 THEN <<>> ELSE Tail(script)
<1> DEFINE line(i) == [batch |-> batch + 1, pos |-> i, pane |-> p, tab |-> Active(pane).id]
<1>2. \A i \in 1..n : line(i) \in Planning
  BY Plain DEF Planning
<1>3. script = [i \in 1..n |-> line(i)]
  BY DEF Script
<1> HIDE DEF line
<1>4. script \in Seq(Planning) /\ Len(script) = n /\ \A i \in 1..n : script[i] = line(i)
  BY <1>2, <1>3
<1> HIDE DEF script
<1>5. script[1] = line(1) /\ line(1) \in Planning
  BY <1>2, <1>4
<1>6. rest \in Seq(Planning) /\ \A k \in DOMAIN rest : k \in Nat /\ k + 1 \in 1..n /\ rest[k] = line(k + 1)
  <2>1. CASE n = 1
    BY <2>1
  <2>2. CASE n # 1
    <3>1. /\ Tail(script) \in Seq(Planning) /\ Len(Tail(script)) = n - 1
          /\ \A k \in 1..(n - 1) : Tail(script)[k] = script[k + 1]
      BY <1>4, <2>2
    <3>2. DOMAIN Tail(script) = 1..(n - 1)
      BY <3>1
    <3> QED BY <1>4, <2>2, <3>1, <3>2
  <2> QED BY <2>1, <2>2
<1>7. \A i \in 1..n : line(i).pane = p /\ line(i).batch = batch + 1 /\ line(i).pos = i
  BY DEF line
<1>8. rest = Rest(n, p, pane) /\ script = Script(n, p, pane)
  BY DEF script, Rest
<1>9. \A k \in DOMAIN rest : /\ rest[k].pane = p /\ rest[k].batch = batch + 1
                             /\ k \in Nat /\ rest[k].pos = k + 1
  BY <1>6, <1>7
<1> HIDE DEF rest
<1>10. Begins(script[1], p, batch + 1)
  BY <1>5, <1>7 DEF Begins
<1>11. Follows(rest, p, batch + 1)
  BY <1>6, <1>9 DEF Follows
<1> QED BY <1>8, <1>10, <1>11

\* A press of Run in a pane whose tabs, rows and tab in front are in order.
LEMMA PressHolds ==
    ASSUME IInv, NEW n \in Nat \ {0}, NEW pane, Whole(pane, sent), HasTab(pane),
           NEW s \in Sessions, Press(n, pane, s)
    PROVE  /\ Dealt' /\ DOMAIN panes' = DOMAIN panes /\ running_pane' = active_pane
           /\ \A p \in DOMAIN panes : Good(p, panes'[p], sent', batch')
<1> DEFINE script == Script(n, active_pane, pane)
<1> DEFINE rest == Rest(n, active_pane, pane)
<1> DEFINE new == [StartBatch(pane) EXCEPT !.queue = IF n = 1 THEN @ ELSE Tail(script)]
<1>1. /\ batch' = batch + 1
      /\ panes' = [panes EXCEPT ![active_pane] = new]
      /\ RunAt(active_pane, script[1], s, slot, outcome)
  BY DEF Press
<1>2. pane \in PaneSet(Len(sent))
  BY DEF Whole
<1>3. /\ script[1] \in Planning /\ script[1].pane = active_pane
      /\ script[1].batch = batch + 1 /\ script[1].pos = 1
      /\ rest \in Seq(Planning)
      /\ \A k \in DOMAIN rest : /\ rest[k].pane = active_pane /\ rest[k].batch = batch + 1
                                /\ k \in Nat /\ rest[k].pos = k + 1
  <2>1. active_pane \in Nat /\ Active(pane).id \in Nat
    BY <1>2, Plain, ActiveIsTyped DEF HasTab, Active
  <2>2. Begins(script[1], active_pane, batch + 1) /\ Follows(rest, active_pane, batch + 1)
    BY <2>1, ScriptIsTyped
  <2> HIDE DEF script, rest
  <2> QED BY <2>2 DEF Begins, Follows
<1>4. /\ new = [tabs |-> pane.tabs, active_tab |-> pane.active_tab, queue |-> rest,
                results |-> <<>>, grid |-> pane.grid]
  <2>1. StartBatch(pane) = [tabs |-> pane.tabs, active_tab |-> pane.active_tab, queue |-> <<>>,
                            results |-> <<>>, grid |-> pane.grid]
    BY <1>2, StartBatchIs
  <2>2. rest = IF n = 1 THEN <<>> ELSE Tail(script)
    BY DEF Rest
  <2> DEFINE clear == StartBatch(pane)
  <2>3. [clear EXCEPT !.queue = IF n = 1 THEN @ ELSE Tail(script)]
          = [clear EXCEPT !.queue = rest]
    BY <2>1, <2>2
  <2>4. [clear EXCEPT !.queue = rest]
          = [tabs |-> pane.tabs, active_tab |-> pane.active_tab, queue |-> rest,
             results |-> <<>>, grid |-> pane.grid]
    <3> HIDE DEF script, rest
    <3> QED BY <2>1
  <2> QED BY <2>3, <2>4
<1> HIDE DEF script, rest, new
<1>5. \A i \in DOMAIN sent : sent[i].batch \in Nat /\ sent[i].batch <= batch
  <2>1. \A i \in DOMAIN sent : sent[i] \in Statements
    BY Plain
  <2> QED BY <2>1, Plain DEF Statements, InOrder
<1>6. \A i \in DOMAIN sent : Before(sent[i], script[1])
  BY <1>3, <1>5, Plain DEF Before
<1>7. /\ Told(sent', outcome') /\ Theirs(slot', sent') /\ InOrder(sent', batch + 1)
      /\ pending_history' \in 0..Len(sent') /\ running_pane' = active_pane
      /\ Grows(sent, sent') /\ sent' = Append(sent, Sent(script[1], s))
      /\ sent' \in Seq(Statements)
  <2>1. batch + 1 \in Nat /\ batch <= batch + 1 /\ script[1].batch <= batch + 1
    BY <1>3, Plain
  <2> QED BY <1>1, <1>3, <1>6, <2>1, Plain, RunAtDeals
<1>8. Dealt'
  BY <1>1, <1>7 DEF Dealt
<1>9. /\ DOMAIN sent' = DOMAIN sent \cup {Len(sent) + 1}
      /\ sent'[Len(sent) + 1].pane = active_pane
      /\ sent'[Len(sent) + 1].batch = batch + 1 /\ sent'[Len(sent) + 1].pos = 1
      /\ \A i \in DOMAIN sent : sent'[i] = sent[i]
  BY <1>3, <1>7, Plain, OneMoreGrows, SentIsTyped
<1>10. Good(active_pane, new, sent', batch')
  <2>1. new \in PaneSet(Len(sent)) /\ new.tabs = pane.tabs /\ new.grid = pane.grid
        /\ new.active_tab = pane.active_tab /\ new.queue = rest
    BY <1>2, <1>3, <1>4 DEF PaneSet
  <2>2. Whole(new, sent)
    BY <2>1 DEF Whole, Drawn, HasTab, Active
  <2>3. Whole(new, sent')
    BY <1>7, <2>2, Plain, WholeGrows
  <2>4. Waits(active_pane, new, sent', batch')
    <3>1. \A k \in DOMAIN rest : rest[k].pane = active_pane /\ rest[k].batch <= batch'
      BY <1>1, <1>3, Plain
    <3>2. \A k, l \in DOMAIN rest : k < l => Before(rest[k], rest[l])
      BY <1>3 DEF Before
    <3>3. \A i \in DOMAIN sent' : \A k \in DOMAIN rest : Before(sent'[i], rest[k])
      BY <1>3, <1>5, <1>9, Plain DEF Before
    <3> QED BY <2>1, <3>1, <3>2, <3>3 DEF Waits
  <2> QED BY <2>3, <2>4 DEF Good
<1>11. ASSUME NEW p \in DOMAIN panes, p # active_pane
       PROVE  Good(p, panes'[p], sent', batch')
  <2>1. panes'[p] = panes[p] /\ Good(p, panes[p], sent, batch)
    BY <1>1, <1>11, Plain
  <2>2. \A i \in DOMAIN sent' \ DOMAIN sent : sent'[i].pane # p
    BY <1>9, <1>11
  <2>3. batch' \in Nat /\ batch <= batch'
    BY <1>1, Plain
  <2> QED BY <1>7, <2>1, <2>2, <2>3, Plain, GoodGrows
<1>12. DOMAIN panes' = DOMAIN panes /\ panes'[active_pane] = new
  BY <1>1, Plain
<1> QED BY <1>7, <1>8, <1>10, <1>11, <1>12
-----------------------------------------------------------------------------
\* One pane is changed and nothing is sent.
LEMMA OneChanges ==
    ASSUME IInv, NEW q \in DOMAIN panes, NEW new, Good(q, new, sent, batch),
           panes' = [panes EXCEPT ![q] = new], sent' = sent, batch' = batch
    PROVE  DOMAIN panes' = DOMAIN panes /\ \A p \in DOMAIN panes : Good(p, panes'[p], sent', batch')
<1>1. DOMAIN panes' = DOMAIN panes /\ panes'[q] = new
  OBVIOUS
<1>2. \A p \in DOMAIN panes : p # q => panes'[p] = panes[p]
  OBVIOUS
<1> QED BY <1>1, <1>2, Plain

LEMMA NothingSent ==
    ASSUME IInv, UNCHANGED <<pending_history, server, outcome, batch>>
    PROVE  Dealt' /\ sent' = sent /\ batch' = batch
BY DEF IInv, Dealt, server, Told, Theirs, InOrder

LEMMA StillLaid ==
    ASSUME Laid, UNCHANGED <<layout, active_pane, next_pane>>, DOMAIN panes' = DOMAIN panes,
           next_tab' \in Nat, session' \in Sessions
    PROVE  Laid'
BY DEF Laid

LEMMA FrontedIs ==
    ASSUME NEW n \in Nat, NEW pane \in PaneSet(n), NEW i \in DOMAIN pane.tabs
    PROVE  /\ Fronted(pane, i) \in PaneSet(n) /\ Fronted(pane, i).active_tab = i
           /\ Fronted(pane, i) = [tabs |-> Stashed(pane), active_tab |-> i, queue |-> pane.queue,
                                  results |-> pane.results, grid |-> pane.grid]
           /\ DOMAIN Stashed(pane) = DOMAIN pane.tabs /\ Stashed(pane) \in Seq(Tabs(n))
           /\ i \in Nat
<1>1. /\ pane.tabs \in Seq(Tabs(n)) /\ pane.grid \in 0..n /\ pane.queue \in Seq(Planning)
      /\ pane.results \in Seq(1..n)
  BY DEF PaneSet
<1>2. CacheShown(pane) \in 0..n
  BY <1>1 DEF CacheShown
<1>3. \A k \in DOMAIN pane.tabs : [pane.tabs[k] EXCEPT !.cached = CacheShown(pane)] \in Tabs(n)
  <2>1. \A k \in DOMAIN pane.tabs : pane.tabs[k] \in Tabs(n)
    BY <1>1
  <2> QED BY <1>2, <2>1 DEF Tabs
<1>4. DOMAIN Stashed(pane) = DOMAIN pane.tabs /\ Stashed(pane) \in Seq(Tabs(n))
  <2> DEFINE tab(k) == IF k = pane.active_tab
                         THEN [pane.tabs[k] EXCEPT !.cached = CacheShown(pane)]
                         ELSE pane.tabs[k]
  <2>1. Stashed(pane) = [k \in DOMAIN pane.tabs |-> tab(k)]
    BY DEF Stashed
  <2>2. ASSUME NEW k \in DOMAIN pane.tabs PROVE tab(k) \in Tabs(n)
    <3>1. pane.tabs[k] \in Tabs(n)
      BY <1>1
    <3> QED BY <1>3, <3>1
  <2>3. DOMAIN pane.tabs = 1..Len(pane.tabs) /\ Len(pane.tabs) \in Nat
    BY <1>1
  <2> HIDE DEF tab
  <2> QED BY <2>1, <2>2, <2>3
<1>5. Fronted(pane, i) = [tabs |-> Stashed(pane), active_tab |-> i, queue |-> pane.queue,
                          results |-> pane.results, grid |-> pane.grid]
  <2>1. PICK tabs, active, queue, results, grid :
           pane = [tabs |-> tabs, active_tab |-> active, queue |-> queue, results |-> results,
                   grid |-> grid]
    BY PaneIsRecord
  <2> DEFINE all == Stashed(pane)
  <2>2. Fronted(pane, i) = [[pane EXCEPT !.tabs = all] EXCEPT !.active_tab = i]
    BY DEF Fronted
  <2> HIDE DEF all
  <2>3. [pane EXCEPT !.tabs = all] = [tabs |-> all, active_tab |-> active, queue |-> queue,
                                      results |-> results, grid |-> grid]
    BY <2>1
  <2>4. Fronted(pane, i) = [tabs |-> all, active_tab |-> i, queue |-> queue,
                            results |-> results, grid |-> grid]
    BY <2>2, <2>3
  <2> QED BY <2>1, <2>4 DEF all
<1>6. i \in Nat
  BY <1>1
<1>7. Fronted(pane, i) \in PaneSet(n)
  BY <1>1, <1>4, <1>5, <1>6 DEF PaneSet
<1> QED BY <1>4, <1>5, <1>6, <1>7

\* A tab is brought to the front of the pane `pane' in the active one's place.
LEMMA ShowTabHolds ==
    ASSUME IInv, NEW pane \in PaneSet(Len(sent)), Waits(active_pane, pane, sent, batch),
           NEW i \in DOMAIN pane.tabs, ShowTab(pane, i)
    PROVE  /\ Dealt' /\ DOMAIN panes' = DOMAIN panes
           /\ running_pane' \in {running_pane, active_pane} /\ session' \in Sessions
           /\ \A p \in DOMAIN panes : Good(p, panes'[p], sent', batch')
<1> DEFINE left == Fronted(pane, i)
<1> DEFINE tab == left.tabs[i]
<1> USE Plain
<1>1. /\ left \in PaneSet(Len(sent)) /\ left.active_tab = i
      /\ left = [tabs |-> Stashed(pane), active_tab |-> i, queue |-> pane.queue,
                 results |-> pane.results, grid |-> pane.grid]
      /\ i \in DOMAIN left.tabs /\ left.queue = pane.queue
  BY FrontedIs
<1>2. HasTab(left) /\ Active(left) = tab
  BY <1>1 DEF HasTab, Active
<1>3. tab \in Tabs(Len(sent)) /\ tab.session \in Sessions /\ tab.cached \in 0..Len(sent)
  BY <1>1, ActiveIsTyped
<1>4. Waits(active_pane, left, sent, batch)
  BY <1>1 DEF Waits
<1>5. session' = tab.session
  BY DEF ShowTab
<1>6. \/ /\ tab.kind = "Query" /\ panes' = [panes EXCEPT ![active_pane] = ClearResults(left)]
         /\ UNCHANGED <<running_pane, pending_history, server, outcome, batch>>
      \/ /\ tab.kind = "Table" /\ panes' = [panes EXCEPT ![active_pane] = [left EXCEPT !.grid = tab.cached]]
         /\ UNCHANGED <<running_pane, pending_history, server, outcome, batch>>
      \/ tab.kind = "Table" /\ Press(1, left, tab.session)
  BY DEF ShowTab
<1> HIDE DEF left, tab
<1>7. CASE /\ tab.kind = "Query" /\ panes' = [panes EXCEPT ![active_pane] = ClearResults(left)]
           /\ UNCHANGED <<running_pane, pending_history, server, outcome, batch>>
  <2>1. ClearResults(left) = [tabs |-> left.tabs, active_tab |-> left.active_tab, queue |-> <<>>,
                              results |-> <<>>, grid |-> 0]
    <3>1. StartBatch(left) = [tabs |-> left.tabs, active_tab |-> left.active_tab, queue |-> <<>>,
                              results |-> <<>>, grid |-> left.grid]
      BY <1>1, StartBatchIs
    <3>2. ClearResults(left) = [StartBatch(left) EXCEPT !.grid = 0]
      BY DEF ClearResults
    <3> QED BY <3>1, <3>2
  <2>2. ClearResults(left) \in PaneSet(Len(sent))
    <3>1. left.tabs \in Seq(Tabs(Len(sent))) /\ left.active_tab \in Nat
      BY <1>1 DEF PaneSet
    <3>2. <<>> \in Seq(Planning) /\ <<>> \in Seq(1..Len(sent)) /\ 0 \in 0..Len(sent)
      OBVIOUS
    <3> QED BY <2>1, <3>1, <3>2 DEF PaneSet
  <2>3. Good(active_pane, ClearResults(left), sent, batch)
    BY <1>2, <2>1, <2>2 DEF Good, Whole, Drawn, HasTab, Waits
  <2> QED BY <1>3, <1>5, <1>7, <2>3, OneChanges, NothingSent
<1>8. CASE /\ tab.kind = "Table" /\ panes' = [panes EXCEPT ![active_pane] = [left EXCEPT !.grid = tab.cached]]
           /\ UNCHANGED <<running_pane, pending_history, server, outcome, batch>>
  <2> DEFINE new == [left EXCEPT !.grid = tab.cached]
  <2>1. new = [tabs |-> left.tabs, active_tab |-> left.active_tab, queue |-> left.queue,
               results |-> left.results, grid |-> tab.cached]
    BY <1>1
  <2> HIDE DEF new
  <2>2. new \in PaneSet(Len(sent))
    BY <1>1, <1>3, <2>1 DEF PaneSet
  <2>3. HasTab(new) /\ Active(new) = tab
    BY <1>2, <2>1 DEF HasTab, Active
  <2>4. Waits(active_pane, new, sent, batch)
    BY <1>4, <2>1 DEF Waits
  <2>5. Good(active_pane, new, sent, batch)
    BY <1>8, <2>2, <2>3, <2>4 DEF Good, Whole, Drawn
  <2> QED BY <1>3, <1>5, <1>8, <2>5, OneChanges, NothingSent DEF new
<1>9. CASE tab.kind = "Table" /\ Press(1, left, tab.session)
  <2>1. Whole(left, sent)
    BY <1>1, <1>2, <1>9 DEF Whole, Drawn
  <2>2. /\ Dealt' /\ DOMAIN panes' = DOMAIN panes /\ running_pane' = active_pane
        /\ \A p \in DOMAIN panes : Good(p, panes'[p], sent', batch')
    BY ONLY IInv, <1>2, <1>3, <1>9, <2>1, PressHolds, 1 \in Nat \ {0}
  <2> QED BY <1>3, <1>5, <2>2
<1> QED BY <1>6, <1>7, <1>8, <1>9
-----------------------------------------------------------------------------
LEMMA ShownIs ==
    ASSUME IInv
    PROVE  /\ Shown \in PaneSet(Len(sent)) /\ Good(active_pane, Shown, sent, batch)
           /\ Waits(active_pane, Shown, sent, batch) /\ Whole(Shown, sent)
BY Plain DEF Shown, Good, Whole

\* The panes stay where they are.
LEMMA Stays ==
    ASSUME IInv, UNCHANGED <<layout, active_pane, next_pane>>, next_tab' \in Nat, session' \in Sessions,
           Dealt', DOMAIN panes' = DOMAIN panes, running_pane' \in {0, running_pane} \cup DOMAIN panes,
           \A p \in DOMAIN panes : Good(p, panes'[p], sent', batch')
    PROVE  IInv'
<1>1. Laid'
  BY StillLaid DEF IInv
<1> QED BY <1>1 DEF IInv

LEMMA RunHolds ==
    ASSUME IInv, NEW n \in Nat \ {0}, Run(n)
    PROVE  IInv'
<1>1. /\ Dealt' /\ DOMAIN panes' = DOMAIN panes /\ running_pane' = active_pane
      /\ \A p \in DOMAIN panes : Good(p, panes'[p], sent', batch')
  BY PressHolds, ShownIs, Plain DEF Run
<1>2. next_tab' \in Nat /\ session' \in Sessions /\ UNCHANGED <<layout, active_pane, next_pane>>
  BY Plain DEF Run, IInv, Laid
<1> QED BY <1>1, <1>2, Plain, Stays

LEMMA ClickTabHolds ==
    ASSUME IInv, NEW i, ClickTab(i)
    PROVE  IInv'
<1>1. /\ Dealt' /\ DOMAIN panes' = DOMAIN panes
      /\ running_pane' \in {running_pane, active_pane} /\ session' \in Sessions
      /\ \A p \in DOMAIN panes : Good(p, panes'[p], sent', batch')
  BY ShowTabHolds, ShownIs DEF ClickTab
<1>2. next_tab' \in Nat /\ UNCHANGED <<layout, active_pane, next_pane>>
  BY DEF ClickTab, IInv, Laid
<1> QED BY <1>1, <1>2, Plain, Stays

LEMMA OpenTabHolds ==
    ASSUME IInv, NEW kind \in Kinds, OpenTab(kind)
    PROVE  IInv'
<1> DEFINE new == NewTab(next_tab, kind, session)
<1> DEFINE tabs == Append(Shown.tabs, new)
<1> DEFINE pane == [Shown EXCEPT !.tabs = tabs]
<1>1. next_tab \in Nat /\ next_tab' = next_tab + 1 /\ UNCHANGED <<layout, active_pane, next_pane>>
  BY DEF OpenTab, IInv, Laid
<1>2. ShowTab(pane, Len(tabs))
  BY DEF OpenTab
<1>3. Shown.tabs \in Seq(Tabs(Len(sent)))
  BY ShownIs DEF PaneSet
<1>4. new \in Tabs(Len(sent))
  BY <1>1, Plain DEF NewTab, Tabs
<1> HIDE DEF new
<1>5. tabs \in Seq(Tabs(Len(sent))) /\ Len(tabs) \in DOMAIN tabs
  BY <1>3, <1>4
<1> HIDE DEF tabs
<1>6. pane = [tabs |-> tabs, active_tab |-> Shown.active_tab, queue |-> Shown.queue,
              results |-> Shown.results, grid |-> Shown.grid]
  BY ShownIs, PaneIsRecord
<1>7. pane \in PaneSet(Len(sent)) /\ pane.tabs = tabs /\ Waits(active_pane, pane, sent, batch)
  BY <1>5, <1>6, ShownIs DEF PaneSet, Waits
<1> HIDE DEF pane
<1>8. /\ Dealt' /\ DOMAIN panes' = DOMAIN panes
      /\ running_pane' \in {running_pane, active_pane} /\ session' \in Sessions
      /\ \A p \in DOMAIN panes : Good(p, panes'[p], sent', batch')
  BY <1>2, <1>5, <1>7, ShowTabHolds
<1>9. next_tab' \in Nat
  BY <1>1
<1> QED BY <1>1, <1>8, <1>9, Plain, Stays

\* An empty pane draws nothing and waits for nothing.
LEMMA EmptyIsGood ==
    ASSUME NEW all \in Seq(Statements), NEW b, NEW p, NEW pane \in PaneSet(Len(all)),
           pane.queue = <<>>, pane.grid = 0, pane.tabs # <<>> => HasTab(pane)
    PROVE  Good(p, pane, all, b)
BY DEF Good, Whole, Drawn, Waits

LEMMA CloseLastTabsHolds ==
    ASSUME IInv, CloseLastTabs
    PROVE  IInv'
<1> DEFINE new == [ClearResults(Shown) EXCEPT !.tabs = <<>>, !.active_tab = 1]
<1>1. panes' = [panes EXCEPT ![active_pane] = new]
  BY DEF CloseLastTabs, Shown
<1>2. new = [tabs |-> <<>>, active_tab |-> 1, queue |-> <<>>, results |-> <<>>, grid |-> 0]
  <2>1. PICK tabs, active, grid : StartBatch(Shown) =
            [tabs |-> tabs, active_tab |-> active, queue |-> <<>>, results |-> <<>>, grid |-> grid]
    BY StartBatchIs, ShownIs
  <2>2. ClearResults(Shown) = [tabs |-> tabs, active_tab |-> active, queue |-> <<>>,
                               results |-> <<>>, grid |-> 0]
    BY <2>1 DEF ClearResults
  <2> DEFINE bare == [ClearResults(Shown) EXCEPT !.tabs = <<>>]
  <2>3. bare = [tabs |-> <<>>, active_tab |-> active, queue |-> <<>>, results |-> <<>>, grid |-> 0]
    BY <2>2
  <2>4. new = [bare EXCEPT !.active_tab = 1]
    OBVIOUS
  <2> HIDE DEF bare, new
  <2> QED BY <2>3, <2>4
<1> HIDE DEF new
<1>3. new \in PaneSet(Len(sent))
  <2>1. <<>> \in Seq(Tabs(Len(sent))) /\ <<>> \in Seq(Planning) /\ <<>> \in Seq(1..Len(sent))
    OBVIOUS
  <2>2. 0 \in 0..Len(sent) /\ 1 \in Nat
    BY Plain
  <2> QED BY <1>2, <2>1, <2>2 DEF PaneSet
<1>4. Good(active_pane, new, sent, batch)
  BY <1>2, <1>3, Plain, EmptyIsGood
<1>5. UNCHANGED <<layout, active_pane, next_pane, next_tab, session, running_pane,
                  pending_history, server, outcome, batch>>
  BY DEF CloseLastTabs
<1>6. DOMAIN panes' = DOMAIN panes /\ \A p \in DOMAIN panes : Good(p, panes'[p], sent', batch')
  BY <1>1, <1>4, <1>5, Plain, NothingSent, OneChanges
<1>7. Dealt'
  BY <1>5, NothingSent
<1>8. next_tab' \in Nat /\ session' \in Sessions
  BY <1>5 DEF IInv, Laid
<1> QED BY <1>5, <1>6, <1>7, <1>8, Stays

LEMMA ActivatePaneHolds ==
    ASSUME IInv, NEW p, ActivatePane(p)
    PROVE  IInv'
<1>1. /\ p \in DOMAIN panes /\ active_pane' = p
      /\ session' = IF HasTab(panes[p]) THEN Active(panes[p]).session ELSE session
      /\ UNCHANGED <<panes, layout, next_pane, next_tab, running_pane, pending_history, server,
                     outcome, batch>>
  BY DEF ActivatePane
<1>2. session' \in Sessions
  <2>1. panes[p] \in PaneSet(Len(sent))
    BY <1>1, Plain DEF Good, Whole
  <2> QED BY <1>1, <2>1, Plain, ActiveIsTyped DEF HasTab, Active
<1>3. Dealt' /\ sent' = sent /\ batch' = batch
  BY <1>1, NothingSent
<1>4. Laid'
  BY <1>1, <1>2 DEF IInv, Laid
<1> QED BY <1>1, <1>3, <1>4 DEF IInv
-----------------------------------------------------------------------------
\* Nothing about the window's panes changes.
LEMMA PlacesStay ==
    ASSUME IInv, UNCHANGED <<places, batch>>, Grows(sent, sent'), Dealt',
           sent' \in Seq(Statements), DOMAIN sent' = DOMAIN sent, running_pane' \in {0, running_pane}
    PROVE  IInv'
<1>1. \A p \in DOMAIN panes : Good(p, panes[p], sent', batch)
  BY Plain, GoodGrows
<1>2. Laid'
  BY DEF IInv, Laid, places
<1> QED BY <1>1, <1>2 DEF IInv, places

LEMMA CancelHolds ==
    ASSUME IInv, Cancel
    PROVE  IInv'
<1>1. /\ slot' = [slot EXCEPT ![session].superseding = 0]
      /\ UNCHANGED <<places, running_pane, pending_history, sent, outcome, batch>>
  BY DEF Cancel
<1>2. slot[session] \in Slots(Len(sent)) /\ slot \in [Sessions -> Slots(Len(sent))]
  BY Plain DEF Theirs
<1> DEFINE new == [slot[session] EXCEPT !.superseding = 0]
<1>3. new \in Slots(Len(sent)) /\ new.stmt = slot[session].stmt /\ new.superseding = 0
  BY <1>2, Plain DEF Slots
<1>4. slot' = [slot EXCEPT ![session] = new]
  BY <1>1
<1> HIDE DEF new
<1>5. Theirs(slot', sent')
  BY <1>1, <1>2, <1>3, <1>4, Plain DEF Theirs
<1>6. Dealt'
  BY <1>1, <1>5 DEF IInv, Dealt
<1> QED BY <1>1, <1>6, Plain, PlacesStay DEF Grows

LEMMA AnswerHolds ==
    ASSUME IInv, NEW s \in Sessions, Answer(s)
    PROVE  IInv'
<1> DEFINE i == slot[s].stmt
<1>1. i # 0 /\ UNCHANGED <<places, running_pane, pending_history, slot, outcome, batch>>
  BY DEF Answer
<1>2. PICK a \in Answers : sent' = [sent EXCEPT ![i].answer = a]
  BY DEF Answer
<1>3. i \in DOMAIN sent /\ sent[i] \in Statements
  <2>1. slot[s] \in Slots(Len(sent))
    BY Plain DEF Theirs
  <2> QED BY <1>1, <2>1, Plain DEF Slots
<1> DEFINE new == [sent[i] EXCEPT !.answer = a]
<1>4. /\ new \in Statements /\ new.batch = sent[i].batch /\ new.pos = sent[i].pos
      /\ new.pane = sent[i].pane /\ new.on = sent[i].on
  BY <1>2, <1>3 DEF Statements
<1>5. sent' = [sent EXCEPT ![i] = new]
  BY <1>2
<1> HIDE DEF new, i
<1>6. /\ sent' \in Seq(Statements) /\ Len(sent') = Len(sent) /\ DOMAIN sent' = DOMAIN sent
      /\ sent'[i] = new /\ \A j \in DOMAIN sent : j # i => sent'[j] = sent[j]
  BY <1>3, <1>4, <1>5, Plain
<1>7. Grows(sent, sent')
  BY <1>3, <1>4, <1>6, Plain DEF Grows
<1>8. Theirs(slot', sent')
  BY <1>1, <1>6, <1>7, Plain, TheirsGrows
<1>9. Told(sent', outcome')
  BY <1>1, <1>6, Plain DEF Told
<1>10. InOrder(sent', batch')
  BY <1>1, <1>6, <1>7, Plain DEF InOrder, Grows, Before
<1>11. Dealt'
  BY <1>1, <1>6, <1>8, <1>9, <1>10 DEF IInv, Dealt
<1> QED BY <1>1, <1>6, <1>7, <1>11, PlacesStay

\* What a session gives up or takes up is still its own.
LEMMA SlotIsTheirs ==
    ASSUME NEW all \in Seq(Statements), NEW slots, Theirs(slots, all), NEW s \in Sessions,
           NEW new \in Slots(Len(all)), new.stmt \in {0, slots[s].stmt, slots[s].superseding},
           new.superseding = 0
    PROVE  Theirs([slots EXCEPT ![s] = new], all)
BY DEF Theirs

LEMMA LandSupersededHolds ==
    ASSUME IInv, NEW s \in Sessions, LandSuperseded(s)
    PROVE  IInv'
<1> DEFINE new == [stmt |-> slot[s].superseding, superseding |-> 0]
<1>1. /\ slot' = [slot EXCEPT ![s] = new]
      /\ UNCHANGED <<places, running_pane, pending_history, sent, outcome, batch>>
  BY DEF LandSuperseded
<1>2. new \in Slots(Len(sent)) /\ new.stmt = slot[s].superseding /\ new.superseding = 0
  <2>1. slot[s] \in Slots(Len(sent))
    BY Plain DEF Theirs
  <2> QED BY <2>1, Plain DEF Slots
<1> HIDE DEF new
<1>3. Theirs(slot', sent')
  BY <1>1, <1>2, Plain, SlotIsTheirs
<1>4. Dealt'
  BY <1>1, <1>3 DEF IInv, Dealt
<1> QED BY <1>1, <1>4, Plain, PlacesStay DEF Grows

LEMMA FreedIs ==
    ASSUME IInv, NEW s \in Sessions
    PROVE  Theirs(Freed(s), sent)
<1>1. Idle \in Slots(Len(sent)) /\ Idle.stmt = 0 /\ Idle.superseding = 0
  BY Plain DEF Idle, Slots
<1> QED BY <1>1, Plain, SlotIsTheirs DEF Freed

LEMMA LandsIs ==
    ASSUME IInv, NEW s \in Sessions, Lands(s)
    PROVE  /\ slot[s].stmt \in DOMAIN sent /\ sent[slot[s].stmt] \in Statements
           /\ sent[slot[s].stmt].answer \in Answers /\ sent[slot[s].stmt].on = s
<1>1. slot[s].stmt # 0 /\ sent[slot[s].stmt].answer # "none"
  BY DEF Lands
<1>2. slot[s] \in Slots(Len(sent))
  BY Plain DEF Theirs
<1>3. slot[s].stmt \in DOMAIN sent
  BY <1>1, <1>2, Plain DEF Slots
<1>4. sent[slot[s].stmt] \in Statements
  BY <1>3, Plain
<1> QED BY <1>1, <1>3, <1>4, Plain DEF Statements, Theirs

LEMMA RecordedIs ==
    ASSUME IInv, NEW i \in DOMAIN sent
    PROVE  Told(sent, Recorded(i))
<1>1. /\ outcome \in Seq(Outcomes(Len(sent))) /\ Len(outcome) = Len(sent)
      /\ pending_history \in 0..Len(sent)
  BY DEF IInv, Dealt, Told
<1> DEFINE new == [stmt |-> i, answer |-> sent[i].answer]
<1>2. new \in Outcomes(Len(sent))
  <2>1. sent[i] \in Statements /\ i \in 0..Len(sent)
    BY Plain
  <2> QED BY <2>1 DEF Outcomes, Statements
<1>3. Recorded(i) = IF pending_history = 0 THEN outcome
                    ELSE [outcome EXCEPT ![pending_history] = new]
  BY DEF Recorded
<1> HIDE DEF new
<1>4. Recorded(i) \in Seq(Outcomes(Len(sent))) /\ Len(Recorded(i)) = Len(sent)
  <2>1. CASE pending_history = 0
    BY <1>1, <1>3, <2>1
  <2>2. CASE pending_history # 0
    <3>1. pending_history \in DOMAIN outcome
      BY <1>1, <2>2, Plain
    <3> QED BY <1>1, <1>2, <1>3, <2>2, <3>1
  <2> QED BY <2>1, <2>2
<1> QED BY <1>4, Plain DEF Told

LEMMA LandNowhereHolds ==
    ASSUME IInv, NEW s \in Sessions, LandNowhere(s)
    PROVE  IInv'
<1>1. /\ Lands(s) /\ slot' = Freed(s) /\ outcome' = Recorded(slot[s].stmt)
      /\ running_pane' = 0 /\ pending_history' = 0 /\ UNCHANGED <<places, sent, batch>>
  BY DEF LandNowhere
<1>2. Theirs(slot', sent') /\ Told(sent', outcome')
  BY <1>1, LandsIs, FreedIs, RecordedIs
<1>3. InOrder(sent', batch') /\ pending_history' \in 0..Len(sent')
  BY <1>1, Plain
<1>4. Dealt'
  BY <1>2, <1>3 DEF Dealt
<1> QED BY <1>1, <1>4, Plain, PlacesStay DEF Grows

LEMMA TargetIs ==
    ASSUME IInv
    PROVE  Target \in DOMAIN panes /\ Good(Target, panes[Target], sent, batch)
BY Plain DEF IInv, Target

\* A pane that takes up an answer of the session of the tab in front of it.
LEMMA AbsorbedIsGood ==
    ASSUME IInv, NEW p, NEW pane, Good(p, pane, sent, batch), HasTab(pane),
           NEW i \in DOMAIN sent, sent[i].on = Active(pane).session, sent[i].answer \in Answers
    PROVE  Good(p, Absorbed(pane, i), sent, batch) /\ HasTab(Absorbed(pane, i))
<1> DEFINE new == Absorbed(pane, i)
<1>1. /\ pane \in PaneSet(Len(sent)) /\ pane.results \in Seq(1..Len(sent)) /\ i \in 1..Len(sent)
      /\ pane.tabs \in Seq(Tabs(Len(sent))) /\ pane.queue \in Seq(Planning)
      /\ pane.active_tab \in Nat /\ pane.grid \in 0..Len(sent)
  BY Plain DEF Good, Whole, PaneSet
<1>2. PICK tabs, active, queue, results, grid :
         pane = [tabs |-> tabs, active_tab |-> active, queue |-> queue, results |-> results,
                 grid |-> grid]
  BY <1>1, PaneIsRecord
<1>3. CASE sent[i].answer = "rows"
  <2> DEFINE shown == Append(pane.results, i)
  <2>1. shown \in Seq(1..Len(sent))
    BY <1>1
  <2>2. new = [[pane EXCEPT !.results = shown] EXCEPT !.grid = i]
    BY <1>3 DEF Absorbed
  <2> HIDE DEF shown
  <2>3. [pane EXCEPT !.results = shown]
          = [tabs |-> tabs, active_tab |-> active, queue |-> queue, results |-> shown, grid |-> grid]
    BY <1>2
  <2>4. new = [tabs |-> tabs, active_tab |-> active, queue |-> queue, results |-> shown, grid |-> i]
    BY <2>2, <2>3
  <2> HIDE DEF new
  <2>5. new.tabs = pane.tabs /\ new.active_tab = pane.active_tab /\ new.queue = pane.queue
        /\ new.grid = i
    BY <1>2, <2>4
  <2>6. new \in PaneSet(Len(sent))
    BY <1>1, <1>2, <2>1, <2>4 DEF PaneSet
  <2>7. HasTab(new) /\ Active(new) = Active(pane)
    BY <2>5 DEF HasTab, Active
  <2>8. Drawn(new, sent)
    BY <2>5, <2>7 DEF Drawn
  <2>9. Waits(p, new, sent, batch)
    BY <2>5 DEF Good, Waits
  <2> QED BY <2>6, <2>7, <2>8, <2>9 DEF Good, Whole, new
<1>4. CASE sent[i].answer = "error"
  <2>1. new = [pane EXCEPT !.queue = <<>>]
    BY <1>4 DEF Absorbed
  <2>2. new = [tabs |-> tabs, active_tab |-> active, queue |-> <<>>, results |-> results,
               grid |-> grid]
    BY <1>2, <2>1
  <2> HIDE DEF new
  <2>3. new.tabs = pane.tabs /\ new.active_tab = pane.active_tab /\ new.queue = <<>>
        /\ new.grid = pane.grid
    BY <1>2, <2>2
  <2>4. <<>> \in Seq(Planning)
    OBVIOUS
  <2>5. new \in PaneSet(Len(sent))
    BY <1>1, <1>2, <2>2, <2>4 DEF PaneSet
  <2>6. HasTab(new) /\ Active(new) = Active(pane)
    BY <2>3 DEF HasTab, Active
  <2>7. Drawn(new, sent)
    BY <2>3, <2>6 DEF Good, Whole, Drawn
  <2>8. Waits(p, new, sent, batch)
    BY <2>3 DEF Waits
  <2> QED BY <2>5, <2>6, <2>7, <2>8 DEF Good, Whole, new
<1>5. CASE sent[i].answer = "done"
  BY <1>5 DEF Absorbed
<1> QED BY <1>3, <1>4, <1>5 DEF Answers

\* The first of what waits goes, and the rest is newer still.
LEMMA NextIsSent ==
    ASSUME NEW p, NEW pane, Good(p, pane, sent, batch), HasTab(pane), pane.queue # <<>>,
           sent \in Seq(Statements), NEW b, b = batch, batch \in Nat,
           NEW one \in Statements, one.batch = Head(pane.queue).batch,
           one.pos = Head(pane.queue).pos, one.pane = Head(pane.queue).pane,
           NEW after, after = Append(sent, one)
    PROVE  /\ Good(p, [pane EXCEPT !.queue = Tail(@)], after, b)
           /\ Head(pane.queue) \in Planning /\ Head(pane.queue).pane = p
           /\ Head(pane.queue).batch <= batch
           /\ \A i \in DOMAIN sent : sent[i].pane = p => Before(sent[i], Head(pane.queue))
<1> DEFINE rest == Tail(pane.queue)
<1> DEFINE new == [pane EXCEPT !.queue = rest]
<1>1. pane \in PaneSet(Len(sent)) /\ pane.queue \in Seq(Planning)
  BY DEF Good, Whole, PaneSet
<1>2. /\ Head(pane.queue) = pane.queue[1] /\ 1 \in DOMAIN pane.queue /\ pane.queue[1] \in Planning
      /\ rest \in Seq(Planning)
      /\ \A k \in DOMAIN rest : k \in Nat /\ k + 1 \in DOMAIN pane.queue /\ rest[k] = pane.queue[k + 1]
                                /\ k + 1 > 1
  BY <1>1
<1> HIDE DEF rest
<1>3. new = [tabs |-> pane.tabs, active_tab |-> pane.active_tab, queue |-> rest,
             results |-> pane.results, grid |-> pane.grid]
  BY <1>1, PaneIsRecord
<1> HIDE DEF new
<1>4. /\ after \in Seq(Statements) /\ Grows(sent, after) /\ after[Len(sent) + 1] = one
      /\ DOMAIN after = DOMAIN sent \cup {Len(sent) + 1}
      /\ \A i \in DOMAIN sent : after[i] = sent[i]
  BY OneMoreGrows
<1>5. Whole(new, sent)
  <2>1. new \in PaneSet(Len(sent))
    BY <1>1, <1>2, <1>3 DEF PaneSet
  <2> QED BY <1>3, <2>1 DEF Good, Whole, HasTab, Drawn, Active
<1>6. Whole(new, after)
  BY <1>4, <1>5, WholeGrows
<1>7. Waits(p, new, after, b)
  <2>1. \A k \in DOMAIN rest : rest[k].pane = p /\ rest[k].batch <= b
    BY <1>2 DEF Good, Waits
  <2>2. \A k, l \in DOMAIN rest : k < l => Before(rest[k], rest[l])
    BY <1>2 DEF Good, Waits
  <2>3. \A k \in DOMAIN rest : Before(pane.queue[1], rest[k])
    BY <1>2 DEF Good, Waits
  <2>4. \A i \in DOMAIN after : after[i].pane = p => \A k \in DOMAIN rest : Before(after[i], rest[k])
    <3>1. \A i \in DOMAIN sent : sent[i].pane = p => \A k \in DOMAIN rest : Before(sent[i], rest[k])
      BY <1>2 DEF Good, Waits
    <3>2. \A k \in DOMAIN rest : Before(one, rest[k])
      BY <1>2, <2>3 DEF Before
    <3> QED BY <1>4, <3>1, <3>2
  <2>5. new.queue = rest
    BY <1>3
  <2> QED BY <2>1, <2>2, <2>4, <2>5 DEF Waits
<1>8. new = [pane EXCEPT !.queue = Tail(@)]
  BY DEF new, rest
<1> QED BY <1>2, <1>6, <1>7, <1>8 DEF Good, Waits

LEMMA LandHereHolds ==
    ASSUME IInv, NEW s \in Sessions, LandHere(s)
    PROVE  IInv'
<1> DEFINE i == slot[s].stmt
<1> DEFINE pane == Absorbed(panes[Target], i)
<1>1. /\ Lands(s) /\ ~NowhereToLand(Target, s)
      /\ UNCHANGED <<layout, active_pane, next_pane, next_tab, session, batch>>
      /\ \/ /\ pane.queue = <<>> /\ panes' = [panes EXCEPT ![Target] = pane]
            /\ running_pane' = 0 /\ pending_history' = 0
            /\ slot' = Freed(s) /\ outcome' = Recorded(i) /\ UNCHANGED sent
         \/ /\ pane.queue # <<>>
            /\ panes' = [panes EXCEPT ![Target] = [pane EXCEPT !.queue = Tail(@)]]
            /\ RunAt(Target, Head(pane.queue), session, Freed(s), Recorded(i))
  BY DEF LandHere
<1>2. i \in DOMAIN sent /\ sent[i].answer \in Answers /\ sent[i].on = s
  BY <1>1, LandsIs
<1>3. Target \in DOMAIN panes /\ Good(Target, pane, sent, batch) /\ HasTab(pane)
  BY <1>1, <1>2, TargetIs, AbsorbedIsGood DEF NowhereToLand
<1>4. Theirs(Freed(s), sent) /\ Told(sent, Recorded(i))
  BY <1>2, FreedIs, RecordedIs
<1>5. next_tab' \in Nat /\ session' \in Sessions
  BY <1>1 DEF IInv, Laid
<1> HIDE DEF i, pane
<1>6. CASE /\ pane.queue = <<>> /\ panes' = [panes EXCEPT ![Target] = pane]
           /\ running_pane' = 0 /\ pending_history' = 0
           /\ slot' = Freed(s) /\ outcome' = Recorded(i) /\ UNCHANGED sent
  <2>1. DOMAIN panes' = DOMAIN panes /\ \A p \in DOMAIN panes : Good(p, panes'[p], sent', batch')
    BY <1>1, <1>3, <1>6, OneChanges
  <2>2. Dealt'
    BY <1>1, <1>4, <1>6, Plain DEF Dealt
  <2> QED BY <1>1, <1>5, <1>6, <2>1, <2>2, Stays
<1>7. CASE /\ pane.queue # <<>>
           /\ panes' = [panes EXCEPT ![Target] = [pane EXCEPT !.queue = Tail(@)]]
           /\ RunAt(Target, Head(pane.queue), session, Freed(s), Recorded(i))
  <2> DEFINE what == Head(pane.queue)
  <2> DEFINE new == [pane EXCEPT !.queue = Tail(@)]
  <2> DEFINE one == Sent(what, session)
  <2>1. what \in Planning /\ what.pane = Target /\ what.batch <= batch
        /\ \A j \in DOMAIN sent : sent[j].pane = Target => Before(sent[j], what)
    <3>1. pane.queue \in Seq(Planning)
      BY <1>3 DEF Good, Whole, PaneSet
    <3>2. what = pane.queue[1] /\ 1 \in DOMAIN pane.queue /\ pane.queue[1] \in Planning
      BY <1>7, <3>1
    <3> HIDE DEF what
    <3> QED BY <1>3, <3>2 DEF Good, Waits
  <2> HIDE DEF what
  <2>2. /\ one \in Statements /\ one.batch = what.batch /\ one.pos = what.pos /\ one.pane = what.pane
    BY <2>1, Plain, SentIsTyped
  <2>3. /\ Told(sent', outcome') /\ Theirs(slot', sent') /\ InOrder(sent', batch)
        /\ pending_history' \in 0..Len(sent') /\ running_pane' = Target
        /\ Grows(sent, sent') /\ sent' = Append(sent, one) /\ sent' \in Seq(Statements)
    <3>1. RunAt(Target, what, session, Freed(s), Recorded(i))
      BY <1>7 DEF what
    <3>2. \A j \in DOMAIN sent : sent[j].pane = what.pane => Before(sent[j], what)
      BY <2>1
    <3>3. /\ Told(sent, outcome) /\ InOrder(sent, batch) /\ session \in Sessions
          /\ batch \in Nat /\ batch <= batch
      BY Plain
    <3> QED BY ONLY <1>4, <2>1, <3>1, <3>2, <3>3, RunAtDeals DEF one
  <2> HIDE DEF one
  <2>4. Good(Target, new, sent', batch')
    BY <1>1, <1>3, <1>7, <2>2, <2>3, Plain, NextIsSent DEF what
  <2>5. /\ DOMAIN sent' = DOMAIN sent \cup {Len(sent) + 1} /\ sent'[Len(sent) + 1].pane = Target
    BY <2>1, <2>2, <2>3, Plain, OneMoreGrows
  <2> HIDE DEF new
  <2>6. panes' = [panes EXCEPT ![Target] = new]
    BY <1>7 DEF new
  <2>7. ASSUME NEW p \in DOMAIN panes, p # Target
        PROVE  Good(p, panes'[p], sent', batch')
    <3>1. panes'[p] = panes[p] /\ Good(p, panes[p], sent, batch)
      BY <2>6, <2>7, Plain
    <3>2. \A j \in DOMAIN sent' \ DOMAIN sent : sent'[j].pane # p
      BY <2>5, <2>7
    <3>3. batch' = batch /\ batch \in Nat /\ batch <= batch
      BY <1>1, Plain
    <3> QED BY <2>3, <3>1, <3>2, <3>3, Plain, GoodGrows
  <2>8. DOMAIN panes' = DOMAIN panes /\ panes'[Target] = new
    BY <1>3, <2>6
  <2>9. Dealt'
    BY <1>1, <2>3 DEF Dealt
  <2> QED BY <1>1, <1>3, <1>5, <2>3, <2>4, <2>7, <2>8, <2>9, Stays
<1> QED BY <1>1, <1>6, <1>7
-----------------------------------------------------------------------------
LEMMA PutIn ==
    ASSUME NEW s \in Seq(Nat), NEW i \in 1..Len(s) + 1, NEW e \in Nat
    PROVE  /\ InsertAt(s, i, e) \in Seq(Nat) /\ Len(InsertAt(s, i, e)) = Len(s) + 1
           /\ InsertAt(s, i, e)[i] = e
           /\ \A k \in 1..(i - 1) : InsertAt(s, i, e)[k] = s[k]
           /\ \A k \in (i + 1)..(Len(s) + 1) : InsertAt(s, i, e)[k] = s[k - 1]
<1> DEFINE left == SubSeq(s, 1, i - 1)
<1> DEFINE right == SubSeq(s, i, Len(s))
<1>1. /\ left \in Seq(Nat) /\ Len(left) = i - 1 /\ \A k \in 1..(i - 1) : left[k] = s[k]
  OBVIOUS
<1>2. /\ right \in Seq(Nat) /\ Len(right) = Len(s) - i + 1
      /\ \A k \in 1..(Len(s) - i + 1) : right[k] = s[i + k - 1]
  OBVIOUS
<1>3. InsertAt(s, i, e) = (left \o <<e>>) \o right
  BY DEF InsertAt
<1> HIDE DEF left, right
<1> DEFINE start == left \o <<e>>
<1>4. /\ start \in Seq(Nat) /\ Len(start) = i /\ start[i] = e
      /\ \A k \in 1..(i - 1) : start[k] = s[k]
  <2>1. <<e>> \in Seq(Nat) /\ Len(<<e>>) = 1 /\ <<e>>[1] = e
    OBVIOUS
  <2>2. /\ start \in Seq(Nat) /\ Len(start) = i
        /\ \A k \in 1..i : start[k] = IF k <= i - 1 THEN left[k] ELSE <<e>>[k - (i - 1)]
    BY <1>1, <2>1, ConcatProperties
  <2>3. start[i] = <<e>>[1]
    BY <2>2
  <2> HIDE DEF start
  <2>4. ASSUME NEW k \in 1..(i - 1) PROVE start[k] = s[k]
    <3>1. k \in 1..i /\ k <= i - 1
      OBVIOUS
    <3>2. start[k] = left[k]
      BY <2>2, <3>1
    <3> QED BY <1>1, <3>2
  <2> QED BY <2>1, <2>2, <2>3, <2>4
<1> HIDE DEF start
<1>5. /\ start \o right \in Seq(Nat) /\ Len(start \o right) = Len(s) + 1
      /\ \A k \in 1..i : (start \o right)[k] = start[k]
      /\ \A k \in (i + 1)..(Len(s) + 1) : (start \o right)[k] = right[k - i]
  <2> DEFINE both == start \o right
  <2>1. /\ both \in Seq(Nat) /\ Len(both) = Len(start) + Len(right)
        /\ \A k \in 1..Len(start) + Len(right) :
              both[k] = IF k <= Len(start) THEN start[k] ELSE right[k - Len(start)]
    BY <1>2, <1>4, ConcatProperties
  <2> HIDE DEF both
  <2>2. Len(start) = i /\ Len(start) + Len(right) = Len(s) + 1
    BY <1>2, <1>4
  <2>3. /\ both \in Seq(Nat) /\ Len(both) = Len(s) + 1
        /\ \A k \in 1..i : both[k] = start[k]
        /\ \A k \in (i + 1)..(Len(s) + 1) : both[k] = right[k - i]
    BY <2>1, <2>2
  <2> QED BY <2>3 DEF both
<1>6. \A k \in (i + 1)..(Len(s) + 1) : right[k - i] = s[k - 1]
  BY <1>2
<1>7. InsertAt(s, i, e) = start \o right
  BY <1>3 DEF start
<1> DEFINE both == start \o right
<1>8. /\ both \in Seq(Nat) /\ Len(both) = Len(s) + 1 /\ both[i] = e
      /\ \A k \in 1..(i - 1) : both[k] = s[k]
      /\ \A k \in (i + 1)..(Len(s) + 1) : both[k] = s[k - 1]
  <2>1. both[i] = start[i] /\ \A k \in 1..(i - 1) : both[k] = start[k]
    BY <1>5
  <2> HIDE DEF both
  <2> QED BY <1>4, <1>5, <1>6, <2>1 DEF both
<1> QED BY <1>7, <1>8

LEMMA TakenOut ==
    ASSUME NEW s \in Seq(Nat), NEW i \in 1..Len(s)
    PROVE  /\ RemoveAt(s, i) \in Seq(Nat) /\ Len(RemoveAt(s, i)) = Len(s) - 1
           /\ \A k \in 1..(i - 1) : RemoveAt(s, i)[k] = s[k]
           /\ \A k \in i..(Len(s) - 1) : RemoveAt(s, i)[k] = s[k + 1]
<1> DEFINE left == SubSeq(s, 1, i - 1)
<1> DEFINE right == SubSeq(s, i + 1, Len(s))
<1>1. /\ left \in Seq(Nat) /\ Len(left) = i - 1 /\ \A k \in 1..(i - 1) : left[k] = s[k]
  OBVIOUS
<1>2. /\ right \in Seq(Nat) /\ Len(right) = Len(s) - i
      /\ \A k \in 1..(Len(s) - i) : right[k] = s[i + k]
  OBVIOUS
<1>3. RemoveAt(s, i) = left \o right
  BY DEF RemoveAt
<1> HIDE DEF left, right
<1>4. /\ left \o right \in Seq(Nat) /\ Len(left \o right) = Len(s) - 1
      /\ \A k \in 1..(i - 1) : (left \o right)[k] = left[k]
      /\ \A k \in i..(Len(s) - 1) : (left \o right)[k] = right[k - (i - 1)]
  <2> DEFINE both == left \o right
  <2>1. /\ both \in Seq(Nat) /\ Len(both) = Len(left) + Len(right)
        /\ \A k \in 1..Len(left) + Len(right) :
              both[k] = IF k <= Len(left) THEN left[k] ELSE right[k - Len(left)]
    BY <1>1, <1>2, ConcatProperties
  <2> HIDE DEF both
  <2>2. Len(left) = i - 1 /\ Len(left) + Len(right) = Len(s) - 1
    BY <1>1, <1>2
  <2>3. /\ both \in Seq(Nat) /\ Len(both) = Len(s) - 1
        /\ \A k \in 1..(Len(s) - 1) : both[k] = IF k <= i - 1 THEN left[k] ELSE right[k - (i - 1)]
    BY <2>1, <2>2
  <2>4. ASSUME NEW k \in 1..(i - 1) PROVE both[k] = left[k]
    <3>1. k \in 1..(Len(s) - 1) /\ k <= i - 1
      OBVIOUS
    <3> QED BY <2>3, <3>1
  <2>5. ASSUME NEW k \in i..(Len(s) - 1) PROVE both[k] = right[k - (i - 1)]
    <3>1. k \in 1..(Len(s) - 1) /\ ~(k <= i - 1)
      OBVIOUS
    <3> QED BY <2>3, <3>1
  <2> QED BY <2>3, <2>4, <2>5 DEF both
<1>5. ASSUME NEW k \in i..(Len(s) - 1) PROVE right[k - (i - 1)] = s[k + 1]
  <2>1. k - (i - 1) \in 1..(Len(s) - i) /\ i + (k - (i - 1)) = k + 1
    OBVIOUS
  <2> QED BY <1>2, <2>1
<1> QED BY <1>1, <1>3, <1>4, <1>5

LEMMA PlaceOfIs ==
    ASSUME Laid, NEW p \in DOMAIN panes
    PROVE  PlaceOf(p) \in 1..Len(layout) /\ layout[PlaceOf(p)] = p
<1>1. \E i \in DOMAIN layout : layout[i] = p
  BY DEF Laid, ToSet
<1>2. DOMAIN layout = 1..Len(layout)
  BY DEF Laid
<1> QED BY <1>1, <1>2 DEF PlaceOf

\* The new pane stands beside the active one and is the active one.
LEMMA SplitPaneHolds ==
    ASSUME IInv, SplitPane
    PROVE  IInv'
<1> DEFINE tab == NewTab(next_tab, "Query", session)
<1> DEFINE new == NewPane(<<tab>>)
<1> DEFINE at == PlaceOf(active_pane) + 1
<1>1. /\ layout' = InsertAt(layout, at, next_pane)
      /\ panes' = [p \in DOMAIN panes \cup {next_pane} |-> IF p = next_pane THEN new ELSE panes[p]]
      /\ active_pane' = next_pane
      /\ next_pane' = next_pane + 1 /\ next_tab' = next_tab + 1
      /\ UNCHANGED <<session, running_pane, pending_history, server, outcome, batch>>
  BY DEF SplitPane
<1>2. /\ layout \in Seq(Nat) /\ IsInjective(layout) /\ DOMAIN panes = ToSet(layout)
      /\ next_pane \in Nat /\ next_tab \in Nat /\ session \in Sessions
      /\ \A p \in DOMAIN panes : p \in Nat /\ p < next_pane
  BY DEF IInv, Laid
<1>3. at \in 1..Len(layout) + 1
  BY <1>2, Plain, PlaceOfIs DEF IInv
<1>4. Dealt' /\ sent' = sent /\ batch' = batch
  BY <1>1, NothingSent
<1>5. tab \in Tabs(Len(sent))
  BY <1>2, Plain DEF NewTab, Tabs, Kinds
<1> HIDE DEF tab, at
<1>6. Good(next_pane, new, sent, batch)
  <2>1. new = [tabs |-> <<tab>>, active_tab |-> 1, queue |-> <<>>, results |-> <<>>, grid |-> 0]
    BY DEF NewPane
  <2> HIDE DEF new
  <2>2. /\ <<tab>> \in Seq(Tabs(Len(sent))) /\ <<>> \in Seq(Planning) /\ <<>> \in Seq(1..Len(sent))
        /\ 0 \in 0..Len(sent) /\ 1 \in DOMAIN <<tab>>
    BY <1>5, Plain
  <2>3. new \in PaneSet(Len(sent)) /\ HasTab(new)
    BY <2>1, <2>2 DEF PaneSet, HasTab
  <2> QED BY <2>1, <2>3, Plain, EmptyIsGood
<1> HIDE DEF new
<1>7. /\ DOMAIN panes' = DOMAIN panes \cup {next_pane} /\ panes'[next_pane] = new
      /\ \A p \in DOMAIN panes : panes'[p] = panes[p]
  BY <1>1, <1>2
<1>8. \A p \in DOMAIN panes' : Good(p, panes'[p], sent', batch')
  BY <1>4, <1>6, <1>7, Plain
<1>9. /\ layout' \in Seq(Nat) /\ Len(layout') = Len(layout) + 1 /\ layout'[at] = next_pane
      /\ \A k \in 1..(at - 1) : layout'[k] = layout[k]
      /\ \A k \in (at + 1)..(Len(layout) + 1) : layout'[k] = layout[k - 1]
  BY <1>1, <1>2, <1>3, PutIn
<1>10. DOMAIN layout = 1..Len(layout) /\ DOMAIN layout' = 1..(Len(layout) + 1) /\ Len(layout) \in Nat
  BY <1>2, <1>9
<1>11. \A k \in DOMAIN layout : layout[k] \in DOMAIN panes /\ layout[k] # next_pane
  BY <1>2 DEF ToSet
<1>12. ToSet(layout') = DOMAIN panes'
  <2>1. ASSUME NEW k \in DOMAIN layout' PROVE layout'[k] \in DOMAIN panes'
    <3>1. k = at \/ k \in 1..(at - 1) \/ k \in (at + 1)..(Len(layout) + 1)
      BY <1>3, <1>10
    <3>2. CASE k = at
      BY <1>7, <1>9, <3>2
    <3>3. CASE k \in 1..(at - 1)
      BY <1>3, <1>7, <1>9, <1>10, <1>11, <3>3
    <3>4. CASE k \in (at + 1)..(Len(layout) + 1)
      <4>1. k - 1 \in DOMAIN layout
        BY <1>3, <1>10, <3>4
      <4> QED BY <1>7, <1>9, <1>11, <3>4, <4>1
    <3> QED BY <3>1, <3>2, <3>3, <3>4
  <2>2. ASSUME NEW p \in DOMAIN panes' PROVE \E k \in DOMAIN layout' : layout'[k] = p
    <3>1. CASE p = next_pane
      BY <1>3, <1>9, <1>10, <3>1
    <3>2. CASE p \in DOMAIN panes
      <4>1. PICK k \in DOMAIN layout : layout[k] = p
        BY <1>2, <3>2 DEF ToSet
      <4>2. CASE k < at
        BY <1>3, <1>9, <1>10, <4>1, <4>2
      <4>3. CASE k >= at
        <5>1. k + 1 \in (at + 1)..(Len(layout) + 1) /\ (k + 1) - 1 = k
          BY <1>3, <1>10, <4>3
        <5> QED BY <1>3, <1>9, <1>10, <4>1, <5>1
      <4> QED BY <1>3, <1>10, <4>2, <4>3
    <3> QED BY <1>7, <3>1, <3>2
  <2> QED BY <2>1, <2>2 DEF ToSet
<1>13. IsInjective(layout')
  <2>1. ASSUME NEW k \in DOMAIN layout'
        PROVE  \/ k = at /\ layout'[k] = next_pane
               \/ k < at /\ k \in DOMAIN layout /\ layout'[k] = layout[k]
               \/ k > at /\ k - 1 \in DOMAIN layout /\ layout'[k] = layout[k - 1]
    BY <1>3, <1>9, <1>10
  <2>2. \A a, b \in DOMAIN layout : layout[a] = layout[b] => a = b
    BY <1>2 DEF IsInjective
  <2>3. ASSUME NEW a \in DOMAIN layout', NEW b \in DOMAIN layout', layout'[a] = layout'[b]
        PROVE  a = b
    <3>1. a \in Nat /\ b \in Nat /\ at \in Nat
      BY <1>3, <1>10
    <3>2. CASE a = at
      BY <1>11, <2>1, <2>3, <3>1, <3>2
    <3>3. CASE a < at
      <4>1. layout'[a] # next_pane
        BY <1>11, <2>1, <3>1, <3>3
      <4>2. CASE b < at
        BY <2>1, <2>2, <2>3, <3>1, <3>3, <4>2
      <4>3. CASE b > at
        <5>1. a = b - 1
          BY <2>1, <2>2, <2>3, <3>1, <3>3, <4>3
        <5> QED BY <3>1, <3>3, <4>3, <5>1
      <4> QED BY <1>9, <2>3, <3>1, <4>1, <4>2, <4>3
    <3>4. CASE a > at
      <4>1. layout'[a] # next_pane
        BY <1>11, <2>1, <3>1, <3>4
      <4>2. CASE b < at
        <5>1. b = a - 1
          BY <2>1, <2>2, <2>3, <3>1, <3>4, <4>2
        <5> QED BY <3>1, <3>4, <4>2, <5>1
      <4>3. CASE b > at
        <5>1. a - 1 = b - 1
          BY <2>1, <2>2, <2>3, <3>1, <3>4, <4>3
        <5> QED BY <3>1, <5>1
      <4> QED BY <1>9, <2>3, <3>1, <4>1, <4>2, <4>3
    <3> QED BY <3>1, <3>2, <3>3, <3>4
  <2> QED BY <2>3 DEF IsInjective
<1>14. Laid'
  BY <1>1, <1>2, <1>7, <1>9, <1>12, <1>13 DEF Laid
<1> QED BY <1>1, <1>4, <1>7, <1>8, <1>14 DEF IInv

LEMMA ClosePaneHolds ==
    ASSUME IInv, NEW p, ClosePane(p)
    PROVE  IInv'
<1> DEFINE i == PlaceOf(p)
<1> DEFINE next == IF i < Len(layout) THEN layout[i + 1] ELSE layout[i - 1]
<1>1. /\ p \in DOMAIN panes /\ Len(layout) > 1
      /\ layout' = RemoveAt(layout, i)
      /\ active_pane' = IF active_pane = p THEN next ELSE active_pane
      /\ panes' = [q \in DOMAIN panes \ {p} |-> panes[q]]
      /\ running_pane' = IF running_pane = p THEN 0 ELSE running_pane
      /\ UNCHANGED <<next_pane, next_tab, session, pending_history, server, outcome, batch>>
  BY DEF ClosePane
<1>2. /\ layout \in Seq(Nat) /\ IsInjective(layout) /\ DOMAIN panes = ToSet(layout)
      /\ next_pane \in Nat /\ next_tab \in Nat /\ session \in Sessions
      /\ \A q \in DOMAIN panes : q \in Nat /\ q < next_pane
      /\ Len(layout) \in Nat /\ DOMAIN layout = 1..Len(layout)
  BY DEF IInv, Laid
<1>3. i \in 1..Len(layout) /\ layout[i] = p
  BY <1>1, PlaceOfIs DEF IInv
<1>4. \A a, b \in DOMAIN layout : layout[a] = layout[b] => a = b
  BY <1>2 DEF IsInjective
<1>5. \A a \in DOMAIN layout : a # i => layout[a] \in DOMAIN panes \ {p}
  BY <1>2, <1>3, <1>4 DEF ToSet
<1> HIDE DEF i
<1>6. next \in DOMAIN panes \ {p}
  <2>1. CASE i < Len(layout)
    BY <1>2, <1>3, <1>5, <2>1
  <2>2. CASE ~(i < Len(layout))
    <3>1. i - 1 \in DOMAIN layout /\ i - 1 # i
      BY <1>1, <1>2, <1>3, <2>2
    <3> QED BY <1>5, <2>2, <3>1
  <2> QED BY <2>1, <2>2
<1> HIDE DEF next
<1>7. /\ DOMAIN panes' = DOMAIN panes \ {p} /\ \A q \in DOMAIN panes' : panes'[q] = panes[q]
  BY <1>1
<1>8. Dealt' /\ sent' = sent /\ batch' = batch
  BY <1>1, NothingSent
<1>9. \A q \in DOMAIN panes' : Good(q, panes'[q], sent', batch')
  BY <1>7, <1>8, Plain
<1>10. /\ layout' \in Seq(Nat) /\ Len(layout') = Len(layout) - 1
       /\ \A k \in 1..(i - 1) : layout'[k] = layout[k]
       /\ \A k \in i..(Len(layout) - 1) : layout'[k] = layout[k + 1]
  BY <1>1, <1>2, <1>3, TakenOut
<1>11. DOMAIN layout' = 1..(Len(layout) - 1)
  BY <1>10
<1>12. ASSUME NEW k \in DOMAIN layout'
       PROVE  \/ k < i /\ k \in DOMAIN layout /\ layout'[k] = layout[k]
              \/ k >= i /\ k + 1 \in DOMAIN layout /\ layout'[k] = layout[k + 1]
  <2>1. \/ k \in 1..(i - 1) /\ k < i /\ k \in DOMAIN layout
        \/ k \in i..(Len(layout) - 1) /\ k >= i /\ k + 1 \in DOMAIN layout
    BY <1>2, <1>3, <1>11
  <2> QED BY <1>10, <2>1
<1>13. \A k \in DOMAIN layout' : k \in Nat
  BY <1>11
<1>14. i \in Nat
  BY <1>3
<1>15. ToSet(layout') = DOMAIN panes'
  <2>1. ASSUME NEW k \in DOMAIN layout' PROVE layout'[k] \in DOMAIN panes'
    <3>1. CASE k < i /\ k \in DOMAIN layout /\ layout'[k] = layout[k]
      BY <1>5, <1>7, <1>13, <1>14, <3>1
    <3>2. CASE k >= i /\ k + 1 \in DOMAIN layout /\ layout'[k] = layout[k + 1]
      <4>1. k + 1 # i
        BY <1>13, <1>14, <3>2
      <4> QED BY <1>5, <1>7, <3>2, <4>1
    <3> QED BY <1>12, <3>1, <3>2
  <2>2. ASSUME NEW q \in DOMAIN panes' PROVE \E k \in DOMAIN layout' : layout'[k] = q
    <3>1. PICK k \in DOMAIN layout : layout[k] = q
      BY <1>2, <1>7 DEF ToSet
    <3>2. k # i
      BY <1>3, <1>7, <3>1
    <3>3. CASE k < i
      <4>1. k \in 1..(i - 1) /\ k \in DOMAIN layout'
        BY <1>2, <1>3, <1>11, <3>3
      <4> QED BY <1>10, <3>1, <4>1
    <3>4. CASE k > i
      <4>1. k - 1 \in i..(Len(layout) - 1) /\ k - 1 \in DOMAIN layout' /\ (k - 1) + 1 = k
        BY <1>2, <1>3, <1>11, <3>4
      <4> QED BY <1>10, <3>1, <4>1
    <3> QED BY <1>2, <1>3, <3>2, <3>3, <3>4
  <2> QED BY <2>1, <2>2 DEF ToSet
<1>16. IsInjective(layout')
  <2>1. ASSUME NEW a \in DOMAIN layout', NEW b \in DOMAIN layout', layout'[a] = layout'[b]
        PROVE  a = b
    <3>1. a \in Nat /\ b \in Nat
      BY <1>13
    <3>2. CASE a < i /\ b < i
      BY <1>4, <1>12, <1>14, <2>1, <3>1, <3>2
    <3>3. CASE a >= i /\ b >= i
      <4>1. a + 1 = b + 1
        BY <1>4, <1>12, <1>14, <2>1, <3>1, <3>3
      <4> QED BY <3>1, <4>1
    <3>4. CASE a < i /\ b >= i
      <4>1. a = b + 1
        BY <1>4, <1>12, <1>14, <2>1, <3>1, <3>4
      <4> QED BY <1>14, <3>1, <3>4, <4>1
    <3>5. CASE a >= i /\ b < i
      <4>1. b = a + 1
        BY <1>4, <1>12, <1>14, <2>1, <3>1, <3>5
      <4> QED BY <1>14, <3>1, <3>5, <4>1
    <3> QED BY <1>14, <3>1, <3>2, <3>3, <3>4, <3>5
  <2> QED BY <2>1 DEF IsInjective
<1>17. active_pane' \in DOMAIN panes'
  BY <1>1, <1>6, <1>7, Plain
<1>18. Laid'
  BY <1>1, <1>2, <1>7, <1>10, <1>15, <1>16, <1>17 DEF Laid
<1>19. running_pane' \in {0} \cup DOMAIN panes'
  BY <1>1, <1>7 DEF IInv
<1> QED BY <1>8, <1>9, <1>18, <1>19 DEF IInv
-----------------------------------------------------------------------------
\* Ranks: what stays is counted from one, in its order.
LEMMA StripIsFinite ==
    ASSUME NEW n \in Nat, NEW S \in SUBSET (1..n)
    PROVE  S \in SUBSET Nat /\ IsFiniteSet(S)
<1>1. IsFiniteSet(1..n)
  BY FS_Interval
<1>2. IsFiniteSet(S)
  BY <1>1, FS_Subset
<1> QED BY <1>2

LEMMA RankGrows ==
    ASSUME NEW S \in SUBSET Nat, IsFiniteSet(S), NEW i \in S, NEW j \in S, i < j
    PROVE  Rank(i, S) < Rank(j, S)
<1> DEFINE below == {k \in S : k <= i}
<1> DEFINE upto == {k \in S : k <= j}
<1>3. IsFiniteSet(upto)
  BY FS_Subset
<1>4. below \subseteq upto /\ j \in upto /\ j \notin below
  <2>1. i \in Nat /\ j \in Nat /\ \A k \in S : k \in Nat
    OBVIOUS
  <2>2. ASSUME NEW k \in S, k <= i PROVE k <= j
    BY <2>1, <2>2
  <2>3. j <= j /\ ~(j <= i)
    BY <2>1
  <2> QED BY <2>2, <2>3
<1>5. IsFiniteSet(below) /\ Cardinality(below) <= Cardinality(upto)
      /\ (Cardinality(upto) = Cardinality(below) => upto = below)
  BY <1>3, <1>4, FS_Subset
<1>6. Cardinality(below) \in Nat /\ Cardinality(upto) \in Nat
  BY <1>3, <1>5, FS_CardinalityType
<1>7. Cardinality(below) # Cardinality(upto)
  BY <1>4, <1>5
<1>8. Rank(i, S) = Cardinality(below) /\ Rank(j, S) = Cardinality(upto)
  BY DEF Rank
<1> HIDE DEF below, upto
<1> QED BY <1>5, <1>6, <1>7, <1>8

LEMMA RankCounts ==
    ASSUME NEW S \in SUBSET Nat, IsFiniteSet(S)
    PROVE  /\ Cardinality(S) \in Nat
           /\ \A i \in S : Rank(i, S) \in 1..Cardinality(S) /\ Nth(Rank(i, S), S) = i
           /\ \A k \in 1..Cardinality(S) : Nth(k, S) \in S /\ Rank(Nth(k, S), S) = k
<1>2. Cardinality(S) \in Nat
  BY FS_CardinalityType
<1>3. ASSUME NEW i \in S PROVE Rank(i, S) \in 1..Cardinality(S)
  <2> DEFINE below == {k \in S : k <= i}
  <2>1. IsFiniteSet(below) /\ Cardinality(below) <= Cardinality(S)
    BY <1>2, FS_Subset
  <2>2. Cardinality(below) \in Nat
    BY <2>1, FS_CardinalityType
  <2>3. i \in below
    OBVIOUS
  <2>4. Cardinality(below) # 0
    BY <2>1, <2>3, FS_EmptySet
  <2>5. Rank(i, S) = Cardinality(below)
    BY DEF Rank
  <2> HIDE DEF below
  <2> QED BY <1>2, <2>1, <2>2, <2>4, <2>5
<1>4. ASSUME NEW i \in S, NEW j \in S, Rank(i, S) = Rank(j, S) PROVE i = j
  <2>1. i \in Nat /\ j \in Nat /\ Rank(i, S) \in Nat
    BY <1>2, <1>3
  <2>2. ~(i < j) /\ ~(j < i)
    BY <1>4, <2>1, RankGrows
  <2> QED BY <2>1, <2>2
<1> DEFINE f == [i \in S |-> Rank(i, S)]
<1>5. f \in Injection(S, 1..Cardinality(S))
  BY <1>3, <1>4 DEF Injection, IsInjective
<1>6. IsFiniteSet(1..Cardinality(S)) /\ Cardinality(1..Cardinality(S)) = Cardinality(S)
  BY <1>2, FS_Interval
<1>7. f \in Surjection(S, 1..Cardinality(S))
  BY <1>5, <1>6, FS_Injection
<1>8. \A k \in 1..Cardinality(S) : \E i \in S : Rank(i, S) = k
  BY <1>7 DEF Surjection
<1>9. \A k \in 1..Cardinality(S) : Nth(k, S) \in S /\ Rank(Nth(k, S), S) = k
  BY <1>8 DEF Nth
<1>10. \A i \in S : Nth(Rank(i, S), S) = i
  BY <1>3, <1>4, <1>9
<1> QED BY <1>2, <1>3, <1>9, <1>10

\* The last of a strip that is not empty, and the first of one.
LEMMA HasEnds ==
    ASSUME NEW S \in SUBSET Nat, IsFiniteSet(S), S # {}
    PROVE  /\ \E i \in S : \A j \in S : i <= j
           /\ \E i \in S : \A j \in S : j <= i
<1>1. \A i \in S : i \in Nat /\ Rank(i, S) \in 1..Cardinality(S)
  BY RankCounts
<1>2. Cardinality(S) \in Nat /\ 1 \in 1..Cardinality(S) /\ Cardinality(S) \in 1..Cardinality(S)
  <2>1. Cardinality(S) \in Nat /\ Cardinality(S) # 0
    BY FS_CardinalityType, FS_EmptySet
  <2> QED BY <2>1
<1>3. PICK a \in S : Rank(a, S) = 1
  BY <1>2, RankCounts
<1>4. PICK z \in S : Rank(z, S) = Cardinality(S)
  BY <1>2, RankCounts
<1>5. ASSUME NEW j \in S PROVE a <= j /\ j <= z
  <2>1. a \in Nat /\ z \in Nat /\ j \in Nat /\ Rank(j, S) \in Nat
        /\ Rank(j, S) >= 1 /\ Rank(j, S) <= Cardinality(S)
    BY <1>1, <1>2
  <2>2. ~(j < a)
    BY <1>3, <2>1, RankGrows
  <2>3. ~(z < j)
    BY <1>2, <1>4, <2>1, RankGrows
  <2> QED BY <2>1, <2>2, <2>3
<1> QED BY <1>5

LEMMA SurvivorStays ==
    ASSUME NEW S \in SUBSET Nat, IsFiniteSet(S), S # {}, NEW active \in Nat
    PROVE  Survivor(active, S) \in S
<1> DEFINE right == {i \in S : i >= active}
<1>1. CASE \E i \in S : i >= active
  <2>1. right \in SUBSET Nat /\ right # {} /\ IsFiniteSet(right)
    BY <1>1, FS_Subset
  <2>2. PICK i \in right : \A j \in right : i <= j
    BY <2>1, HasEnds
  <2>3. \E k \in S : k >= active /\ \A j \in S : j >= active => k <= j
    BY <2>2
  <2> QED BY <1>1, <2>3 DEF Survivor
<1>2. CASE ~\E i \in S : i >= active
  <2>1. \E i \in S : \A j \in S : j <= i
    BY HasEnds
  <2> QED BY <1>2, <2>1 DEF Survivor
<1> QED BY <1>1, <1>2

LEMMA KeptIs ==
    ASSUME NEW n \in Nat, NEW pane \in PaneSet(n), NEW S \in SUBSET DOMAIN pane.tabs,
           NEW survivor \in S
    PROVE  /\ Kept(pane, S, survivor) \in PaneSet(n)
           /\ Kept(pane, S, survivor).active_tab = Rank(survivor, S)
           /\ Kept(pane, S, survivor).queue = pane.queue
           /\ Kept(pane, S, survivor).grid = pane.grid
           /\ Rank(survivor, S) \in DOMAIN Kept(pane, S, survivor).tabs
           /\ Kept(pane, S, survivor).tabs[Rank(survivor, S)] = pane.tabs[survivor]
<1> DEFINE tabs == [k \in 1..Cardinality(S) |-> pane.tabs[Nth(k, S)]]
<1> DEFINE at == Rank(survivor, S)
<1>1. /\ pane.tabs \in Seq(Tabs(n)) /\ pane.queue \in Seq(Planning) /\ pane.results \in Seq(1..n)
      /\ pane.grid \in 0..n
  BY DEF PaneSet
<1>2. DOMAIN pane.tabs = 1..Len(pane.tabs) /\ Len(pane.tabs) \in Nat
  BY <1>1
<1>3. /\ Cardinality(S) \in Nat /\ at \in 1..Cardinality(S) /\ Nth(at, S) = survivor
      /\ \A k \in 1..Cardinality(S) : Nth(k, S) \in S
  <2>1. S \in SUBSET Nat /\ IsFiniteSet(S)
    BY <1>2, StripIsFinite
  <2> QED BY <2>1, RankCounts
<1>4. \A k \in 1..Cardinality(S) : pane.tabs[Nth(k, S)] \in Tabs(n)
  BY <1>1, <1>3
<1>5. tabs \in Seq(Tabs(n)) /\ DOMAIN tabs = 1..Cardinality(S) /\ tabs[at] = pane.tabs[survivor]
  BY <1>3, <1>4
<1> HIDE DEF at
<1>6. PICK old, active, queue, results, grid :
         pane = [tabs |-> old, active_tab |-> active, queue |-> queue, results |-> results,
                 grid |-> grid]
  BY PaneIsRecord
<1>7. Kept(pane, S, survivor) = [[pane EXCEPT !.tabs = tabs] EXCEPT !.active_tab = at]
  BY DEF Kept, at
<1> HIDE DEF tabs
<1>8. [pane EXCEPT !.tabs = tabs] = [tabs |-> tabs, active_tab |-> active, queue |-> queue,
                                     results |-> results, grid |-> grid]
  BY <1>6
<1>9. Kept(pane, S, survivor) = [tabs |-> tabs, active_tab |-> at, queue |-> queue,
                                 results |-> results, grid |-> grid]
  BY <1>7, <1>8
<1>10. at \in Nat
  BY <1>3
<1>11. Kept(pane, S, survivor) \in PaneSet(n)
  BY <1>1, <1>5, <1>6, <1>9, <1>10 DEF PaneSet
<1> QED BY <1>3, <1>5, <1>6, <1>9, <1>11 DEF at

LEMMA CloseTabsHolds ==
    ASSUME IInv, NEW doomed, CloseTabs(doomed)
    PROVE  IInv'
<1> DEFINE staying == DOMAIN Shown.tabs \ doomed
<1> DEFINE survivor == Survivor(Shown.active_tab, staying)
<1> DEFINE kept == Kept(Shown, staying, survivor)
<1>1. /\ staying # {} /\ UNCHANGED <<layout, active_pane, next_pane, next_tab>>
      /\ \/ /\ survivor = Shown.active_tab /\ panes' = [panes EXCEPT ![active_pane] = kept]
            /\ UNCHANGED <<session, running_pane, pending_history, server, outcome, batch>>
         \/ ShowTab(kept, Rank(survivor, staying))
  BY DEF CloseTabs
<1>2. /\ Shown \in PaneSet(Len(sent)) /\ Shown.active_tab \in Nat
      /\ Shown.tabs \in Seq(Tabs(Len(sent)))
  BY ShownIs DEF PaneSet
<1>3. survivor \in staying
  <2>1. staying \in SUBSET (1..Len(Shown.tabs)) /\ Len(Shown.tabs) \in Nat
    BY <1>2
  <2>2. staying \in SUBSET Nat /\ IsFiniteSet(staying)
    BY <2>1, StripIsFinite
  <2> QED BY <1>1, <1>2, <2>2, SurvivorStays
<1>4. staying \in SUBSET DOMAIN Shown.tabs
  OBVIOUS
<1> HIDE DEF staying, survivor
<1>5. /\ kept \in PaneSet(Len(sent)) /\ kept.active_tab = Rank(survivor, staying)
      /\ kept.queue = Shown.queue /\ kept.grid = Shown.grid
      /\ Rank(survivor, staying) \in DOMAIN kept.tabs
      /\ kept.tabs[Rank(survivor, staying)] = Shown.tabs[survivor]
  BY <1>2, <1>3, <1>4, Plain, KeptIs
<1> HIDE DEF kept
<1>6. Waits(active_pane, kept, sent, batch)
  BY <1>5, ShownIs DEF Waits
<1>7. next_tab' \in Nat
  BY <1>1 DEF IInv, Laid
<1>8. CASE /\ survivor = Shown.active_tab /\ panes' = [panes EXCEPT ![active_pane] = kept]
           /\ UNCHANGED <<session, running_pane, pending_history, server, outcome, batch>>
  <2>1. HasTab(kept) /\ Active(kept) = Active(Shown)
    BY <1>5, <1>8 DEF HasTab, Active
  <2>2. Good(active_pane, kept, sent, batch)
    BY <1>5, <1>6, <2>1, ShownIs DEF Good, Whole, Drawn
  <2>3. DOMAIN panes' = DOMAIN panes /\ \A p \in DOMAIN panes : Good(p, panes'[p], sent', batch')
    BY <1>8, <2>2, Plain, NothingSent, OneChanges
  <2>4. Dealt' /\ session' \in Sessions
    BY <1>8, NothingSent, Plain
  <2> QED BY <1>1, <1>7, <1>8, <2>3, <2>4, Stays
<1>9. CASE ShowTab(kept, Rank(survivor, staying))
  <2>1. /\ Dealt' /\ DOMAIN panes' = DOMAIN panes
        /\ running_pane' \in {running_pane, active_pane} /\ session' \in Sessions
        /\ \A p \in DOMAIN panes : Good(p, panes'[p], sent', batch')
    BY <1>5, <1>6, <1>9, ShowTabHolds
  <2> QED BY <1>1, <1>7, <2>1, Plain, Stays
<1> QED BY <1>1, <1>8, <1>9
-----------------------------------------------------------------------------
LEMMA InitHolds ==
    ASSUME Init
    PROVE  IInv
<1> DEFINE first == [i \in DOMAIN InitTabs |-> NewTab(i, InitTabs[i].kind, InitTabs[i].session)]
<1> DEFINE new == NewPane(first)
<1>1. /\ panes = [p \in {1} |-> new] /\ layout = <<1>> /\ active_pane = 1 /\ next_pane = 2
      /\ next_tab = Len(InitTabs) + 1 /\ session = InitTabs[1].session
      /\ running_pane = 0 /\ pending_history = 0 /\ slot = [s \in Sessions |-> Idle]
      /\ sent = <<>> /\ outcome = <<>> /\ batch = 0
  BY DEF Init
<1>2. InitTabs \in Seq([kind : Kinds, session : Sessions]) /\ InitTabs # <<>>
  BY WindowAssumption
<1>3. /\ DOMAIN InitTabs = 1..Len(InitTabs) /\ Len(InitTabs) \in Nat /\ 1 \in DOMAIN InitTabs
      /\ \A i \in DOMAIN InitTabs : InitTabs[i] \in [kind : Kinds, session : Sessions]
  <2> DEFINE Made == [kind : Kinds, session : Sessions]
  <2>1. InitTabs \in Seq(Made)
    BY <1>2
  <2> HIDE DEF Made
  <2>2. /\ DOMAIN InitTabs = 1..Len(InitTabs) /\ Len(InitTabs) \in Nat /\ Len(InitTabs) # 0
        /\ \A i \in DOMAIN InitTabs : InitTabs[i] \in Made
    BY <1>2, <2>1, EmptySeq
  <2> QED BY <2>2 DEF Made
<1>4. \A i \in DOMAIN InitTabs : InitTabs[i].kind \in Kinds /\ InitTabs[i].session \in Sessions
  BY <1>3
<1>5. \A i \in DOMAIN InitTabs : NewTab(i, InitTabs[i].kind, InitTabs[i].session) \in Tabs(0)
  BY <1>3, <1>4 DEF NewTab, Tabs
<1>6. first \in Seq(Tabs(0)) /\ DOMAIN first = DOMAIN InitTabs
  BY <1>3, <1>5
<1> HIDE DEF first
<1>7. new = [tabs |-> first, active_tab |-> 1, queue |-> <<>>, results |-> <<>>, grid |-> 0]
  BY DEF NewPane
<1> HIDE DEF new
<1>8. <<>> \in Seq(Statements) /\ Len(<<>>) = 0 /\ <<>> \in Seq(Planning) /\ <<>> \in Seq(1..0)
  OBVIOUS
<1>9. new \in PaneSet(0) /\ HasTab(new)
  BY <1>3, <1>6, <1>7, <1>8 DEF PaneSet, HasTab
<1>10. sent \in Seq(Statements) /\ Len(sent) = 0 /\ DOMAIN sent = {}
  BY <1>1, <1>8
<1>11. DOMAIN panes = {1} /\ \A p \in DOMAIN panes : Good(p, panes[p], sent, batch)
  <2>1. DOMAIN panes = {1} /\ panes[1] = new
    BY <1>1
  <2>2. Good(1, new, sent, batch)
    BY <1>7, <1>9, <1>10, EmptyIsGood
  <2> QED BY <2>1, <2>2
<1>12. Told(sent, outcome)
  BY <1>1, <1>10 DEF Told
<1>13. Theirs(slot, sent)
  <2>1. Idle \in Slots(0) /\ Idle.stmt = 0 /\ Idle.superseding = 0
    BY DEF Idle, Slots
  <2> QED BY <1>1, <1>10, <2>1 DEF Theirs
<1>14. InOrder(sent, batch) /\ pending_history \in 0..Len(sent)
  BY <1>1, <1>10 DEF InOrder
<1>15. Laid
  <2>1. layout \in Seq(Nat) /\ IsInjective(layout) /\ DOMAIN panes = ToSet(layout)
    BY <1>1, <1>11 DEF IsInjective, ToSet
  <2>2. next_tab \in Nat /\ session \in Sessions
    BY <1>1, <1>3, <1>4
  <2> QED BY <1>1, <1>11, <2>1, <2>2 DEF Laid
<1> QED BY <1>1, <1>11, <1>12, <1>13, <1>14, <1>15 DEF IInv, Dealt

LEMMA NextHolds ==
    ASSUME IInv, [Next]_vars
    PROVE  IInv'
<1>1. CASE UNCHANGED vars
  <2>1. UNCHANGED <<panes, layout, active_pane, next_pane, next_tab, session, running_pane,
                    pending_history, slot, sent, outcome, batch>>
    BY <1>1 DEF vars, places, server
  <2> QED BY <2>1 DEF IInv, Dealt, Laid, Told, Theirs, InOrder
<1>2. ASSUME NEW n \in 1..MaxScript, Run(n) PROVE IInv'
  <2>1. n \in Nat \ {0}
    BY WindowAssumption
  <2> QED BY <1>2, <2>1, RunHolds
<1>3. ASSUME NEW i \in 1..MaxTabs, ClickTab(i) PROVE IInv'
  BY <1>3, ClickTabHolds
<1>4. ASSUME NEW kind \in Kinds, OpenTab(kind) PROVE IInv'
  BY <1>4, OpenTabHolds
<1>5. ASSUME NEW doomed \in SUBSET (1..MaxTabs), CloseTabs(doomed) PROVE IInv'
  BY <1>5, CloseTabsHolds
<1>6. CASE Cancel
  BY <1>6, CancelHolds
<1>7. CASE CloseLastTabs
  BY <1>7, CloseLastTabsHolds
<1>8. CASE SplitPane
  BY <1>8, SplitPaneHolds
<1>9. ASSUME NEW p \in 1..MaxPanes, ActivatePane(p) \/ ClosePane(p) PROVE IInv'
  BY <1>9, ActivatePaneHolds, ClosePaneHolds
<1>10. ASSUME NEW s \in Sessions, Answer(s) \/ Land(s) PROVE IInv'
  BY <1>10, AnswerHolds, LandSupersededHolds, LandNowhereHolds, LandHereHolds DEF Land
<1> QED BY <1>1, <1>2, <1>3, <1>4, <1>5, <1>6, <1>7, <1>8, <1>9, <1>10 DEF Next

\* Every state of a window is of this shape.
THEOREM Invariance == Spec => []IInv
<1>1. Init => IInv
  BY InitHolds
<1>2. IInv /\ [Next]_vars => IInv'
  BY NextHolds
<1> QED BY <1>1, <1>2, PTL DEF Spec

LEMMA IInvIsTyped ==
    ASSUME IInv
    PROVE  TypeOK
<1>1. /\ DOMAIN panes = ToSet(layout) /\ IsInjective(layout) /\ active_pane \in DOMAIN panes
      /\ running_pane \in {0} \cup DOMAIN panes /\ pending_history \in 0..Len(sent)
      /\ session \in Sessions
  BY DEF IInv, Laid, Dealt
<1>2. \A p \in DOMAIN panes : panes[p] \in PaneSet(Len(sent))
  BY Plain DEF Good, Whole
<1>3. slot \in [Sessions -> Slots(Len(sent))]
  BY Plain DEF Theirs
<1>4. sent \in Seq(Statements) /\ outcome \in Seq(Outcomes(Len(sent))) /\ Len(outcome) = Len(sent)
  BY Plain DEF Told
<1> QED BY <1>1, <1>2, <1>3, <1>4 DEF TypeOK, PaneSet, Tabs, Tab, Slots, Statements, Outcomes

LEMMA IInvDrawsItsOwn ==
    ASSUME IInv
    PROVE  RowsFromTheirSession
BY Plain DEF RowsFromTheirSession, Good, Whole, Drawn

LEMMA IInvKeepsOrder ==
    ASSUME IInv
    PROVE  ScriptsDoNotInterleave
BY Plain DEF ScriptsDoNotInterleave, InOrder, Before

\* The panes and what is sent of them are what workspace.rs declares, however
\* many panes, tabs and statements there are: every pane is in the layout once,
\* and every slot, row and history entry is of a statement that was sent.
THEOREM TypeCorrect == Spec => []TypeOK
<1>1. IInv => TypeOK
  BY IInvIsTyped
<1> QED BY <1>1, Invariance, PTL

\* No rows are drawn under a query tab of another session (workspace.rs,
\* nowhere_to_land): what a pane shows came from the session of the tab in
\* front, through every click, close, split and late answer.
THEOREM RowsAreTheTabs == Spec => []RowsFromTheirSession
<1>1. IInv => RowsFromTheirSession
  BY IInvDrawsItsOwn
<1> QED BY <1>1, Invariance, PTL

\* What a pane sends only moves forward: no script's statement goes out
\* between the statements of another of the same pane (workspace.rs, run).
THEOREM ScriptsKeepApart == Spec => []ScriptsDoNotInterleave
<1>1. IInv => ScriptsDoNotInterleave
  BY IInvKeepsOrder
<1> QED BY <1>1, Invariance, PTL

\* The three together: what the run of one and two windows checks.
THEOREM WindowIsInOrder == Spec => []WindowHolds
<1>1. IInv => WindowHolds
  BY IInvIsTyped, IInvDrawsItsOwn, IInvKeepsOrder DEF WindowHolds, RowsInOrder
<1> QED BY <1>1, Invariance, PTL
=============================================================================
