--------------------------- MODULE AdminPanel_proofs ---------------------------
(***************************************************************************)
(* Proofs about AdminPanel, for any rows and filters and any number of     *)
(* clicks: what SlotsExplained and FreshList say holds however many        *)
(* changes, filters and reads of the table are under way together, and a   *)
(* click is good for one change and one read of the table.                 *)
(***************************************************************************)
EXTENDS AdminPanel, FiniteSetTheorems, TLAPS

(* Types.  How far the counters go comes last, in Bounded. *)

Op == [id : Nat, kind : UserChanges, row : Row \cup {Form}, filter : Filters,
       age : Nat, made : Nat, reading : BOOLEAN]

ALoad == [n : Nat, op : Nat, filter : Filters, age : Nat, seen : Int]

Types ==
  /\ panel \in {"users", "roles"}
  /\ rows \in [n : Nat, seen : Int, filter : Filters, age : Nat]
  /\ listError \in BOOLEAN
  /\ slot \in [Slots -> AnyRow]
  /\ editing \in AnyRow
  /\ options \in BOOLEAN
  /\ filters \in Filters
  /\ ops \in SUBSET Op
  /\ loads \in SUBSET ALoad
  /\ version \in Nat /\ clicks \in Nat /\ begun \in Nat /\ applies \in Nat
  /\ acked \in Nat /\ newest \in Nat
  /\ mixed \in SUBSET Slots

(* In a slot where different rows have not met there is one change at most,   *)
(* and the slot names its row.                                                *)
SlotNamesRow ==
  \A s \in Slots : s \notin mixed =>
    \A o \in ops : SlotOf(o.kind) = s => slot[s] = o.row

SlotsInv == SlotsExplained /\ SlotNamesRow

LEMMA SlotsOfKinds == \A kind \in UserChanges : SlotOf(kind) \in Slots
  BY DEF UserChanges, SlotOf, Slots

-----------------------------------------------------------------------------
LEMMA InitTypes == Init => Types
<1> SUFFICES ASSUME Init PROVE Types
  OBVIOUS
<1>1. [n |-> 1, op |-> 0, filter |-> NoFilter, age |-> 0, seen |-> Unread] \in ALoad
  BY DEF ALoad, Filters, Unread
<1>2. loads \in SUBSET ALoad
  BY <1>1 DEF Init
<1>3. rows \in [n : Nat, seen : Int, filter : Filters, age : Nat]
  BY DEF Init, Nothing, Filters
<1>4. slot \in [Slots -> AnyRow]
  BY DEF Init, AnyRow
<1> QED BY <1>2, <1>3, <1>4 DEF Init, Types, Filters, AnyRow

LEMMA LoadTypes ==
  ASSUME Types, NEW op \in Nat, NEW captured \in Filters, NEW age \in Nat,
         Load(op, captured, age)
  PROVE  loads' \in SUBSET ALoad /\ listError' \in BOOLEAN /\ begun' \in Nat
<1> DEFINE new == [n |-> begun + 1, op |-> op, filter |-> captured, age |-> age,
                   seen |-> Unread]
<1>1. new \in ALoad
  BY DEF ALoad, Unread, Types
<1>2. loads' = loads \cup {new} /\ listError' = FALSE /\ begun' = begun + 1
  BY DEF Load, FilterOf
<1>3. loads \in SUBSET ALoad /\ begun \in Nat
  BY DEF Types
<1> HIDE DEF new
<1>4. loads' \in SUBSET ALoad
  BY <1>1, <1>2, <1>3
<1>5. listError' \in BOOLEAN
  BY <1>2
<1>6. begun' \in Nat
  BY <1>2, <1>3
<1> QED BY <1>4, <1>5, <1>6

LEMMA TypesStep ==
  ASSUME Types, [Next]_vars
  PROVE  Types'
<1> USE DEF Types
<1>1. ASSUME NEW kind \in UserChanges, NEW row \in Row \cup {Form}, Click(kind, row)
      PROVE  Types'
  <2>1. [id |-> clicks + 1, kind |-> kind, row |-> row, filter |-> filters,
         age |-> applies, made |-> 0, reading |-> FALSE] \in Op
    BY <1>1 DEF Op
  <2>2. ops' \in SUBSET Op
    BY <1>1, <2>1 DEF Click
  <2>3. slot' \in [Slots -> AnyRow] /\ mixed' \in SUBSET Slots
    BY <1>1, SlotsOfKinds DEF Click, Take, AnyRow
  <2> QED BY <1>1, <2>2, <2>3 DEF Click
<1>2. ASSUME NEW o \in ops, Make(o) PROVE Types'
  <2>1. [o EXCEPT !.made = version + 1] \in Op
    BY DEF Op
  <2>2. ops' \in SUBSET Op
    BY <1>2, <2>1 DEF Make
  <2> QED BY <1>2, <2>2 DEF Make, screen
<1>3. ASSUME NEW o \in ops, Answered(o) PROVE Types'
  <2>1. o \in Op
    OBVIOUS
  <2>2. [o EXCEPT !.reading = TRUE] \in Op
    BY <2>1 DEF Op
  <2>3. ops' \in SUBSET Op
    BY <1>3, <2>2 DEF Answered
  <2>4. Load(o.id, o.filter, o.age) /\ o.id \in Nat /\ o.filter \in Filters /\ o.age \in Nat
    BY <1>3, <2>1 DEF Answered, Op
  <2>5. loads' \in SUBSET ALoad /\ listError' \in BOOLEAN /\ begun' \in Nat
    BY <2>4, LoadTypes
  <2>6. acked' \in Nat /\ editing' \in AnyRow
    BY <1>3, <2>1 DEF Answered, Op, AnyRow
  <2> QED BY <1>3, <2>3, <2>5, <2>6 DEF Answered, KeepBusy
<1>4. ASSUME NEW o \in ops, Finish(o)
      PROVE  /\ ops' \in SUBSET Op /\ slot' \in [Slots -> AnyRow]
             /\ mixed' \in SUBSET Slots
  BY <1>4, SlotsOfKinds DEF Finish, AnyRow, Op
<1>5. ASSUME NEW o \in ops, ChangeFails(o) PROVE Types'
  BY <1>4, <1>5 DEF ChangeFails
<1>6. CASE Apply
  <2>1. PICK f \in Filter : filters' = f /\ Load(0, f, applies + 1)
    BY <1>6 DEF Apply
  <2>2. f \in Filters
    BY DEF Filters
  <2>3. loads' \in SUBSET ALoad /\ listError' \in BOOLEAN /\ begun' \in Nat
    BY <2>1, <2>2, LoadTypes
  <2> QED BY <1>6, <2>1, <2>2, <2>3 DEF Apply
<1>7. ASSUME NEW l \in loads, Read(l) PROVE Types'
  <2>1. [l EXCEPT !.seen = version] \in ALoad
    BY DEF ALoad
  <2>2. loads' \in SUBSET ALoad
    BY <1>7, <2>1 DEF Read
  <2> QED BY <1>7, <2>2 DEF Read, screen
<1>8. ASSUME NEW l \in loads, LoadEnds(l)
      PROVE  /\ loads' \in SUBSET ALoad /\ ops' \in SUBSET Op
             /\ slot' \in [Slots -> AnyRow] /\ mixed' \in SUBSET Slots
  BY <1>4, <1>8 DEF LoadEnds
<1>9. ASSUME NEW l \in loads, Loaded(l) PROVE Types'
  <2>1. rows' \in [n : Nat, seen : Int, filter : Filters, age : Nat] /\ newest' \in Nat
    BY <1>9 DEF Loaded, ALoad
  <2>2. LoadEnds(l)
    BY <1>9 DEF Loaded
  <2> QED BY <1>8, <1>9, <2>1, <2>2 DEF Loaded
<1>10. ASSUME NEW l \in loads, LoadFails(l) PROVE Types'
  <2>1. LoadEnds(l)
    BY <1>10 DEF LoadFails
  <2> QED BY <1>8, <1>10, <2>1 DEF LoadFails
<1>11. CASE OptionsLoaded
  BY <1>11 DEF OptionsLoaded, calls
<1>12. ASSUME NEW row \in Row, EditStart(row) PROVE Types'
  BY <1>12 DEF EditStart, calls, AnyRow
<1>13. CASE EditCancel
  BY <1>13 DEF EditCancel, calls, AnyRow
<1>14. CASE UNCHANGED vars
  BY <1>14 DEF vars, screen, calls
<1> QED
  BY <1>1, <1>2, <1>3, <1>5, <1>6, <1>7, <1>9, <1>10, <1>11, <1>12, <1>13, <1>14
  DEF Next, Change

-----------------------------------------------------------------------------
(* The slots. *)

LEMMA InitSlots == Init => SlotsInv
  BY DEF Init, SlotsInv, SlotsExplained, SlotNamesRow, Slots

(* A change that begins or goes on: the others stay as they are. *)

LEMMA ClickSlots ==
  ASSUME Types, SlotsInv, NEW kind \in UserChanges, NEW row \in Row \cup {Form},
         Click(kind, row)
  PROVE  SlotsInv'
<1> DEFINE k == SlotOf(kind)
           new == [id |-> clicks + 1, kind |-> kind, row |-> row, filter |-> filters,
                   age |-> applies, made |-> 0, reading |-> FALSE]
<1>1. k \in Slots /\ slot[k] # row /\ slot' = [slot EXCEPT ![k] = row]
  BY SlotsOfKinds DEF Click, ButtonShown, Take
<1>2. ops' = ops \cup {new} /\ new.kind = kind /\ new.row = row
  BY DEF Click
<1>3. mixed' = IF \E o \in ops : SlotOf(o.kind) = k /\ o.row # row
               THEN mixed \cup {k} ELSE mixed
  BY DEF Click, Take, Running
<1>4. slot'[k] = row /\ \A s \in Slots \ {k} : slot'[s] = slot[s]
  BY <1>1 DEF Types
<1> HIDE DEF k, new
<1>5. SlotOf(new.kind) = k
  BY <1>2 DEF k
<1>6. ASSUME NEW s \in Slots, s \notin mixed' PROVE s \notin mixed
  BY <1>3, <1>6
<1>7. ASSUME k \notin mixed' PROVE \A o \in ops : SlotOf(o.kind) # k
  <2>1. \A o \in ops : SlotOf(o.kind) = k => o.row = row
    BY <1>3, <1>7
  <2>2. \A o \in ops : SlotOf(o.kind) = k => slot[k] = o.row
    BY <1>1, <1>6, <1>7 DEF SlotsInv, SlotNamesRow
  <2> QED BY <1>1, <2>1, <2>2
<1>8. SlotNamesRow'
  BY <1>2, <1>4, <1>5, <1>6, <1>7 DEF SlotsInv, SlotNamesRow
<1>9. SlotsExplained'
  <2> SUFFICES ASSUME NEW s \in Slots
               PROVE  /\ slot'[s] # NoRow => \E o \in ops' : SlotOf(o.kind) = s /\ o.row = slot'[s]
                      /\ s \notin mixed' => \A o1, o2 \in {o \in ops' : SlotOf(o.kind) = s} : o1 = o2
    BY DEF SlotsExplained
  <2>1. CASE s = k
    BY <1>2, <1>4, <1>5, <1>7, <2>1
  <2>2. CASE s # k
    BY <1>2, <1>4, <1>5, <1>6, <2>2 DEF SlotsInv, SlotsExplained
  <2> QED BY <2>1, <2>2
<1> QED BY <1>8, <1>9 DEF SlotsInv

LEMMA SameSlots ==
  ASSUME SlotsInv, NEW o \in ops, NEW p, p.kind = o.kind, p.row = o.row,
         ops' = (ops \ {o}) \cup {p}, UNCHANGED <<slot, mixed>>
  PROVE  SlotsInv'
  BY DEF SlotsInv, SlotsExplained, SlotNamesRow

LEMMA FinishSlots ==
  ASSUME Types, SlotsInv, NEW o \in ops, Finish(o)
  PROVE  SlotsInv'
<1> DEFINE k == SlotOf(o.kind)
<1>1. k \in Slots
  BY SlotsOfKinds DEF Types, Op
<1>2. /\ ops' = ops \ {o}
      /\ slot' = [slot EXCEPT ![k] = NoRow]
      /\ mixed' = IF Running(k) = {o} THEN mixed \ {k} ELSE mixed
  BY DEF Finish
<1>3. slot'[k] = NoRow /\ \A s \in Slots \ {k} : slot'[s] = slot[s]
  BY <1>1, <1>2 DEF Types
<1>4. o \in Running(k) /\ Running(k) \subseteq ops
  BY DEF Running
<1>5. \A p \in ops : SlotOf(p.kind) = k <=> p \in Running(k)
  BY DEF Running
<1> HIDE DEF k
<1>6. ASSUME k \notin mixed' PROVE \A p \in ops' : SlotOf(p.kind) # k
  <2>1. CASE Running(k) = {o}
    BY <1>2, <1>5, <2>1
  <2>2. CASE Running(k) # {o}
    <3>1. k \notin mixed
      BY <1>2, <1>6, <2>2
    <3>2. \A p \in Running(k) : p = o
      BY <1>1, <1>4, <3>1 DEF SlotsInv, SlotsExplained, Running
    <3> QED BY <1>4, <2>2, <3>2
  <2> QED BY <2>1, <2>2
<1>7. \A s \in Slots \ {k} : s \notin mixed' => s \notin mixed
  BY <1>2
<1>8. SlotOf(o.kind) = k
  BY DEF k
<1>9. SlotNamesRow'
  BY <1>2, <1>3, <1>6, <1>7 DEF SlotsInv, SlotNamesRow
<1>10. SlotsExplained'
  <2> SUFFICES ASSUME NEW s \in Slots
               PROVE  /\ slot'[s] # NoRow => \E p \in ops' : SlotOf(p.kind) = s /\ p.row = slot'[s]
                      /\ s \notin mixed' => \A o1, o2 \in {p \in ops' : SlotOf(p.kind) = s} : o1 = o2
    BY DEF SlotsExplained
  <2>1. CASE s = k
    BY <1>3, <1>6, <2>1
  <2>2. CASE s # k
    BY <1>2, <1>3, <1>7, <1>8, <2>2 DEF SlotsInv, SlotsExplained
  <2> QED BY <2>1, <2>2
<1> QED BY <1>9, <1>10 DEF SlotsInv

LEMMA UntouchedSlots ==
  ASSUME SlotsInv, UNCHANGED <<ops, slot, mixed>>
  PROVE  SlotsInv'
  BY DEF SlotsInv, SlotsExplained, SlotNamesRow

LEMMA LoadEndsSlots ==
  ASSUME Types, SlotsInv, NEW l \in loads, LoadEnds(l)
  PROVE  SlotsInv'
<1>1. CASE l.op = 0
  BY <1>1, UntouchedSlots DEF LoadEnds
<1>2. CASE l.op # 0
  BY <1>2, FinishSlots DEF LoadEnds
<1> QED BY <1>1, <1>2

LEMMA SlotsStep ==
  ASSUME Types, SlotsInv, [Next]_vars
  PROVE  SlotsInv'
<1>1. ASSUME NEW o \in ops, Make(o) PROVE SlotsInv'
  BY <1>1, SameSlots DEF Make, screen, Types, Op
<1>2. ASSUME NEW o \in ops, Answered(o) PROVE SlotsInv'
  BY <1>2, SameSlots DEF Answered, KeepBusy, Types, Op
<1>3. ASSUME NEW o \in ops, ChangeFails(o) PROVE SlotsInv'
  BY <1>3, FinishSlots DEF ChangeFails
<1>4. CASE Apply
  BY <1>4, UntouchedSlots DEF Apply
<1>5. ASSUME NEW l \in loads, Read(l) PROVE SlotsInv'
  BY <1>5, UntouchedSlots DEF Read, screen
<1>6. ASSUME NEW l \in loads, Loaded(l) \/ LoadFails(l) PROVE SlotsInv'
  BY <1>6, LoadEndsSlots DEF Loaded, LoadFails
<1>7. CASE OptionsLoaded \/ EditCancel \/ \E row \in Row : EditStart(row)
  BY <1>7, UntouchedSlots DEF OptionsLoaded, EditCancel, EditStart, calls
<1>8. CASE UNCHANGED vars
  BY <1>8, UntouchedSlots DEF vars, screen, calls
<1> QED
  BY <1>1, <1>2, <1>3, <1>4, <1>5, <1>6, <1>7, <1>8, ClickSlots DEF Next, Change

(* The buttons of a row start one change at a time unless different rows met  *)
(* in the slot, and none stays disabled once the changes have ended.          *)
THEOREM ButtonsRecover == Spec => []SlotsExplained
<1>1. Types /\ SlotsInv /\ [Next]_vars => (Types /\ SlotsInv)'
  BY TypesStep, SlotsStep
<1>2. SlotsInv => SlotsExplained
  BY DEF SlotsInv
<1> QED BY <1>1, <1>2, InitTypes, InitSlots, PTL DEF Spec

-----------------------------------------------------------------------------
(* The table.  Reads are numbered and begin after the answer whose change     *)
(* they are to show, so from some number on every read sees what the panel    *)
(* was told of; and while no such read has been answered, one is under way or *)
(* to come, or an error is shown.                                             *)

\* what was read at the age of the filters applied was read with them
Aged(x) == x.age <= applies /\ (x.age = applies => x.filter = filters)

AgeInv == Aged(rows) /\ (\A o \in ops : Aged(o)) /\ (\A l \in loads : Aged(l))

NumInv ==
  /\ \A o \in ops : 1 <= o.id /\ o.id <= clicks /\ o.made <= version
  /\ \A o1, o2 \in ops : o1.id = o2.id => o1 = o2
  /\ \A l \in loads : l.n <= begun /\ l.op <= clicks
  /\ \A l \in loads, o \in ops : o.id = l.op => o.reading
  /\ newest <= begun /\ rows.n <= newest /\ acked <= version

FreshFrom(b) ==
  /\ b <= begun
  /\ \A l \in loads : l.n >= b /\ l.seen # Unread => l.seen >= acked
  /\ newest >= b /\ rows.n = newest => rows.seen >= acked
  /\ newest < b => \/ listError
                   \/ \E o \in ops : o.kind # "create" /\ ~ o.reading
                   \/ \E l \in loads : l.n >= b

TableInv == AgeInv /\ NumInv /\ \E b \in Nat : FreshFrom(b)

LEMMA InitTable == Init => TableInv
<1> SUFFICES ASSUME Init PROVE TableInv
  OBVIOUS
<1>1. AgeInv
  BY DEF Init, AgeInv, Aged, Nothing
<1>2. NumInv
  BY DEF Init, NumInv, Nothing
<1>3. FreshFrom(0)
  BY DEF Init, FreshFrom, Nothing, Unread
<1> QED BY <1>1, <1>2, <1>3 DEF TableInv

LEMMA ClickTable ==
  ASSUME Types, TableInv, NEW kind \in UserChanges, NEW row \in Row \cup {Form},
         Click(kind, row)
  PROVE  TableInv'
<1> DEFINE new == [id |-> clicks + 1, kind |-> kind, row |-> row, filter |-> filters,
                   age |-> applies, made |-> 0, reading |-> FALSE]
<1>1. /\ new.id = clicks + 1 /\ new.kind = kind /\ new.filter = filters
      /\ new.age = applies /\ new.made = 0 /\ new.reading = FALSE
  OBVIOUS
<1>2. /\ ops' = ops \cup {new} /\ clicks' = clicks + 1
      /\ UNCHANGED <<rows, filters, loads, version, begun, applies, acked, newest>>
  BY DEF Click
<1>3. listError' = (listError /\ kind = "create")
  BY DEF Click
<1>4. \A o \in ops : o \in Op
  BY DEF Types
<1>5. \A l \in loads : l \in ALoad
  BY DEF Types
<1>6. clicks \in Nat /\ version \in Nat /\ applies \in Nat
  BY DEF Types
<1> HIDE DEF new
<1>7. AgeInv'
  BY <1>1, <1>2, <1>6 DEF TableInv, AgeInv, Aged
<1>8. NumInv'
  BY <1>1, <1>2, <1>4, <1>5, <1>6 DEF TableInv, NumInv, Op, ALoad
<1>9. PICK b \in Nat : FreshFrom(b)
  BY DEF TableInv
<1>10. newest < b => \/ listError'
                     \/ \E o \in ops' : o.kind # "create" /\ ~ o.reading
                     \/ \E l \in loads' : l.n >= b
  <2>1. CASE kind = "create"
    BY <1>2, <1>3, <1>9, <2>1 DEF FreshFrom
  <2>2. CASE kind # "create"
    BY <1>1, <1>2, <2>2
  <2> QED BY <2>1, <2>2
<1>11. FreshFrom(b)'
  BY <1>2, <1>9, <1>10 DEF FreshFrom
<1> QED BY <1>7, <1>8, <1>11 DEF TableInv

LEMMA MakeTable ==
  ASSUME Types, TableInv, NEW o \in ops, Make(o)
  PROVE  TableInv'
<1> DEFINE new == [o EXCEPT !.made = version + 1]
<1>1. \A p \in ops : p \in Op
  BY DEF Types
<1>2. /\ new.id = o.id /\ new.kind = o.kind /\ new.filter = o.filter /\ new.age = o.age
      /\ new.made = version + 1 /\ new.reading = o.reading
  BY <1>1 DEF Op
<1>3. /\ ops' = (ops \ {o}) \cup {new} /\ version' = version + 1
      /\ UNCHANGED <<rows, listError, filters, loads, clicks, begun, applies, acked, newest>>
  BY DEF Make, screen
<1>4. clicks \in Nat /\ version \in Nat /\ applies \in Nat /\ acked \in Nat
  BY DEF Types
<1> HIDE DEF new
<1>5. AgeInv'
  BY <1>2, <1>3, <1>4 DEF TableInv, AgeInv, Aged
<1>6. NumInv'
  BY <1>1, <1>2, <1>3, <1>4 DEF TableInv, NumInv, Op
<1>7. PICK b \in Nat : FreshFrom(b)
  BY DEF TableInv
<1>8. (\E p \in ops : p.kind # "create" /\ ~ p.reading) =>
        \E p \in ops' : p.kind # "create" /\ ~ p.reading
  BY <1>2, <1>3
<1>9. FreshFrom(b)'
  BY <1>3, <1>7, <1>8 DEF FreshFrom
<1> QED BY <1>5, <1>6, <1>9 DEF TableInv

LEMMA AnsweredTable ==
  ASSUME Types, TableInv, NEW o \in ops, Answered(o)
  PROVE  TableInv'
<1> DEFINE told == [o EXCEPT !.reading = TRUE]
           new == [n |-> begun + 1, op |-> o.id, filter |-> o.filter, age |-> o.age,
                   seen |-> Unread]
<1>1. \A p \in ops : p \in Op
  BY DEF Types
<1>2. \A l \in loads : l \in ALoad
  BY DEF Types
<1>3. /\ told.id = o.id /\ told.filter = o.filter /\ told.age = o.age
      /\ told.made = o.made /\ told.reading = TRUE
  BY <1>1 DEF Op
<1>4. /\ new.n = begun + 1 /\ new.op = o.id /\ new.filter = o.filter /\ new.age = o.age
      /\ new.seen = Unread
  OBVIOUS
<1>5. /\ ops' = (ops \ {o}) \cup {told} /\ loads' = loads \cup {new} /\ begun' = begun + 1
      /\ acked' = (IF o.made > acked THEN o.made ELSE acked)
      /\ UNCHANGED <<rows, filters, version, clicks, applies, newest>>
  BY DEF Answered, Load, FilterOf
<1>6. /\ clicks \in Nat /\ version \in Nat /\ applies \in Nat /\ acked \in Nat
      /\ begun \in Nat /\ newest \in Nat
  BY DEF Types
<1> HIDE DEF told, new
<1>7. AgeInv'
  BY <1>3, <1>4, <1>5, <1>6 DEF TableInv, AgeInv, Aged
<1>8. NumInv'
  BY <1>1, <1>2, <1>3, <1>4, <1>5, <1>6 DEF TableInv, NumInv, Op, ALoad
<1>9. PICK b \in Nat : b = begun + 1
  BY <1>6
<1>10. FreshFrom(b)'
  BY <1>2, <1>4, <1>5, <1>6, <1>9 DEF TableInv, NumInv, FreshFrom, ALoad
<1> QED BY <1>7, <1>8, <1>10 DEF TableInv

LEMMA ChangeFailsTable ==
  ASSUME Types, TableInv, NEW o \in ops, ChangeFails(o)
  PROVE  TableInv'
<1>1. /\ ops' = ops \ {o}
      /\ UNCHANGED <<rows, filters, loads, version, clicks, begun, applies, acked, newest>>
  BY DEF ChangeFails, Finish
<1>2. listError' = (listError \/ o.kind # "create")
  BY DEF ChangeFails
<1>3. AgeInv'
  BY <1>1 DEF TableInv, AgeInv, Aged
<1>4. NumInv'
  BY <1>1 DEF TableInv, NumInv
<1>5. PICK b \in Nat : FreshFrom(b)
  BY DEF TableInv
<1>6. newest < b => \/ listError'
                    \/ \E p \in ops' : p.kind # "create" /\ ~ p.reading
                    \/ \E l \in loads' : l.n >= b
  BY <1>1, <1>2, <1>5 DEF FreshFrom
<1>7. FreshFrom(b)'
  BY <1>1, <1>5, <1>6 DEF FreshFrom
<1> QED BY <1>3, <1>4, <1>7 DEF TableInv

LEMMA ApplyTable ==
  ASSUME Types, TableInv, Apply
  PROVE  TableInv'
<1>1. PICK f \in Filter : filters' = f /\ Load(0, f, applies + 1)
  BY DEF Apply
<1> DEFINE new == [n |-> begun + 1, op |-> 0, filter |-> f, age |-> applies + 1,
                   seen |-> Unread]
<1>2. /\ new.n = begun + 1 /\ new.op = 0 /\ new.filter = f /\ new.age = applies + 1
      /\ new.seen = Unread
  OBVIOUS
<1>3. /\ loads' = loads \cup {new} /\ begun' = begun + 1 /\ applies' = applies + 1
      /\ UNCHANGED <<rows, ops, version, clicks, acked, newest>>
  BY <1>1 DEF Apply, Load, FilterOf
<1>4. \A l \in loads : l \in ALoad
  BY DEF Types
<1>5. \A o \in ops : o \in Op
  BY DEF Types
<1>6. clicks \in Nat /\ applies \in Nat /\ begun \in Nat /\ newest \in Nat /\ rows.age \in Nat
  BY DEF Types
<1> HIDE DEF new
<1>7. AgeInv'
  BY <1>1, <1>2, <1>3, <1>4, <1>5, <1>6 DEF TableInv, AgeInv, Aged, Op, ALoad
<1>8. NumInv'
  BY <1>2, <1>3, <1>4, <1>5, <1>6 DEF TableInv, NumInv, Op, ALoad
<1>9. PICK b \in Nat : FreshFrom(b)
  BY DEF TableInv
<1>10. \E l \in loads' : l.n >= b
  BY <1>2, <1>3, <1>6, <1>9 DEF FreshFrom
<1>11. FreshFrom(b)'
  BY <1>2, <1>3, <1>6, <1>9, <1>10 DEF FreshFrom
<1> QED BY <1>7, <1>8, <1>11 DEF TableInv

LEMMA ReadTable ==
  ASSUME Types, TableInv, NEW l \in loads, Read(l)
  PROVE  TableInv'
<1> DEFINE new == [l EXCEPT !.seen = version]
<1>1. \A k \in loads : k \in ALoad
  BY DEF Types
<1>2. /\ new.n = l.n /\ new.op = l.op /\ new.filter = l.filter /\ new.age = l.age
      /\ new.seen = version
  BY <1>1 DEF ALoad
<1>3. /\ loads' = (loads \ {l}) \cup {new}
      /\ UNCHANGED <<rows, listError, filters, ops, version, clicks, begun, applies, acked,
                     newest>>
  BY DEF Read, screen
<1>4. version \in Nat /\ acked \in Nat
  BY DEF Types
<1> HIDE DEF new
<1>5. AgeInv'
  BY <1>2, <1>3 DEF TableInv, AgeInv, Aged
<1>6. NumInv'
  BY <1>2, <1>3 DEF TableInv, NumInv
<1>7. PICK b \in Nat : FreshFrom(b)
  BY DEF TableInv
<1>8. \A k \in loads' : k.n >= b /\ k.seen # Unread => k.seen >= acked
  BY <1>2, <1>3, <1>4, <1>7 DEF FreshFrom, TableInv, NumInv
<1>9. (\E k \in loads : k.n >= b) => \E k \in loads' : k.n >= b
  BY <1>2, <1>3
<1>10. FreshFrom(b)'
  BY <1>3, <1>7, <1>8, <1>9 DEF FreshFrom
<1> QED BY <1>5, <1>6, <1>10 DEF TableInv

(* What ends with a read has been answered. *)
LEMMA LoadEndsEffect ==
  ASSUME NumInv, NEW l \in loads, LoadEnds(l)
  PROVE  /\ loads' = loads \ {l}
         /\ ops' \subseteq ops
         /\ \A o \in ops : ~ o.reading => o \in ops'
  BY DEF NumInv, LoadEnds, Finish

LEMMA LoadedTable ==
  ASSUME Types, TableInv, NEW l \in loads, Loaded(l)
  PROVE  TableInv'
<1>1. /\ loads' = loads \ {l} /\ ops' \subseteq ops
      /\ \A o \in ops : ~ o.reading => o \in ops'
  BY LoadEndsEffect DEF TableInv, Loaded
<1>2. /\ rows'.n = l.n /\ rows'.seen = l.seen /\ rows'.filter = l.filter /\ rows'.age = l.age
      /\ newest' = IF l.n > newest THEN l.n ELSE newest
      /\ l.seen # Unread
      /\ UNCHANGED <<listError, filters, version, clicks, begun, applies, acked>>
  BY DEF Loaded
<1>3. l \in ALoad /\ newest \in Nat /\ begun \in Nat
  BY DEF Types
<1>4. l.n \in Nat
  BY <1>3 DEF ALoad
<1>5. AgeInv'
  BY <1>1, <1>2 DEF TableInv, AgeInv, Aged
<1>6. NumInv'
  BY <1>1, <1>2, <1>3, <1>4 DEF TableInv, NumInv
<1>7. PICK b \in Nat : FreshFrom(b)
  BY DEF TableInv
<1>8. newest' >= b /\ rows'.n = newest' => rows'.seen >= acked
  BY <1>2, <1>3, <1>4, <1>7 DEF FreshFrom
<1>9. ASSUME newest' < b
      PROVE  \/ listError'
             \/ \E o \in ops' : o.kind # "create" /\ ~ o.reading
             \/ \E k \in loads' : k.n >= b
  <2>1. newest < b /\ ~ (l.n >= b)
    BY <1>2, <1>3, <1>4, <1>7, <1>9
  <2> QED BY <1>1, <1>2, <1>7, <2>1 DEF FreshFrom
<1>10. FreshFrom(b)'
  BY <1>1, <1>2, <1>7, <1>8, <1>9 DEF FreshFrom
<1> QED BY <1>5, <1>6, <1>10 DEF TableInv

LEMMA LoadFailsTable ==
  ASSUME Types, TableInv, NEW l \in loads, LoadFails(l)
  PROVE  TableInv'
<1>1. /\ loads' = loads \ {l} /\ ops' \subseteq ops
  BY LoadEndsEffect DEF TableInv, LoadFails
<1>2. UNCHANGED <<rows, filters, version, clicks, begun, applies, acked, newest>>
  BY DEF LoadFails
<1>3. listError'
  BY DEF LoadFails
<1>4. AgeInv'
  BY <1>1, <1>2 DEF TableInv, AgeInv, Aged
<1>5. NumInv'
  BY <1>1, <1>2 DEF TableInv, NumInv
<1>6. PICK b \in Nat : FreshFrom(b)
  BY DEF TableInv
<1>7. FreshFrom(b)'
  BY <1>1, <1>2, <1>3, <1>6 DEF FreshFrom
<1> QED BY <1>4, <1>5, <1>7 DEF TableInv

LEMMA UntouchedTable ==
  ASSUME TableInv,
         UNCHANGED <<rows, listError, filters, calls, clicks, begun, applies, acked, newest>>
  PROVE  TableInv'
<1>1. AgeInv'
  BY DEF TableInv, AgeInv, Aged, calls
<1>2. NumInv'
  BY DEF TableInv, NumInv, calls
<1>3. PICK b \in Nat : FreshFrom(b)
  BY DEF TableInv
<1>4. FreshFrom(b)'
  BY <1>3 DEF FreshFrom, calls
<1> QED BY <1>1, <1>2, <1>4 DEF TableInv

LEMMA TableStep ==
  ASSUME Types, TableInv, [Next]_vars
  PROVE  TableInv'
<1>1. CASE OptionsLoaded \/ EditCancel \/ (\E row \in Row : EditStart(row)) \/ UNCHANGED vars
  BY <1>1, UntouchedTable DEF OptionsLoaded, EditCancel, EditStart, vars, screen
<1> QED
  BY <1>1, ClickTable, MakeTable, AnsweredTable, ChangeFailsTable, ApplyTable, ReadTable,
     LoadedTable, LoadFailsTable DEF Next, Change

LEMMA TableIsFresh ==
  ASSUME Types, TableInv
  PROVE  FreshList
<1> SUFFICES ASSUME ops = {}, loads = {}, ~ listError, rows.n = newest
             PROVE  rows.seen >= acked /\ (rows.filter = filters \/ rows.age < applies)
  BY DEF FreshList
<1>1. PICK b \in Nat : FreshFrom(b)
  BY DEF TableInv
<1>2. newest \in Nat /\ rows.age \in Nat /\ applies \in Nat
  BY DEF Types
<1>3. newest >= b
  BY <1>1, <1>2 DEF FreshFrom
<1>4. rows.seen >= acked
  BY <1>1, <1>3 DEF FreshFrom
<1>5. rows.filter = filters \/ rows.age < applies
  BY <1>2 DEF TableInv, AgeInv, Aged
<1> QED BY <1>4, <1>5

(* Once nothing is under way and no error is shown, the table contains every  *)
(* change the panel was told of and was read with the filters applied, but    *)
(* for the two orders of answers and clicks that FreshList names.             *)
THEOREM TableRecovers == Spec => []FreshList
<1>1. Types /\ TableInv /\ [Next]_vars => (Types /\ TableInv)'
  BY TypesStep, TableStep
<1> QED BY <1>1, InitTypes, InitTable, TableIsFresh, PTL DEF Spec

-----------------------------------------------------------------------------
(* How far the counters go.  A click is good for one change and one re-read   *)
(* of the table, which the changes still to be made, and to be answered,      *)
(* account for.                                                               *)

OpBound(o) ==
  /\ o.id >= 1 /\ o.id <= clicks /\ o.kind \in Changes
  /\ o.age <= applies /\ o.made <= version

LoadBound(l) ==
  /\ l.n >= 1 /\ l.n <= begun /\ l.op <= clicks /\ l.age <= applies
  /\ l.seen # Unread => l.seen >= 0 /\ l.seen <= version

ShownBound ==
  /\ rows.n <= begun /\ rows.age <= applies /\ rows.seen >= 0 /\ rows.seen <= version
  /\ acked <= version /\ newest <= begun
  /\ editing \in Row \cup {NoRow}

Unmade == {o \in ops : o.made = 0}
Unanswered == {o \in ops : ~ o.reading}

Counted ==
  /\ IsFiniteSet(ops)
  /\ version + Cardinality(Unmade) <= clicks
  /\ begun + Cardinality(Unanswered) <= clicks + applies + 1
  /\ begun >= 1 /\ clicks <= MaxClicks /\ applies <= MaxApplies

Bounded ==
  /\ \A o \in ops : OpBound(o)
  /\ \A l \in loads : LoadBound(l)
  /\ ShownBound
  /\ Counted

LEMMA InitBounded == Init => Bounded
<1> SUFFICES ASSUME Init PROVE Bounded
  OBVIOUS
<1>1. ops = {} /\ version = 0 /\ clicks = 0 /\ begun = 1 /\ applies = 0 /\ acked = 0 /\ newest = 0
  BY DEF Init
<1>2. Unmade = {} /\ Unanswered = {} /\ IsFiniteSet(ops) /\ Cardinality({}) = 0
  BY <1>1, FS_EmptySet DEF Unmade, Unanswered
<1>3. Counted
  BY <1>1, <1>2, BoundAssumption DEF Counted
<1>4. ShownBound
  BY <1>1 DEF Init, ShownBound, Nothing
<1>5. \A l \in loads : LoadBound(l)
  BY <1>1 DEF Init, LoadBound
<1> QED BY <1>1, <1>3, <1>4, <1>5 DEF Bounded

LEMMA Counts ==
  ASSUME Counted
  PROVE  /\ IsFiniteSet(Unmade) /\ IsFiniteSet(Unanswered)
         /\ Cardinality(Unmade) \in Nat /\ Cardinality(Unanswered) \in Nat
<1>1. IsFiniteSet(Unmade) /\ IsFiniteSet(Unanswered)
  <2>1. Unmade \in SUBSET ops /\ Unanswered \in SUBSET ops /\ IsFiniteSet(ops)
    BY DEF Unmade, Unanswered, Counted
  <2> QED BY <2>1, FS_Subset
<1> QED BY <1>1, FS_CardinalityType

\* of fewer changes still to be made and answered, as many or fewer are left
LEMMA FewerCounted ==
  ASSUME Types, Counted, ops' \in SUBSET ops, version' = version, clicks' = clicks,
         begun' = begun, applies' = applies
  PROVE  Counted'
<1>1. Unmade' \in SUBSET Unmade /\ Unanswered' \in SUBSET Unanswered
  BY DEF Unmade, Unanswered
<1>2. IsFiniteSet(Unmade) /\ IsFiniteSet(Unanswered) /\ IsFiniteSet(ops)
  BY Counts DEF Counted
<1>3. /\ Cardinality(Unmade') <= Cardinality(Unmade)
      /\ Cardinality(Unanswered') <= Cardinality(Unanswered)
      /\ IsFiniteSet(ops') /\ IsFiniteSet(Unmade') /\ IsFiniteSet(Unanswered')
  BY <1>1, <1>2, FS_Subset
<1>4. /\ Cardinality(Unmade) \in Nat /\ Cardinality(Unanswered) \in Nat
      /\ Cardinality(Unmade') \in Nat /\ Cardinality(Unanswered') \in Nat
  BY <1>3, Counts, FS_CardinalityType
<1> QED BY <1>3, <1>4 DEF Counted, Types

LEMMA OneMore ==
  ASSUME NEW S, IsFiniteSet(S), NEW x
  PROVE  /\ IsFiniteSet(S \cup {x}) /\ Cardinality(S \cup {x}) \in Nat
         /\ Cardinality(S \cup {x}) <= Cardinality(S) + 1
<1>1. Cardinality(S) \in Nat
  BY FS_CardinalityType
<1>2. IsFiniteSet(S \cup {x})
  BY FS_AddElement
<1>3. Cardinality(S \cup {x}) = Cardinality(S) \/ Cardinality(S \cup {x}) = Cardinality(S) + 1
  BY FS_AddElement
<1> QED BY <1>1, <1>2, <1>3

LEMMA ClickCounted ==
  ASSUME Types, Counted, NEW kind \in UserChanges, NEW row \in Row \cup {Form}, Click(kind, row)
  PROVE  Counted'
<1> DEFINE new == [id |-> clicks + 1, kind |-> kind, row |-> row, filter |-> filters,
                   age |-> applies, made |-> 0, reading |-> FALSE]
<1>1. ops' = ops \cup {new} /\ clicks' = clicks + 1 /\ clicks < MaxClicks
      /\ UNCHANGED <<version, begun, applies>>
  BY DEF Click
<1>2. new.made = 0 /\ new.reading = FALSE
  OBVIOUS
<1> HIDE DEF new
<1>3. Unmade' = Unmade \cup {new} /\ Unanswered' = Unanswered \cup {new}
  BY <1>1, <1>2 DEF Unmade, Unanswered
<1>4. /\ IsFiniteSet(Unmade) /\ IsFiniteSet(Unanswered) /\ IsFiniteSet(ops)
      /\ Cardinality(Unmade) \in Nat /\ Cardinality(Unanswered) \in Nat
  BY Counts DEF Counted
<1>5. /\ Cardinality(Unmade') <= Cardinality(Unmade) + 1
      /\ Cardinality(Unanswered') <= Cardinality(Unanswered) + 1
      /\ Cardinality(Unmade') \in Nat /\ Cardinality(Unanswered') \in Nat /\ IsFiniteSet(ops')
  BY <1>1, <1>3, <1>4, OneMore
<1> QED BY <1>1, <1>4, <1>5, BoundAssumption DEF Counted, Types

LEMMA MakeCounted ==
  ASSUME Types, Counted, NEW o \in ops, Make(o)
  PROVE  Counted'
<1> DEFINE new == [o EXCEPT !.made = version + 1]
<1>1. ops' = (ops \ {o}) \cup {new} /\ version' = version + 1 /\ o.made = 0
      /\ UNCHANGED <<clicks, begun, applies>>
  BY DEF Make
<1>2. new.made # 0 /\ new.reading = o.reading
  BY DEF Types, Op
<1> HIDE DEF new
<1>3. Unmade' = Unmade \ {o} /\ o \in Unmade
  BY <1>1, <1>2 DEF Unmade
<1>4. Unanswered' \in SUBSET (IF o \in Unanswered THEN (Unanswered \ {o}) \cup {new} ELSE Unanswered)
  BY <1>1, <1>2 DEF Unanswered
<1>5. /\ IsFiniteSet(Unmade) /\ IsFiniteSet(Unanswered) /\ IsFiniteSet(ops)
      /\ Cardinality(Unmade) \in Nat /\ Cardinality(Unanswered) \in Nat
  BY Counts DEF Counted
<1>6. Cardinality(Unmade') = Cardinality(Unmade) - 1
  BY <1>3, <1>5, FS_RemoveElement
<1>7. IsFiniteSet(ops')
  BY <1>1, <1>5, FS_RemoveElement, FS_AddElement
<1>8. Cardinality(Unanswered') <= Cardinality(Unanswered) /\ Cardinality(Unanswered') \in Nat
  <2>1. CASE o \in Unanswered
    <3> DEFINE rest == Unanswered \ {o}
    <3>1. IsFiniteSet(rest) /\ Cardinality(rest) = Cardinality(Unanswered) - 1
      BY <1>5, <2>1, FS_RemoveElement
    <3> HIDE DEF rest
    <3>2. IsFiniteSet(rest \cup {new}) /\ Cardinality(rest \cup {new}) <= Cardinality(rest) + 1
      BY <3>1, OneMore
    <3>3. Unanswered' \in SUBSET (rest \cup {new})
      BY <1>4, <2>1 DEF rest
    <3>4. IsFiniteSet(Unanswered') /\ Cardinality(Unanswered') <= Cardinality(rest \cup {new})
      BY <3>2, <3>3, FS_Subset
    <3>5. Cardinality(rest \cup {new}) \in Nat /\ Cardinality(Unanswered') \in Nat
      BY <3>2, <3>4, FS_CardinalityType
    <3> QED BY <1>5, <3>1, <3>2, <3>4, <3>5
  <2>2. CASE o \notin Unanswered
    <3>1. Unanswered' \in SUBSET Unanswered
      BY <1>4, <2>2
    <3>2. IsFiniteSet(Unanswered') /\ Cardinality(Unanswered') <= Cardinality(Unanswered)
      BY <1>5, <3>1, FS_Subset
    <3> QED BY <3>2, FS_CardinalityType
  <2> QED BY <2>1, <2>2
<1> QED BY <1>1, <1>5, <1>6, <1>7, <1>8 DEF Counted, Types

LEMMA AnsweredCounted ==
  ASSUME Types, Counted, NEW o \in ops, Answered(o)
  PROVE  Counted'
<1> DEFINE new == [o EXCEPT !.reading = TRUE]
<1>1. /\ ops' = (ops \ {o}) \cup {new} /\ o.made > 0 /\ ~ o.reading /\ begun' = begun + 1
      /\ UNCHANGED <<clicks, version, applies>>
  BY DEF Answered, Awaited, Load
<1>2. new.made = o.made /\ new.reading = TRUE
  BY DEF Types, Op
<1> HIDE DEF new
<1>3. o.made # 0
  BY <1>1
<1>4. Unanswered' = Unanswered \ {o} /\ o \in Unanswered
  BY <1>1, <1>2 DEF Unanswered
<1>5. Unmade' = Unmade
  BY <1>1, <1>2, <1>3 DEF Unmade
<1>6. /\ IsFiniteSet(Unmade) /\ IsFiniteSet(Unanswered) /\ IsFiniteSet(ops)
      /\ Cardinality(Unmade) \in Nat /\ Cardinality(Unanswered) \in Nat
  BY Counts DEF Counted
<1>7. Cardinality(Unanswered') = Cardinality(Unanswered) - 1
  BY <1>4, <1>6, FS_RemoveElement
<1>8. IsFiniteSet(ops')
  BY <1>1, <1>6, FS_RemoveElement, FS_AddElement
<1> QED BY <1>1, <1>5, <1>6, <1>7, <1>8 DEF Counted, Types

LEMMA ApplyCounted ==
  ASSUME Types, Counted, Apply
  PROVE  Counted'
<1>1. /\ ops' = ops /\ applies' = applies + 1 /\ applies < MaxApplies /\ begun' = begun + 1
      /\ UNCHANGED <<version, clicks>>
  BY DEF Apply, Load
<1>2. Unmade' = Unmade /\ Unanswered' = Unanswered
  BY <1>1 DEF Unmade, Unanswered
<1>3. Cardinality(Unmade) \in Nat /\ Cardinality(Unanswered) \in Nat
  BY Counts
<1> QED BY <1>1, <1>2, <1>3, BoundAssumption DEF Counted, Types

\* what is in bounds stays in bounds while the counters grow
LEMMA StaysBounded ==
  ASSUME Types, Bounded, Types', panel' = panel, clicks <= clicks', applies <= applies',
         version <= version', begun <= begun'
  PROVE  /\ \A o \in ops : OpBound(o)'
         /\ \A l \in loads : LoadBound(l)'
         /\ rows' = rows /\ acked' = acked /\ newest' = newest /\ editing' = editing => ShownBound'
<1>1. ASSUME NEW o \in ops PROVE OpBound(o)'
  <2>1. o \in Op /\ OpBound(o)
    BY DEF Types, Bounded
  <2>2. clicks \in Nat /\ clicks' \in Nat /\ applies \in Nat /\ applies' \in Nat
        /\ version \in Nat /\ version' \in Nat
    BY DEF Types
  <2>3. Changes' = Changes
    BY DEF Changes
  <2> QED BY <2>1, <2>2, <2>3 DEF OpBound, Op
<1>2. ASSUME NEW l \in loads PROVE LoadBound(l)'
  <2>1. l \in ALoad /\ LoadBound(l)
    BY DEF Types, Bounded
  <2>2. clicks \in Nat /\ clicks' \in Nat /\ applies \in Nat /\ applies' \in Nat
        /\ version \in Nat /\ version' \in Nat /\ begun \in Nat /\ begun' \in Nat
    BY DEF Types
  <2> QED BY <2>1, <2>2 DEF LoadBound, ALoad, Unread
<1>3. rows' = rows /\ acked' = acked /\ newest' = newest /\ editing' = editing => ShownBound'
  BY DEF Types, Bounded, ShownBound
<1> QED BY <1>1, <1>2, <1>3

LEMMA LoadBounded ==
  ASSUME Types, Bounded, Types', NEW op \in Nat, NEW captured, NEW age \in Nat,
         Load(op, captured, age), op <= clicks', age <= applies',
         \A l \in loads : LoadBound(l)'
  PROVE  \A l \in loads' : LoadBound(l)'
<1>0. PICK new : new = [n |-> begun + 1, op |-> op, filter |-> captured, age |-> age, seen |-> Unread]
  OBVIOUS
<1>1. loads' = loads \cup {new} /\ begun' = begun + 1 /\ begun \in Nat
  BY <1>0 DEF Load, FilterOf, Types
<1>2. new.n = begun + 1 /\ new.op = op /\ new.age = age /\ new.seen = Unread
  BY <1>0
<1>3. LoadBound(new)'
  BY <1>1, <1>2 DEF LoadBound
<1> QED BY <1>1, <1>3

LEMMA LoadEndsBounded ==
  ASSUME Types, Bounded, Types', NEW l \in loads, LoadEnds(l),
         UNCHANGED <<panel, version, clicks, begun, applies>>
  PROVE  /\ \A o \in ops' : OpBound(o)'
         /\ \A m \in loads' : LoadBound(m)'
         /\ Counted'
<1>1. loads' \in SUBSET loads /\ ops' \in SUBSET ops
  BY DEF LoadEnds, Finish
<1>2. clicks \in Nat /\ applies \in Nat /\ version \in Nat /\ begun \in Nat
  BY DEF Types
<1>3. /\ \A o \in ops : OpBound(o)'
      /\ \A m \in loads : LoadBound(m)'
  BY <1>2, StaysBounded
<1>4. Counted'
  BY <1>1, FewerCounted DEF Bounded
<1> QED BY <1>1, <1>3, <1>4

LEMMA BoundedStep ==
  ASSUME Types, Bounded, [Next]_vars
  PROVE  Bounded'
<1>0. /\ Types' /\ Counted
      /\ clicks \in Nat /\ applies \in Nat /\ version \in Nat /\ begun \in Nat
      /\ acked \in Nat /\ newest \in Nat
  BY TypesStep DEF Bounded, Types
<1>1. ASSUME NEW kind \in UserChanges, NEW row \in Row \cup {Form}, Click(kind, row)
      PROVE  Bounded'
  <2>0. PICK new : new = [id |-> clicks + 1, kind |-> kind, row |-> row, filter |-> filters,
                         age |-> applies, made |-> 0, reading |-> FALSE]
    OBVIOUS
  <2>1. /\ ops' = ops \cup {new} /\ clicks' = clicks + 1 /\ kind \in Changes
        /\ UNCHANGED <<panel, rows, editing, loads, version, begun, applies, acked, newest>>
    BY <1>1, <2>0 DEF Click
  <2>2. /\ \A o \in ops : OpBound(o)'
        /\ \A l \in loads : LoadBound(l)'
        /\ ShownBound'
    BY <1>0, <2>1, StaysBounded
  <2>3. new.id = clicks + 1 /\ new.kind = kind /\ new.age = applies /\ new.made = 0
    BY <2>0
  <2>4. Changes' = Changes
    BY <2>1 DEF Changes
  <2>5. OpBound(new)'
    BY <1>0, <2>1, <2>3, <2>4 DEF OpBound
  <2>6. Counted'
    BY <1>0, <1>1, ClickCounted
  <2> QED BY <2>1, <2>2, <2>5, <2>6 DEF Bounded
<1>2. ASSUME NEW o \in ops, Make(o) PROVE Bounded'
  <2>0. PICK new : new = [o EXCEPT !.made = version + 1]
    OBVIOUS
  <2>1. /\ ops' = (ops \ {o}) \cup {new} /\ version' = version + 1
        /\ UNCHANGED <<panel, rows, editing, loads, clicks, begun, applies, acked, newest>>
    BY <1>2, <2>0 DEF Make, screen
  <2>2. /\ \A p \in ops : OpBound(p)'
        /\ \A l \in loads : LoadBound(l)'
        /\ ShownBound'
    BY <1>0, <2>1, StaysBounded
  <2>3. new.id = o.id /\ new.kind = o.kind /\ new.age = o.age /\ new.made = version + 1
    BY <2>0 DEF Types, Op
  <2>4. OpBound(new)'
    BY <1>0, <2>1, <2>2, <2>3 DEF OpBound
  <2>5. Counted'
    BY <1>0, <1>2, MakeCounted
  <2> QED BY <2>1, <2>2, <2>4, <2>5 DEF Bounded
<1>3. ASSUME NEW o \in ops, Answered(o) PROVE Bounded'
  <2>0. PICK new : new = [o EXCEPT !.reading = TRUE]
    OBVIOUS
  <2>1. /\ ops' = (ops \ {o}) \cup {new} /\ begun' = begun + 1 /\ Load(o.id, o.filter, o.age)
        /\ acked' \in {acked, o.made} /\ editing' \in {editing, NoRow}
        /\ UNCHANGED <<panel, rows, version, clicks, applies, newest>>
    BY <1>3, <2>0 DEF Answered, Load
  <2>2. /\ \A p \in ops : OpBound(p)'
        /\ \A l \in loads : LoadBound(l)'
    BY <1>0, <2>1, StaysBounded
  <2>3. /\ new.id = o.id /\ new.kind = o.kind /\ new.age = o.age /\ new.made = o.made
        /\ o.id \in Nat /\ o.age \in Nat /\ o.made \in Nat
    BY <2>0 DEF Types, Op
  <2>4. OpBound(new)' /\ OpBound(o)
    BY <2>1, <2>2, <2>3 DEF OpBound, Bounded
  <2>5. \A l \in loads' : LoadBound(l)'
    <3>1. o.id <= clicks' /\ o.age <= applies'
      BY <2>1, <2>4 DEF OpBound
    <3> QED BY <1>0, <2>1, <2>2, <2>3, <3>1, LoadBounded
  <2>6. ShownBound'
    BY <1>0, <2>1, <2>3, <2>4 DEF ShownBound, Bounded, OpBound, Types
  <2>7. Counted'
    BY <1>0, <1>3, AnsweredCounted
  <2> QED BY <2>1, <2>2, <2>4, <2>5, <2>6, <2>7 DEF Bounded
<1>4. ASSUME NEW o \in ops, ChangeFails(o) PROVE Bounded'
  <2>1. ops' \in SUBSET ops
        /\ UNCHANGED <<panel, rows, editing, loads, version, clicks, begun, applies, acked, newest>>
    BY <1>4 DEF ChangeFails, Finish
  <2>2. /\ \A p \in ops : OpBound(p)'
        /\ \A l \in loads : LoadBound(l)'
        /\ ShownBound'
    BY <1>0, <2>1, StaysBounded
  <2>3. Counted'
    BY <1>0, <2>1, FewerCounted
  <2> QED BY <2>1, <2>2, <2>3 DEF Bounded
<1>5. CASE Apply
  <2>1. PICK f \in Filter : Load(0, f, applies + 1)
    BY <1>5 DEF Apply
  <2>2. /\ applies' = applies + 1 /\ begun' = begun + 1
        /\ UNCHANGED <<panel, rows, editing, ops, version, clicks, acked, newest>>
    BY <1>5 DEF Apply, Load
  <2>3. /\ \A p \in ops : OpBound(p)'
        /\ \A l \in loads : LoadBound(l)'
        /\ ShownBound'
    BY <1>0, <2>2, StaysBounded
  <2>4. \A l \in loads' : LoadBound(l)'
    <3>1. 0 <= clicks' /\ applies + 1 <= applies' /\ applies + 1 \in Nat
      BY <1>0, <2>2
    <3> QED BY <1>0, <2>1, <2>3, <3>1, LoadBounded
  <2>5. Counted'
    BY <1>0, <1>5, ApplyCounted
  <2> QED BY <2>2, <2>3, <2>4, <2>5 DEF Bounded
<1>6. ASSUME NEW l \in loads, Read(l) PROVE Bounded'
  <2>0. PICK new : new = [l EXCEPT !.seen = version]
    OBVIOUS
  <2>1. /\ loads' = (loads \ {l}) \cup {new}
        /\ UNCHANGED <<panel, rows, editing, ops, version, clicks, begun, applies, acked, newest>>
    BY <1>6, <2>0 DEF Read, screen
  <2>2. /\ \A p \in ops : OpBound(p)'
        /\ \A m \in loads : LoadBound(m)'
        /\ ShownBound'
    BY <1>0, <2>1, StaysBounded
  <2>3. new.n = l.n /\ new.op = l.op /\ new.age = l.age /\ new.seen = version
    BY <2>0 DEF Types, ALoad
  <2>4. LoadBound(new)'
    BY <1>0, <2>1, <2>2, <2>3 DEF LoadBound
  <2>5. Counted'
    BY <1>0, <2>1, FewerCounted
  <2> QED BY <2>1, <2>2, <2>4, <2>5 DEF Bounded
<1>7. ASSUME NEW l \in loads, Loaded(l) PROVE Bounded'
  <2>1. /\ LoadEnds(l) /\ l.seen # Unread
        /\ rows' = [n |-> l.n, seen |-> l.seen, filter |-> l.filter, age |-> l.age]
        /\ newest' \in {newest, l.n}
        /\ UNCHANGED <<panel, editing, version, clicks, begun, applies, acked>>
    BY <1>7 DEF Loaded
  <2>2. LoadBound(l)
    BY DEF Bounded
  <2>3. ShownBound'
    BY <1>0, <2>1, <2>2 DEF ShownBound, Bounded, LoadBound
  <2> QED BY <1>0, <2>1, <2>3, LoadEndsBounded DEF Bounded
<1>8. ASSUME NEW l \in loads, LoadFails(l) PROVE Bounded'
  <2>1. LoadEnds(l)
        /\ UNCHANGED <<panel, rows, editing, version, clicks, begun, applies, acked, newest>>
    BY <1>8 DEF LoadFails
  <2>2. ShownBound'
    BY <2>1 DEF ShownBound, Bounded
  <2> QED BY <1>0, <2>1, <2>2, LoadEndsBounded DEF Bounded
<1>9. CASE OptionsLoaded \/ EditCancel \/ (\E row \in Row : EditStart(row)) \/ UNCHANGED vars
  <2>1. /\ UNCHANGED <<panel, rows, ops, loads, version, clicks, begun, applies, acked, newest>>
        /\ editing' \in Row \cup {NoRow, editing}
    BY <1>9 DEF OptionsLoaded, EditCancel, EditStart, vars, screen, calls
  <2>2. /\ \A p \in ops : OpBound(p)'
        /\ \A l \in loads : LoadBound(l)'
    BY <1>0, <2>1, StaysBounded
  <2>3. ShownBound'
    BY <2>1 DEF ShownBound, Bounded
  <2>4. Counted'
    BY <1>0, <2>1, FewerCounted
  <2> QED BY <2>1, <2>2, <2>3, <2>4 DEF Bounded
<1> QED
  BY <1>1, <1>2, <1>3, <1>4, <1>5, <1>6, <1>7, <1>8, <1>9 DEF Next, Change

\* the kinds of records that TypeOK names, from their bounds
LEMMA BoundedTypes ==
  ASSUME Types, Bounded
  PROVE  TypeOK
<1>1. ops \subseteq [id : 1 .. clicks, kind : Changes, row : Row \cup {Form}, filter : Filters,
                     age : 0 .. applies, made : 0 .. version, reading : BOOLEAN]
  <2>1. SUFFICES ASSUME NEW o \in ops
                 PROVE  o \in [id : 1 .. clicks, kind : Changes, row : Row \cup {Form},
                               filter : Filters, age : 0 .. applies, made : 0 .. version,
                               reading : BOOLEAN]
    OBVIOUS
  <2>2. o \in Op /\ OpBound(o)
    BY DEF Types, Bounded
  <2>3. o.id \in 1 .. clicks /\ o.age \in 0 .. applies /\ o.made \in 0 .. version
    BY <2>2 DEF Op, OpBound, Types
  <2> QED BY <2>2, <2>3 DEF Op, OpBound
<1>2. loads \subseteq [n : 1 .. begun, op : 0 .. clicks, filter : Filters, age : 0 .. applies,
                       seen : {Unread} \cup 0 .. version]
  <2>1. SUFFICES ASSUME NEW l \in loads
                 PROVE  l \in [n : 1 .. begun, op : 0 .. clicks, filter : Filters,
                               age : 0 .. applies, seen : {Unread} \cup 0 .. version]
    OBVIOUS
  <2>2. l \in ALoad /\ LoadBound(l)
    BY DEF Types, Bounded
  <2>3. l.n \in 1 .. begun /\ l.op \in 0 .. clicks /\ l.age \in 0 .. applies
        /\ l.seen \in {Unread} \cup 0 .. version
    BY <2>2 DEF ALoad, LoadBound, Types
  <2> QED BY <2>2, <2>3 DEF ALoad
<1>3. rows \in [n : 0 .. begun, seen : 0 .. version, filter : Filters, age : 0 .. applies]
  <2>1. rows \in [n : Nat, seen : Int, filter : Filters, age : Nat] /\ ShownBound
    BY DEF Types, Bounded
  <2>2. rows.n \in 0 .. begun /\ rows.seen \in 0 .. version /\ rows.age \in 0 .. applies
    BY <2>1 DEF ShownBound, Types
  <2> QED BY <2>1, <2>2
<1>4. /\ version \in 0 .. clicks /\ clicks \in 0 .. MaxClicks
      /\ begun \in 1 .. MaxClicks + MaxApplies + 1 /\ applies \in 0 .. MaxApplies
      /\ acked \in 0 .. version /\ newest \in 0 .. begun
  <2>1. Cardinality(Unmade) \in Nat /\ Cardinality(Unanswered) \in Nat
    BY Counts DEF Bounded
  <2> QED BY <2>1, BoundAssumption DEF Types, Bounded, Counted, ShownBound
<1>5. editing \in Row \cup {NoRow}
  BY DEF Bounded, ShownBound
<1> QED BY <1>1, <1>2, <1>3, <1>4, <1>5 DEF Types, TypeOK

(* Every variable has its type and the counters their bounds: the service     *)
(* makes at most one change for a click, and the panel reads its table at     *)
(* most once for each change, each filter applied and its first showing.      *)
THEOREM TypeCorrect == Spec => []TypeOK
<1>1. Types /\ Bounded /\ [Next]_vars => (Types /\ Bounded)'
  BY TypesStep, BoundedStep
<1> QED BY <1>1, InitTypes, InitBounded, BoundedTypes, PTL DEF Spec
=============================================================================
