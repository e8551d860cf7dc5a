------------------------------ MODULE EdgeProofs ------------------------------
(***************************************************************************)
(* Proofs about the parts at the edge of the system: the files of the      *)
(* desktop's editor, schedules without Temporal and the cron expressions   *)
(* they fire by, schedules that Temporal keeps, the dev stack, terminals,  *)
(* streamed answers and the tool calls in them.                            *)
(* Each part runs by itself, so each section has an invariant of its own;  *)
(* the last puts the parts together again, as they are checked.            *)
(***************************************************************************)
EXTENDS MCEdge, TLAPS, FiniteSetTheorems, SequenceTheorems, WellFoundedInduction

(* DesktopEditor *)

UnderWay == {"read", "write", "compare", "rename"}
SavePcs == {"none", "resolve", "refused", "saved", "answered"} \cup UnderWay
Content == [pc : SavePcs, content : Nat, version : Nat, late : BOOLEAN]

EditorTypeOK ==
  /\ file \in Nat /\ contents \in Nat /\ temporary \in SaveIds \cup {0}
  /\ tab \in [open : BOOLEAN, content : Nat, version : Nat, dirty : BOOLEAN]
  /\ saves \in [SaveIds -> Content]

\* `saving' keeps all but one save from the disk, so that the temporary file is its own,
\* and only what the agent writes comes between its second look and its rename.
OneAtATime == \A n, m \in SaveIds : {saves[n].pc, saves[m].pc} \subseteq UnderWay => n = m
OwnTemporary == \A n \in SaveIds : saves[n].pc \in {"compare", "rename"} => temporary = n
LookedAt == \A n \in SaveIds : saves[n].pc = "rename" => file = saves[n].version \/ saves[n].late
EditorInv == EditorTypeOK /\ OneAtATime /\ OwnTemporary /\ LookedAt

LEMMA EditorInvInit == EditorInit => EditorInv
BY EditorAssumption
DEF EditorInit, EditorInv, EditorTypeOK, OneAtATime, OwnTemporary, LookedAt, SaveIds, NoSave, NoTab,
    Content, SavePcs, UnderWay

\* What a step does to one save when it moves it on.
Moved(n, pc) ==
  /\ saves'[n].pc = pc /\ saves'[n].content = saves[n].content
  /\ saves'[n].version = saves[n].version /\ saves'[n].late = saves[n].late
  /\ \A m \in SaveIds : m # n => saves'[m] = saves[m]

LEMMA SaveMoves ==
  ASSUME EditorTypeOK, NEW n \in SaveIds, NEW pc \in SavePcs, saves' = [saves EXCEPT ![n].pc = pc]
  PROVE  saves' \in [SaveIds -> Content] /\ Moved(n, pc)
BY DEF EditorTypeOK, Content, Moved

\* The turn of one save: where it goes on to, and what it leaves alone.
Turns(n) ==
  \/ BeginSave(n) \/ CompareBefore(n) \/ WriteTemporary(n) \/ CompareAgain(n) \/ Rename(n)
  \/ ReceiveAnswer(n)

LEMMA EditorInvTurn ==
  ASSUME EditorInv, NEW n \in SaveIds, Turns(n)
  PROVE  EditorInv'
<1>0. 0 \notin SaveIds /\ n \in SaveIds /\ EditorTypeOK /\ OneAtATime /\ OwnTemporary /\ LookedAt
  BY DEF SaveIds, EditorInv
<1>1. SUFFICES ASSUME NEW pc \in SavePcs, saves' \in [SaveIds -> Content], Moved(n, pc),
                      contents' = contents,
                      \/ pc \notin UnderWay /\ file' \in Nat
                      \/ pc = "read" /\ file' = file /\ \A m \in SaveIds : saves[m].pc \notin UnderWay
                      \/ saves[n].pc \in UnderWay /\ pc \in UnderWay /\ file' = file,
                      pc = "compare" => temporary' = n,
                      pc = "rename" => /\ saves[n].pc = "compare" /\ temporary' = temporary
                                       /\ file = saves[n].version,
                      temporary' # temporary \/ file' # file => saves[n].pc \in UnderWay,
                      temporary' \in {0, n, temporary},
                      tab' \in [open : BOOLEAN, content : Nat, version : Nat, dirty : BOOLEAN]
               PROVE  EditorInv'
  <2>1. CASE BeginSave(n)
    <3> DEFINE p == IF \E m \in SaveIds : saves[m].pc \in UnderWay THEN "refused" ELSE "read"
    <3>1. saves' = [saves EXCEPT ![n].pc = p] /\ p \in {"refused", "read"}
      BY <2>1 DEF BeginSave, UnderWay
    <3>2. p = "read" => \A m \in SaveIds : saves[m].pc \notin UnderWay
      OBVIOUS
    <3> HIDE DEF p
    <3>3. p \in SavePcs /\ saves' \in [SaveIds -> Content] /\ Moved(n, p)
      BY <1>0, <3>1, SaveMoves DEF SavePcs, UnderWay
    <3> QED BY <1>0, <1>1, <2>1, <3>1, <3>2, <3>3 DEF BeginSave, EditorTypeOK, UnderWay
  <2>2. ASSUME Give(n, "refused"), file' = file, saves[n].pc \in UnderWay
        PROVE  EditorInv'
    <3>1. saves' \in [SaveIds -> Content] /\ Moved(n, "refused")
      BY <1>0, <2>2, SaveMoves DEF Give, SavePcs
    <3> QED BY <1>0, <1>1, <2>2, <3>1 DEF Give, EditorTypeOK, UnderWay, SavePcs
  <2>3. ASSUME NEW pc \in {"write", "compare", "rename"}, Advance(n, pc), saves[n].pc \in UnderWay,
               pc = "compare" => temporary' = n,
               pc = "rename" => saves[n].pc = "compare" /\ file = saves[n].version,
               pc # "compare" => temporary' = temporary
        PROVE  EditorInv'
    <3>1. pc \in SavePcs /\ saves' \in [SaveIds -> Content] /\ Moved(n, pc)
      BY <1>0, <2>3, SaveMoves DEF Advance, SavePcs, UnderWay
    <3> QED BY <1>0, <1>1, <2>3, <3>1 DEF Advance, EditorTypeOK, UnderWay
  <2>4. CASE CompareBefore(n)
    BY <2>2, <2>3, <2>4 DEF CompareBefore, UnderWay
  <2>5. CASE WriteTemporary(n)
    BY <2>2, <2>3, <2>5 DEF WriteTemporary, UnderWay
  <2>6. CASE CompareAgain(n)
    BY <2>2, <2>3, <2>6 DEF CompareAgain, UnderWay
  <2>7. CASE Rename(n)
    <3>1. CASE Give(n, "refused") /\ file' = file
      BY <2>2, <2>7, <3>1 DEF Rename, UnderWay
    <3>2. CASE temporary # 0 /\ Give(n, "saved") /\ file' = saves[temporary].content
      <4>1. saves' \in [SaveIds -> Content] /\ Moved(n, "saved")
        BY <1>0, <3>2, SaveMoves DEF Give, SavePcs
      <4>2. file' \in Nat
        BY <1>0, <3>2 DEF EditorTypeOK, Content
      <4> QED BY <1>0, <1>1, <2>7, <3>2, <4>1, <4>2 DEF Rename, Give, EditorTypeOK, UnderWay, SavePcs
    <3> QED BY <2>7, <3>1, <3>2 DEF Rename
  <2>8. CASE ReceiveAnswer(n)
    <3>1. saves' \in [SaveIds -> Content] /\ Moved(n, "answered")
      BY <1>0, <2>8, SaveMoves DEF ReceiveAnswer, SavePcs
    <3>2. tab' \in [open : BOOLEAN, content : Nat, version : Nat, dirty : BOOLEAN]
      BY <1>0, <2>8 DEF ReceiveAnswer, EditorTypeOK, Content
    <3> QED BY <1>0, <1>1, <2>8, <3>1, <3>2 DEF ReceiveAnswer, EditorTypeOK, UnderWay, SavePcs
  <2> QED BY <2>1, <2>4, <2>5, <2>6, <2>7, <2>8 DEF Turns
<1>2. EditorTypeOK'
  BY <1>0, <1>1 DEF EditorTypeOK
<1>3. OneAtATime'
  BY <1>0, <1>1 DEF OneAtATime, Moved, UnderWay
<1>4. OwnTemporary'
  BY <1>0, <1>1 DEF OneAtATime, OwnTemporary, Moved, UnderWay
<1>5. LookedAt'
  BY <1>0, <1>1 DEF OneAtATime, LookedAt, Moved, UnderWay
<1> QED BY <1>2, <1>3, <1>4, <1>5 DEF EditorInv

LEMMA EditorInvStep == EditorInv /\ [EditorNext]_editorVars => EditorInv'
<1> SUFFICES ASSUME EditorInv, [EditorNext]_editorVars PROVE EditorInv'
  OBVIOUS
<1>0. EditorTypeOK /\ OneAtATime /\ OwnTemporary /\ LookedAt
  BY DEF EditorInv
<1>1. CASE OpenFile \/ Type \/ CloseTab
  <2>1. UNCHANGED <<file, temporary, saves>>
    BY <1>1 DEF OpenFile, Type, CloseTab
  <2>2. contents' \in Nat /\ tab' \in [open : BOOLEAN, content : Nat, version : Nat, dirty : BOOLEAN]
    <3>1. CASE OpenFile
      BY <1>0, <3>1 DEF OpenFile, EditorTypeOK
    <3>3. CASE CloseTab
      BY <1>0, <3>3 DEF CloseTab, NoTab, EditorTypeOK
    <3>2. CASE Type
      <4>1. PICK c \in Nat : c = contents + 1
        BY <1>0 DEF EditorTypeOK
      <4> QED BY <1>0, <3>2, <4>1 DEF Type, EditorTypeOK
    <3> QED BY <1>1, <3>1, <3>2, <3>3
  <2> QED BY <1>0, <2>1, <2>2 DEF EditorInv, EditorTypeOK, OneAtATime, OwnTemporary, LookedAt
<1>2. CASE WriteOutside
  <2>1. \A n \in SaveIds : /\ saves'[n].pc = saves[n].pc /\ saves'[n] \in Content
                           /\ saves'[n].late = (saves[n].late \/ saves[n].pc = "rename")
    BY <1>0, <1>2 DEF WriteOutside, EditorTypeOK, Content
  <2>2. saves' \in [SaveIds -> Content]
    BY <1>2, <2>1 DEF WriteOutside
  <2>3. EditorTypeOK'
    BY <1>0, <1>2, <2>2 DEF WriteOutside, EditorTypeOK
  <2>4. temporary' = temporary
    BY <1>2 DEF WriteOutside
  <2>5. \A n \in SaveIds : saves[n].pc = "rename" => saves'[n].late
    BY <2>1
  <2>6. OneAtATime' /\ OwnTemporary'
    BY <1>0, <2>1, <2>4 DEF OneAtATime, OwnTemporary
  <2>7. LookedAt'
    BY <2>1, <2>5 DEF LookedAt
  <2> QED BY <2>3, <2>6, <2>7 DEF EditorInv
<1>3. CASE SaveActive
  <2>1. PICK n \in SaveIds :
          /\ saves[n].pc = "none"
          /\ saves' = [saves EXCEPT ![n] = [NoSave EXCEPT !.pc = "resolve", !.content = tab.content,
                                                          !.version = tab.version]]
    BY <1>3 DEF SaveActive
  <2>2. [NoSave EXCEPT !.pc = "resolve", !.content = tab.content, !.version = tab.version] \in Content
    BY <1>0 DEF NoSave, Content, SavePcs, EditorTypeOK
  <2>3. saves' \in [SaveIds -> Content] /\ saves'[n].pc = "resolve"
    BY <1>0, <2>1, <2>2 DEF EditorTypeOK, NoSave
  <2>4. \A m \in SaveIds : m # n => saves'[m] = saves[m]
    BY <1>0, <2>1 DEF EditorTypeOK
  <2>5. UNCHANGED <<file, temporary, tab, contents>>
    BY <1>3 DEF SaveActive
  <2> QED BY <1>0, <2>3, <2>4, <2>5
          DEF EditorInv, EditorTypeOK, OneAtATime, OwnTemporary, LookedAt, UnderWay
<1>4. CASE UNCHANGED editorVars
  BY <1>0, <1>4 DEF editorVars, EditorInv, EditorTypeOK, OneAtATime, OwnTemporary, LookedAt
<1> QED BY <1>1, <1>2, <1>3, <1>4, EditorInvTurn DEF EditorNext, Turns

\* A save that is answered with success has put its own content on disk, over the content
\* its tab was opened or last saved with: whatever saves and writes of the agent overlap,
\* only a write after its second look is lost.
THEOREM SavesReplaceWhatWasRead == EditorSpec => SaveReplacesWhatWasRead
<1> DEFINE Replaces == \A n \in SaveIds : saves[n].pc = "rename" /\ saves'[n].pc = "saved" =>
                         /\ file' = saves[n].content
                         /\ file = saves[n].version \/ saves[n].late
<1>1. EditorInv /\ [EditorNext]_editorVars => [Replaces]_editorVars
  <2> SUFFICES ASSUME EditorInv, EditorNext, NEW n \in SaveIds,
                      saves[n].pc = "rename", saves'[n].pc = "saved"
               PROVE  file' = saves[n].content /\ (file = saves[n].version \/ saves[n].late)
    OBVIOUS
  <2>1. file = saves[n].version \/ saves[n].late
    BY DEF EditorInv, LookedAt
  <2>2. saves \in [SaveIds -> Content] /\ saves'[n].pc # saves[n].pc
    BY DEF EditorInv, EditorTypeOK
  <2>3. ~(OpenFile \/ Type \/ CloseTab \/ WriteOutside \/ SaveActive)
    <3>1. ~(OpenFile \/ Type \/ CloseTab)
      BY <2>2 DEF OpenFile, Type, CloseTab
    <3>2. ~WriteOutside
      BY <2>2 DEF WriteOutside, Content
    <3>3. ~SaveActive
      BY <2>2 DEF SaveActive, NoSave
    <3> QED BY <3>1, <3>2, <3>3
  <2>4. PICK m \in SaveIds : Turns(m)
    BY <2>3 DEF EditorNext, Turns
  <2>5. Rename(m)
    <3>1. ASSUME NEW pc \in SavePcs, saves' = [saves EXCEPT ![m].pc = pc]  PROVE pc = "saved"
      BY <2>2, <3>1 DEF Content
    <3>2. ~BeginSave(m)
      BY <3>1 DEF BeginSave, SavePcs, UnderWay
    <3>3. ~CompareBefore(m) /\ ~WriteTemporary(m) /\ ~CompareAgain(m) /\ ~ReceiveAnswer(m)
      BY <3>1 DEF CompareBefore, WriteTemporary, CompareAgain, ReceiveAnswer, Give, Advance, SavePcs,
                  UnderWay
    <3> QED BY <2>4, <3>2, <3>3 DEF Turns
  <2>6. m = n /\ temporary = n
    BY <2>5 DEF Rename, EditorInv, OneAtATime, OwnTemporary, UnderWay
  <2>7. ~Give(n, "refused")
    BY <2>2 DEF Give, Content
  <2> QED BY <2>1, <2>5, <2>6, <2>7 DEF Rename
<1> QED BY <1>1, EditorInvInit, EditorInvStep, PTL DEF EditorSpec, SaveReplacesWhatWasRead

-----------------------------------------------------------------------------
(* Cron *)

\* A set of instants with a lower bound has a first one.
LEMMA EarliestOf ==
  ASSUME NEW T \in SUBSET Int, T # {}, NEW low \in Int, \A t \in T : low <= t
  PROVE  \E t \in T : \A u \in T : t <= u
<1> DEFINE S == {t - low : t \in T}
<1>1. S \in SUBSET Nat /\ S # {}
  <2>1. \A t \in T : t - low \in Nat
    OBVIOUS
  <2> QED BY <2>1
<1>2. PICK s \in S : \A r \in S : ~(<<r, s>> \in OpToRel(<, Nat))
  BY <1>1, NatLessThanWellFounded, WFMin
<1>3. PICK t \in T : s = t - low
  BY <1>2
<1>4. \A u \in T : ~(u - low < s)
  BY <1>1, <1>2 DEF OpToRel
<1> QED BY <1>3, <1>4

\* What CHOOSE takes from such a set.
Earliest(T) == IF T = {} THEN Never ELSE CHOOSE t \in T : \A u \in T : t <= u

LEMMA EarliestIsFirst ==
  ASSUME NEW T \in SUBSET Int, T # {}, NEW low \in Int, \A t \in T : low <= t
  PROVE  Earliest(T) \in T /\ \A u \in T : Earliest(T) <= u
BY EarliestOf DEF Earliest

\* The calendar.
LEMMA Calendar ==
  /\ MinutesPerHour \in Nat \ {0} /\ HoursPerDay \in Nat \ {0} /\ DaysPerMonth \in Nat \ {0}
  /\ MonthsPerYear \in Nat \ {0} /\ DaysPerWeek \in Nat \ {0} /\ MaxScanDays \in Nat
  /\ PerDay \in Nat \ {0} /\ PerDay = (2 * MinutesPerHour) * HoursPerDay
<1>1. /\ MinutesPerHour \in Nat \ {0} /\ HoursPerDay \in Nat \ {0} /\ DaysPerMonth \in Nat \ {0}
      /\ MonthsPerYear \in Nat \ {0} /\ DaysPerWeek \in Nat \ {0} /\ MaxScanDays \in Nat
  BY CalendarAssumption
<1>2. 2 * MinutesPerHour \in Nat \ {0}
  BY <1>1
<1>3. \A a, b \in Nat \ {0} : a * b \in Nat \ {0}
  OBVIOUS
<1> QED BY <1>1, <1>2, <1>3 DEF PerDay

\* Division as the unique quotient and remainder.
LEMMA Division ==
  ASSUME NEW a \in Int, NEW b \in Nat \ {0}
  PROVE  a \div b \in Int /\ a % b \in 0..(b - 1) /\ a = b * (a \div b) + (a % b)
OBVIOUS

LEMMA DivisionIsUnique ==
  ASSUME NEW b \in Nat \ {0}, NEW q \in Int, NEW r \in 0..(b - 1)
  PROVE  (b * q + r) \div b = q /\ (b * q + r) % b = r
<1> DEFINE a == b * q + r
           p == a \div b
<1>1. a \in Int /\ p \in Int /\ a % b \in 0..(b - 1) /\ a = b * p + (a % b)
  BY Division
<1>2. b * q + r = b * p + (a % b)
  BY <1>1
<1> HIDE DEF a, p
<1>3. ~(q < p)
  <2> SUFFICES ASSUME q + 1 <= p PROVE FALSE
    BY <1>1
  <2>1. b * (q + 1) <= b * p
    BY <1>1
  <2>2. b * (q + 1) = b * q + b
    OBVIOUS
  <2> QED BY <1>1, <1>2, <2>1, <2>2
<1>4. ~(p < q)
  <2> SUFFICES ASSUME p + 1 <= q PROVE FALSE
    BY <1>1
  <2>1. b * (p + 1) <= b * q
    BY <1>1
  <2>2. b * (p + 1) = b * p + b
    BY <1>1
  <2> QED BY <1>1, <1>2, <2>1, <2>2
<1>5. p = q
  BY <1>1, <1>3, <1>4
<1>6. a % b = r
  BY <1>1, <1>2, <1>5
<1> QED BY <1>5, <1>6 DEF a, p

-----------------------------------------------------------------------------
(* next_fire *)

\* The days that are scanned, and the slots of a day.
Scanned(floor) == DayOf(floor)..(DayOf(floor) + MaxScanDays - 1)
Slots(spec, floor) ==
  {t \in {InstantAt(d, h, m) : d \in {d \in Scanned(floor) : DateMatches(spec, d)},
                               h \in spec.values["hour"], m \in spec.values["minute"]} : t >= floor}

LEMMA FieldsInRange ==
  ASSUME NEW expr, IsCron(expr)
  PROVE  /\ Parse(expr).values["minute"] \subseteq 0..(MinutesPerHour - 1)
         /\ Parse(expr).values["hour"] \subseteq 0..(HoursPerDay - 1)
<1>1. \A f \in CronFields : Parse(expr).values[f] = ExpandField(expr[f], f)
  BY DEF Parse
<1>2. Highest("minute") = MinutesPerHour - 1 /\ Highest("hour") = HoursPerDay - 1
      /\ Lowest("minute") = 0 /\ Lowest("hour") = 0
  BY DEF Highest, Lowest
<1>3. \A f \in CronFields : Parse(expr).values[f] \subseteq Lowest(f)..Highest(f)
  BY <1>1 DEF IsCron
<1> QED BY <1>2, <1>3 DEF CronFields

\* An hour and a minute are within a day.
LEMMA TimeOfDay ==
  ASSUME NEW h \in 0..(HoursPerDay - 1), NEW m \in 0..(MinutesPerHour - 1)
  PROVE  2 * (h * MinutesPerHour + m) \in 0..(PerDay - 1)
<1> DEFINE M == MinutesPerHour
           H == HoursPerDay
<1>1. M \in Nat \ {0} /\ H \in Nat \ {0} /\ PerDay = (2 * M) * H /\ h \in Nat /\ m \in Nat /\ m < M
  BY Calendar
<1>2. h + 1 <= H
  BY <1>1
<1>3. (h + 1) * M <= H * M
  <2> HIDE DEF M, H
  <2> QED BY <1>1, <1>2
<1>4. (h + 1) * M = h * M + M /\ h * M \in Nat /\ PerDay = 2 * (H * M) /\ H * M \in Nat
  <2> HIDE DEF M, H
  <2> QED BY <1>1
<1> HIDE DEF M, H
<1>5. 2 * (h * M + m) \in 0..(PerDay - 1)
  BY <1>1, <1>3, <1>4
<1> QED BY <1>5 DEF M

\* Where an instant of the calendar lies: its day, hour and minute are found again.
LEMMA InstantParts ==
  ASSUME NEW d \in Int, NEW h \in 0..(HoursPerDay - 1), NEW m \in 0..(MinutesPerHour - 1),
         NEW t, t = InstantAt(d, h, m)
  PROVE  /\ t \in Int /\ t % 2 = 0 /\ DayOf(t) = d
         /\ (t \div 2) % MinutesPerHour = m
         /\ (t \div (2 * MinutesPerHour)) % HoursPerDay = h
<1> DEFINE M == MinutesPerHour
           H == HoursPerDay
           r == 2 * (h * M + m)
           k == M * (H * d + h) + m
<1>1. /\ M \in Nat \ {0} /\ H \in Nat \ {0} /\ 2 * M \in Nat \ {0} /\ d \in Int /\ h \in Nat /\ m \in Nat
      /\ m < M /\ h < H /\ PerDay = (2 * M) * H /\ PerDay \in Nat \ {0}
  BY Calendar
<1>2. r \in 0..(PerDay - 1)
  BY TimeOfDay
<1>3. t = d * PerDay + r
  BY DEF InstantAt
<1> HIDE DEF M, H
<1>4. t = PerDay * d + r /\ r \in Int
  BY <1>1, <1>3
<1>5. DayOf(t) = d
  <2> HIDE DEF r
  <2> QED BY <1>1, <1>2, <1>4, DivisionIsUnique DEF DayOf
<1>6. H * d + h \in Int /\ k \in Int
  BY <1>1
<1>7. t = 2 * k + 0
  <2>1. PerDay * d = 2 * (M * (H * d))
    BY <1>1
  <2>2. M * (H * d + h) = M * (H * d) + h * M
    BY <1>1
  <2>3. M * (H * d) \in Int /\ h * M \in Int
    BY <1>1
  <2> QED BY <1>1, <1>4, <2>1, <2>2, <2>3
<1>8. t \div 2 = k /\ t % 2 = 0
  <2> HIDE DEF k
  <2> QED BY <1>6, <1>7
<1>9. (t \div 2) % M = m
  <2> DEFINE q == H * d + h
  <2>1. q \in Int /\ m \in 0..(M - 1) /\ k = M * q + m
    BY <1>1, <1>6
  <2> HIDE DEF q, k
  <2>2. k % M = m
    BY <1>1, <2>1, DivisionIsUnique
  <2> QED BY <1>8, <2>2
<1>10. t \div (2 * M) = H * d + h
  <2> DEFINE q == H * d + h
  <2>1. q \in Int /\ 2 * m \in 0..(2 * M - 1)
    BY <1>1, <1>6
  <2>2. t = (2 * M) * q + 2 * m
    BY <1>1, <1>6, <1>7
  <2> HIDE DEF q, k
  <2>3. t \div (2 * M) = q
    BY <1>1, <2>1, <2>2, DivisionIsUnique
  <2> QED BY <2>3 DEF q
<1>11. (H * d + h) % H = h
  BY <1>1, DivisionIsUnique
<1>12. t \in Int
  <2> HIDE DEF k
  <2> QED BY <1>6, <1>7
<1> QED BY <1>5, <1>8, <1>9, <1>10, <1>11, <1>12 DEF M, H

\* Every whole minute is an instant of the calendar.
LEMMA PartsOfInstant ==
  ASSUME NEW t \in Int, t % 2 = 0
  PROVE  LET h == (t \div (2 * MinutesPerHour)) % HoursPerDay
             m == (t \div 2) % MinutesPerHour
         IN  /\ h \in 0..(HoursPerDay - 1) /\ m \in 0..(MinutesPerHour - 1) /\ DayOf(t) \in Int
             /\ t = InstantAt(DayOf(t), h, m)
<1> DEFINE M == MinutesPerHour
           H == HoursPerDay
           k == t \div 2
           m == k % M
           q == k \div M
           h == q % H
           e == q \div H
<1>1. /\ M \in Nat \ {0} /\ H \in Nat \ {0} /\ 2 * M \in Nat \ {0} /\ PerDay = (2 * M) * H
      /\ PerDay \in Nat \ {0}
  BY Calendar
<1>2. k \in Int /\ t = 2 * k
  OBVIOUS
<1> HIDE DEF M, H, k
<1>3. q \in Int /\ m \in 0..(M - 1) /\ k = M * q + m
  BY <1>1, <1>2, Division
<1> HIDE DEF q, m
<1>4. e \in Int /\ h \in 0..(H - 1) /\ q = H * e + h
  BY <1>1, <1>3, Division
<1> HIDE DEF e, h
<1>5. t \div (2 * M) = q
  <2>1. 2 * m \in 0..(2 * M - 1) /\ t = (2 * M) * q + 2 * m
    BY <1>1, <1>2, <1>3
  <2> QED BY <1>1, <1>3, <2>1, DivisionIsUnique
<1>6. t = InstantAt(e, h, m)
  <2>1. M * (H * e + h) = M * (H * e) + h * M
    BY <1>1, <1>4
  <2>2. e * PerDay = 2 * (M * (H * e)) /\ M * (H * e) \in Int /\ h * M \in Int
    BY <1>1, <1>4
  <2>3. t = e * PerDay + 2 * (h * M + m)
    BY <1>2, <1>3, <1>4, <2>1, <2>2
  <2> QED BY <2>3 DEF InstantAt, M
<1>7. DayOf(t) = e
  BY <1>3, <1>4, <1>6, InstantParts DEF M, H
<1>8. (t \div (2 * M)) % H = h /\ (t \div 2) % M = m
  BY <1>5 DEF h, m, k
<1> QED BY <1>3, <1>4, <1>6, <1>7, <1>8 DEF M, H

LEMMA NextFireIsEarliest ==
  ASSUME NEW expr, NEW after \in Int
  PROVE  NextFire(expr, after) = Earliest(Slots(Parse(expr), after + 2))
BY DEF NextFire, Earliest, Slots, Scanned

\* next_fire gives nothing, or an instant at least a minute ahead.
LEMMA NextFireIsLater ==
  ASSUME NEW expr, IsCron(expr), NEW after \in Int
  PROVE  /\ NextFire(expr, after) \in Int
         /\ NextFire(expr, after) = Never \/ NextFire(expr, after) >= after + 2
<1> DEFINE T == Slots(Parse(expr), after + 2)
<1>1. T \in SUBSET Int /\ \A t \in T : after + 2 <= t
  <2> SUFFICES ASSUME NEW t \in T PROVE t \in Int /\ after + 2 <= t
    OBVIOUS
  <2>1. PICK d \in Scanned(after + 2), h \in Parse(expr).values["hour"],
             m \in Parse(expr).values["minute"] : t = InstantAt(d, h, m) /\ t >= after + 2
    BY DEF Slots
  <2>2. d \in Int /\ h \in 0..(HoursPerDay - 1) /\ m \in 0..(MinutesPerHour - 1)
    BY <2>1, FieldsInRange, Calendar, Division DEF Scanned, DayOf
  <2>3. t \in Int
    BY <2>1, <2>2, InstantParts
  <2> QED BY <2>1, <2>3
<1>2. CASE T = {}
  BY <1>2, NextFireIsEarliest DEF Earliest, Never
<1>3. CASE T # {}
  <2>1. Earliest(T) \in T
    <3> HIDE DEF T
    <3>1. after + 2 \in Int
      OBVIOUS
    <3> QED BY <1>1, <1>3, <3>1, EarliestIsFirst
  <2>2. NextFire(expr, after) \in T
    BY <2>1, NextFireIsEarliest
  <2> QED BY <1>1, <2>2
<1> QED BY <1>2, <1>3

\* The instants, from one minute on and as far as the days that are scanned, at which
\* matches says that the expression fires.
Firings(expr, floor) ==
  {u \in floor..((DayOf(floor) + MaxScanDays) * PerDay - 1) : Fires(expr, u)}

\* The slots that next_fire makes up of days, hours and minutes are the instants that match.
LEMMA SlotsAreFirings ==
  ASSUME NEW expr, IsCron(expr), NEW floor \in Int
  PROVE  Slots(Parse(expr), floor) = Firings(expr, floor)
<1> DEFINE spec == Parse(expr)
           first == DayOf(floor)
           end == first + MaxScanDays
<1>0. /\ first \in Int /\ end \in Int /\ PerDay \in Nat \ {0} /\ MaxScanDays \in Nat
      /\ first * PerDay <= floor
  <2>1. first \in Int /\ floor = PerDay * first + (floor % PerDay) /\ floor % PerDay \in 0..(PerDay - 1)
    BY Calendar, Division DEF DayOf
  <2> HIDE DEF first
  <2>2. PerDay \in Nat \ {0} /\ MaxScanDays \in Nat
    BY Calendar
  <2>3. PerDay * first = first * PerDay /\ first * PerDay \in Int
    BY <2>1, <2>2
  <2> QED BY <2>1, <2>2, <2>3
<1>1. ASSUME NEW t \in Slots(spec, floor)  PROVE t \in Firings(expr, floor)
  <2>1. PICK d \in Scanned(floor), h \in spec.values["hour"], m \in spec.values["minute"] :
               t = InstantAt(d, h, m) /\ t >= floor /\ DateMatches(spec, d)
    BY DEF Slots
  <2>2. d \in Int /\ h \in 0..(HoursPerDay - 1) /\ m \in 0..(MinutesPerHour - 1) /\ d + 1 <= end
    BY <1>0, <2>1, FieldsInRange DEF Scanned
  <2>3. /\ t \in Int /\ t % 2 = 0 /\ DayOf(t) = d
        /\ (t \div 2) % MinutesPerHour = m /\ (t \div (2 * MinutesPerHour)) % HoursPerDay = h
    BY <2>1, <2>2, InstantParts
  <2>4. Fires(expr, t)
    BY <2>1, <2>3 DEF Fires
  <2>5. t <= end * PerDay - 1
    <3>1. t = d * PerDay + 2 * (h * MinutesPerHour + m)
      BY <2>1 DEF InstantAt
    <3>2. 2 * (h * MinutesPerHour + m) \in 0..(PerDay - 1)
      BY <2>2, TimeOfDay
    <3>3. t <= d * PerDay + (PerDay - 1)
      <4> DEFINE r == 2 * (h * MinutesPerHour + m)
      <4> HIDE DEF r
      <4> QED BY <1>0, <2>2, <2>3, <3>1, <3>2 DEF r
    <3>4. (d + 1) * PerDay <= end * PerDay
      <4> HIDE DEF end
      <4> QED BY <1>0, <2>2
    <3>5. (d + 1) * PerDay = d * PerDay + PerDay /\ d * PerDay \in Int /\ end * PerDay \in Int
      <4> HIDE DEF end
      <4> QED BY <1>0, <2>2
    <3> HIDE DEF end
    <3> QED BY <1>0, <2>3, <3>3, <3>4, <3>5
  <2> QED BY <2>1, <2>3, <2>4, <2>5 DEF Firings
<1>2. ASSUME NEW t \in Firings(expr, floor)  PROVE t \in Slots(spec, floor)
  <2>1. t \in Int /\ floor <= t /\ t <= end * PerDay - 1 /\ Fires(expr, t)
    <3> HIDE DEF end
    <3>1. end * PerDay \in Int
      BY <1>0
    <3> QED BY <3>1 DEF Firings, end
  <2> DEFINE h == (t \div (2 * MinutesPerHour)) % HoursPerDay
             m == (t \div 2) % MinutesPerHour
             d == DayOf(t)
  <2>2. t % 2 = 0 /\ m \in spec.values["minute"] /\ h \in spec.values["hour"] /\ DateMatches(spec, d)
    BY <2>1 DEF Fires
  <2>3. d \in Int /\ t = InstantAt(d, h, m)
    BY <2>1, <2>2, PartsOfInstant
  <2>4. d \in Scanned(floor)
    <3>1. t = PerDay * d + (t % PerDay) /\ t % PerDay \in 0..(PerDay - 1)
      BY <1>0, <2>1, Division DEF DayOf
    <3> HIDE DEF d, end, first
    <3>2. PerDay * d <= t /\ t < PerDay * d + PerDay /\ PerDay * d \in Int
      <4>1. PerDay * d \in Int
        BY <1>0, <2>3
      <4> QED BY <1>0, <2>1, <3>1, <4>1
    <3>3. ~(d >= end)
      <4> SUFFICES ASSUME end <= d PROVE FALSE
        BY <1>0, <2>3
      <4>1. end * PerDay <= PerDay * d /\ end * PerDay \in Int
        BY <1>0, <2>3
      <4> QED BY <1>0, <2>1, <3>2, <4>1
    <3>4. ~(d < first)
      <4> SUFFICES ASSUME d + 1 <= first PROVE FALSE
        BY <1>0, <2>3
      <4>1. PerDay * (d + 1) <= first * PerDay /\ first * PerDay \in Int
        BY <1>0, <2>3
      <4>2. PerDay * (d + 1) = PerDay * d + PerDay
        BY <1>0, <2>3
      <4> QED BY <1>0, <2>1, <3>2, <4>1, <4>2
    <3> QED BY <1>0, <2>3, <3>3, <3>4 DEF Scanned, end, first
  <2> QED BY <2>1, <2>2, <2>3, <2>4 DEF Slots
<1> QED BY <1>1, <1>2

\* next_fire of every expression on every calendar: the first firing, if one is scanned.
LEMMA NextFireIsFirstFiring ==
  ASSUME NEW expr, IsCron(expr), NEW after \in Int
  PROVE  NextFire(expr, after) = Earliest(Firings(expr, after + 2))
BY NextFireIsEarliest, SlotsAreFirings

-----------------------------------------------------------------------------
(* Schedules *)

RowType == [cron : (ScheduleCrons \cap ValidCrons) \cup {"none"}, paused : BOOLEAN, next : Int]
DueType == [id : ScheduleIds, cron : ValidCrons, slot : Int]
LoopType ==
  [pc : {"sleep", "fire", "mint", "down"}, todo : SUBSET DueType, at : DueType \cup {NoRow}]

ScheduleTypeOK ==
  /\ clock \in Dawn..Horizon
  /\ schedules \in [ScheduleIds -> RowType]
  /\ admin = NoAdmin \/ admin \in [id : ScheduleIds, paused : BOOLEAN, next : Int]
  /\ loop \in LoopType /\ (loop.pc = "mint" => loop.at \in DueType)
  /\ ran \in [ScheduleIds -> Int] /\ quietSince \in [ScheduleIds -> Int]

\* What was read as due and has no task yet.
Pending == loop.todo \cup {d \in {loop.at} : loop.pc = "mint"}

\* A schedule whose expressions, in its row and read from it, were never behind UTC.
InTime(i) == i \in ScheduleIds /\ i \notin behind
ZonesInTime ==
  \A i \in ScheduleIds : InTime(i) =>
     /\ Exists(i) => NeverBehind(schedules[i].cron)
     /\ \A d \in Pending : d.id = i => NeverBehind(d.cron)

\* What is pending is due, and once.
PendingIsDue == \A d \in Pending : d.slot <= clock
RanBefore == \A i \in ScheduleIds : ran[i] <= clock
OncePending ==
  /\ \A d, e \in loop.todo : d.id = e.id => d = e
  /\ loop.pc = "mint" => \A d \in loop.todo : d.id # loop.at.id

\* What is to come is later than what was run, and the slots of the rows read, claimed and
\* to be written come in that order: ran, pending, clock, next.
RowsAhead ==
  \A i \in ScheduleIds :
     InTime(i) /\ Exists(i) /\ schedules[i].next # Never => schedules[i].next > ran[i]
ClaimedAhead ==
  loop.pc = "mint" /\ InTime(loop.at.id) =>
    LET row == schedules[loop.at.id]
    IN  row.cron # "none" /\ row.next # Never => row.next > loop.at.slot
AdminAhead ==
  admin # NoAdmin /\ InTime(admin.id) /\ admin.next # Never => admin.next > clock
PendingIsNew == \A d \in Pending : InTime(d.id) => ran[d.id] < d.slot
SlotInv ==
  /\ ZonesInTime /\ PendingIsDue /\ RanBefore /\ OncePending
  /\ RowsAhead /\ ClaimedAhead /\ AdminAhead /\ PendingIsNew
  /\ again \subseteq behind

\* A schedule that is quiet is paused or gone, and what is pending of it was due before.
QuietRows ==
  \A i \in ScheduleIds : Exists(i) /\ ~schedules[i].paused => quietSince[i] = Never
QuietPending ==
  \A d \in Pending : quietSince[d.id] # Never => d.slot <= quietSince[d.id]
QuietInv == QuietRows /\ QuietPending

ScheduleInv == ScheduleTypeOK /\ SlotInv /\ QuietInv

LEMMA NextRunIsLater ==
  ASSUME NEW c \in ValidCrons, clock \in Dawn..Horizon
  PROVE  NextAt(c) \in Int /\ (NeverBehind(c) => NextAt(c) = Never \/ NextAt(c) > clock)
<1> DEFINE w == Wall(c, clock)
<1>1. /\ w \in 0..CronSpan /\ w \in Int /\ clock \in Int
      /\ NeverBehind(c) => clock <= w
  <2>1. c \in CronSamples /\ clock \in Int /\ CronSpan \in Int
    BY ScheduleAssumption DEF ValidCrons
  <2>2. Offset(c, clock) \in Int /\ w \in 0..CronSpan
    BY <2>1, ZoneAssumption
  <2>3. NeverBehind(c) => Offset(c, clock) >= 0
    BY DEF NeverBehind
  <2> QED BY <2>1, <2>2, <2>3 DEF Wall
<1> HIDE DEF w
<1>2. NextAt(c) = NextFire(CronText(c), w) /\ IsCron(CronText(c))
  BY <1>1 DEF NextRun, NextAt, ValidCrons, w
<1>3. NextAt(c) \in Int /\ (NextAt(c) = Never \/ NextAt(c) >= w + 2)
  BY <1>1, <1>2, NextFireIsLater
<1> QED BY <1>1, <1>3

LEMMA ScheduleInvInit == ScheduleInit => ScheduleInv
<1> SUFFICES ASSUME ScheduleInit PROVE ScheduleInv
  OBVIOUS
<1>1. Dawn \in Dawn..Horizon /\ Never <= Dawn
  BY ScheduleAssumption DEF Never
<1>2. ScheduleTypeOK
  BY <1>1 DEF ScheduleInit, ScheduleTypeOK, RowType, LoopType, NoRow, Never
<1>3. Pending = {}
  BY DEF ScheduleInit, Pending
<1>4. ZonesInTime /\ PendingIsDue /\ PendingIsNew /\ RanBefore
  BY <1>1, <1>3 DEF ScheduleInit, ZonesInTime, PendingIsDue, PendingIsNew, RanBefore, Exists, NoRow
<1> QED BY <1>2, <1>3, <1>4
        DEF ScheduleInit, ScheduleInv, SlotInv, RowsAhead, ClaimedAhead, AdminAhead,
            OncePending, QuietInv, QuietRows, QuietPending, Exists, NoRow

\* The rows of the table change: one of them, and what is kept about its quiet.
LEMMA RowChanges ==
  ASSUME ScheduleInv, NEW i \in ScheduleIds, NEW row \in RowType, NEW since \in Int,
         UNCHANGED <<clock, loop, ran, again>>,
         behind \subseteq behind', \A j \in ScheduleIds : j # i => (j \in behind' <=> j \in behind),
         schedules' = [schedules EXCEPT ![i] = row], quietSince' = [quietSince EXCEPT ![i] = since],
         admin' = admin \/ admin' = NoAdmin,
         row.cron # "none" /\ i \notin behind' => NeverBehind(row.cron),
         row.cron # "none" /\ i \notin behind' /\ row.next # Never => row.next > clock,
         row.cron # "none" /\ ~row.paused => since = Never,
         since \in {Never, clock, quietSince[i]}
  PROVE  ScheduleInv'
<1>0. ScheduleTypeOK /\ SlotInv /\ QuietInv /\ Pending' = Pending
  BY DEF ScheduleInv, Pending
<1>1. /\ schedules' \in [ScheduleIds -> RowType] /\ quietSince' \in [ScheduleIds -> Int]
      /\ schedules'[i] = row /\ quietSince'[i] = since
      /\ \A j \in ScheduleIds : j # i => schedules'[j] = schedules[j] /\ quietSince'[j] = quietSince[j]
  BY <1>0 DEF ScheduleTypeOK
<1>2. ScheduleTypeOK'
  BY <1>0, <1>1 DEF ScheduleTypeOK
<1>3. Pending \subseteq DueType /\ clock \in Int /\ \A j \in ScheduleIds : ran[j] \in Int
  BY <1>0, ScheduleAssumption DEF ScheduleTypeOK, LoopType, Pending
<1>4. row.next \in Int /\ \A d \in DueType : d.id \in ScheduleIds /\ d.slot \in Int
  BY DEF RowType, DueType
<1>5. RowsAhead' /\ ZonesInTime'
  BY <1>0, <1>1, <1>3, <1>4 DEF SlotInv, RowsAhead, RanBefore, ZonesInTime, InTime, Exists
<1>6. ClaimedAhead'
  <2>1. loop.pc = "mint" => loop.at \in Pending /\ loop.at \in DueType
    BY <1>0 DEF ScheduleTypeOK, LoopType, Pending
  <2> QED BY <1>0, <1>1, <1>3, <1>4, <2>1 DEF SlotInv, ClaimedAhead, PendingIsDue, InTime, Exists
<1>7. /\ AdminAhead' /\ PendingIsDue' /\ PendingIsNew' /\ RanBefore' /\ OncePending'
      /\ again' \subseteq behind'
  BY <1>0 DEF SlotInv, AdminAhead, PendingIsDue, PendingIsNew, RanBefore, OncePending, InTime
<1>8. QuietRows'
  BY <1>0, <1>1 DEF QuietInv, QuietRows, Exists
<1>9. QuietPending'
  BY <1>0, <1>1, <1>3, <1>4 DEF QuietInv, QuietPending, SlotInv, PendingIsDue
<1> QED BY <1>2, <1>5, <1>6, <1>7, <1>8, <1>9 DEF ScheduleInv, SlotInv, QuietInv

LEMMA RowSteps ==
  ASSUME ScheduleInv, NEW i \in ScheduleIds, CreateSchedule(i) \/ DeleteSchedule(i)
  PROVE  ScheduleInv'
<1>0. ScheduleTypeOK /\ clock \in Dawn..Horizon /\ quietSince[i] \in Int /\ clock \in Int
  BY ScheduleAssumption DEF ScheduleInv, ScheduleTypeOK
<1>1. CASE CreateSchedule(i)
  <2>1. PICK c \in ScheduleCrons \cap ValidCrons :
          /\ schedules' = [schedules EXCEPT ![i] = [cron |-> c, paused |-> FALSE, next |-> NextAt(c)]]
          /\ behind' = IF NeverBehind(c) THEN behind ELSE behind \cup {i}
    BY <1>1 DEF CreateSchedule
  <2> DEFINE row == [cron |-> c, paused |-> FALSE, next |-> NextAt(c)]
  <2>2. NextAt(c) \in Int /\ (NeverBehind(c) => NextAt(c) = Never \/ NextAt(c) > clock)
    BY <1>0, <2>1, NextRunIsLater
  <2>3. row \in RowType /\ row.cron = c /\ row.next = NextAt(c) /\ ~row.paused
    BY <2>2 DEF RowType
  <2>6. i \notin behind' => NeverBehind(c)
    BY <2>1
  <2>7. behind \subseteq behind' /\ \A j \in ScheduleIds : j # i => (j \in behind' <=> j \in behind)
    BY <2>1
  <2> HIDE DEF row
  <2>4. UNCHANGED <<clock, loop, admin, ran, again>> /\ Never \in Int
    BY <1>1 DEF CreateSchedule, Never
  <2>5. quietSince' = [quietSince EXCEPT ![i] = Never] /\ schedules' = [schedules EXCEPT ![i] = row]
    BY <1>1, <2>1 DEF CreateSchedule, row
  <2> QED BY <2>2, <2>3, <2>4, <2>5, <2>6, <2>7, RowChanges
<1>2. CASE DeleteSchedule(i)
  <2> DEFINE since == IF quietSince[i] = Never THEN clock ELSE quietSince[i]
  <2>1. NoRow \in RowType /\ NoRow.cron = "none"
    BY DEF NoRow, RowType, Never
  <2>2. quietSince' = [quietSince EXCEPT ![i] = since]
    BY <1>2 DEF DeleteSchedule
  <2>3. since \in Int /\ since \in {Never, clock, quietSince[i]}
    BY <1>0
  <2> HIDE DEF since
  <2>4. UNCHANGED <<clock, loop, admin, ran, again, behind>> /\ schedules' = [schedules EXCEPT ![i] = NoRow]
    BY <1>2 DEF DeleteSchedule
  <2> QED BY <2>1, <2>2, <2>3, <2>4, RowChanges
<1> QED BY <1>1, <1>2

LEMMA PauseSteps ==
  ASSUME ScheduleInv, UpdatePaused
  PROVE  ScheduleInv'
<1> DEFINE i == admin.id
<1>0. ScheduleTypeOK /\ SlotInv /\ QuietInv /\ clock \in Int
  BY ScheduleAssumption DEF ScheduleInv, ScheduleTypeOK
<1>1. i \in ScheduleIds /\ admin.next \in Int /\ admin.paused \in BOOLEAN
  BY <1>0 DEF UpdatePaused, ScheduleTypeOK
<1>2. CASE Exists(i)
  <2> DEFINE row == [schedules[i] EXCEPT !.paused = admin.paused, !.next = admin.next]
             since == IF ~admin.paused THEN Never ELSE IF quietSince[i] = Never THEN clock ELSE quietSince[i]
  <2>1. /\ UNCHANGED <<clock, loop, ran, again, behind>> /\ admin' = NoAdmin
        /\ schedules' = [schedules EXCEPT ![i] = row]
    BY <1>2 DEF UpdatePaused
  <2>2. quietSince' = [quietSince EXCEPT ![i] = since]
    BY <1>2 DEF UpdatePaused
  <2>3. schedules[i] \in RowType /\ quietSince[i] \in Int /\ Never \in Int
    BY <1>0, <1>1 DEF ScheduleTypeOK, Never
  <2>4. row \in RowType /\ row.next = admin.next /\ row.paused = admin.paused
        /\ row.cron = schedules[i].cron
    BY <1>1, <2>3 DEF RowType
  <2>5. i \notin behind => NeverBehind(row.cron) /\ (row.next # Never => row.next > clock)
    BY <1>0, <1>1, <1>2, <2>4 DEF UpdatePaused, SlotInv, AdminAhead, ZonesInTime, InTime
  <2>6. since \in Int /\ since \in {Never, clock, quietSince[i]} /\ (~row.paused => since = Never)
    BY <1>0, <2>3, <2>4
  <2> HIDE DEF row, since, i
  <2> QED BY <1>1, <2>1, <2>2, <2>4, <2>5, <2>6, RowChanges DEF UpdatePaused
<1>3. CASE ~Exists(i)
  <2>1. UNCHANGED <<clock, schedules, quietSince, loop, ran, again, behind>> /\ admin' = NoAdmin
    BY <1>3 DEF UpdatePaused
  <2>2. SlotInv' /\ QuietInv' /\ ScheduleTypeOK'
    BY <1>0, <2>1 DEF SlotInv, QuietInv, QuietRows, QuietPending, RowsAhead, ClaimedAhead, AdminAhead,
                      ZonesInTime, PendingIsDue, PendingIsNew, RanBefore, OncePending, InTime, Pending,
                      Exists, ScheduleTypeOK
  <2> QED BY <2>2 DEF ScheduleInv
<1> QED BY <1>2, <1>3

\* Nothing but the clock, or the call that pauses, goes on.
LEMMA ClockSteps ==
  ASSUME ScheduleInv, PassTime \/ \E i \in ScheduleIds : SelectForPause(i)
  PROVE  ScheduleInv'
<1>0. ScheduleTypeOK /\ SlotInv /\ QuietInv /\ Pending' = Pending /\ clock \in Int
  BY ScheduleAssumption DEF ScheduleInv, ScheduleTypeOK, LoopType, Pending, PassTime, SelectForPause
<1>1. UNCHANGED <<schedules, loop, ran, again, behind, quietSince>>
  BY DEF PassTime, SelectForPause
<1>2. Pending \subseteq DueType /\ \A i \in ScheduleIds : ran[i] \in Int
  BY <1>0 DEF ScheduleTypeOK, LoopType, Pending
<1>3. clock' \in Dawn..Horizon /\ clock <= clock' /\ clock' \in Int
  BY <1>0, ScheduleAssumption DEF PassTime, SelectForPause, ScheduleTypeOK
<1>4. /\ admin' = NoAdmin \/ admin' \in [id : ScheduleIds, paused : BOOLEAN, next : Int]
      /\ AdminAhead'
  <2>1. CASE PassTime
    BY <1>0, <2>1 DEF PassTime, AdminAhead
  <2>2. ASSUME NEW i \in ScheduleIds, SelectForPause(i)
        PROVE  /\ admin' \in [id : ScheduleIds, paused : BOOLEAN, next : Int]
               /\ AdminAhead'
    <3>1. PICK p \in BOOLEAN :
            admin' = [id |-> i, paused |-> p,
                      next |-> IF p THEN Never ELSE NextAt(schedules[i].cron)]
      BY <2>2 DEF SelectForPause
    <3>2. schedules[i].cron \in ValidCrons
      BY <1>0, <2>2 DEF SelectForPause, Exists, ScheduleTypeOK, RowType
    <3> DEFINE next == NextAt(schedules[i].cron)
    <3>3. next \in Int /\ Never \in Int /\ (InTime(i) => next = Never \/ next > clock)
      <4>1. InTime(i) => NeverBehind(schedules[i].cron)
        BY <1>0, <2>2 DEF SlotInv, ZonesInTime, SelectForPause
      <4> QED BY <1>0, <3>2, <4>1, NextRunIsLater DEF ScheduleTypeOK, Never
    <3>4. UNCHANGED <<clock, behind>>
      BY <2>2 DEF SelectForPause
    <3> HIDE DEF next
    <3>5. PICK there \in Int : /\ admin' = [id |-> i, paused |-> p, next |-> there]
                              /\ (InTime(i) => there = Never \/ there > clock)
      BY <3>1, <3>3 DEF next
    <3>6. admin'.id = i /\ admin'.next = there
      BY <3>5
    <3>7. AdminAhead'
      BY <3>4, <3>5, <3>6 DEF AdminAhead, InTime
    <3> QED BY <3>5, <3>7
  <2> QED BY <2>1, <2>2
<1>5. ScheduleTypeOK'
  BY <1>0, <1>1, <1>3, <1>4 DEF ScheduleTypeOK
<1>6. PendingIsDue' /\ RanBefore'
  BY <1>0, <1>1, <1>2, <1>3 DEF SlotInv, PendingIsDue, RanBefore, DueType
<1>7. /\ RowsAhead' /\ ClaimedAhead' /\ OncePending' /\ PendingIsNew' /\ ZonesInTime'
      /\ again' \subseteq behind'
  BY <1>0, <1>1 DEF SlotInv, RowsAhead, ClaimedAhead, OncePending, PendingIsNew, ZonesInTime, InTime, Exists
<1>8. QuietInv'
  BY <1>0, <1>1 DEF QuietInv, QuietRows, QuietPending, Exists
<1> QED BY <1>4, <1>5, <1>6, <1>7, <1>8 DEF ScheduleInv, SlotInv

\* The loop turns to other due schedules, or to none.
LEMMA LoopTurns ==
  ASSUME ScheduleInv, UNCHANGED <<clock, schedules, admin, ran, again, behind, quietSince>>,
         loop' \in LoopType, loop'.pc # "mint",
         \A d, e \in loop'.todo : d.id = e.id => d = e,
         \A d \in loop'.todo : /\ InTime(d.id) => ran[d.id] < d.slot /\ NeverBehind(d.cron)
                               /\ d.slot <= clock
                               /\ quietSince[d.id] # Never => d.slot <= quietSince[d.id]
  PROVE  ScheduleInv'
<1>0. ScheduleTypeOK /\ SlotInv /\ QuietInv /\ Pending' = loop'.todo
  BY DEF ScheduleInv, Pending
<1>1. ScheduleTypeOK'
  BY <1>0 DEF ScheduleTypeOK
<1>2. SlotInv'
  BY <1>0 DEF SlotInv, RowsAhead, ClaimedAhead, AdminAhead, ZonesInTime, PendingIsDue, PendingIsNew,
              RanBefore, OncePending, InTime, Exists
<1>3. QuietInv'
  BY <1>0 DEF QuietInv, QuietRows, QuietPending, Exists
<1> QED BY <1>1, <1>2, <1>3 DEF ScheduleInv

LEMMA LoopSteps ==
  ASSUME ScheduleInv, ReadDue \/ FailTick \/ StopServer \/ StartServer
  PROVE  ScheduleInv'
<1>0. ScheduleTypeOK /\ SlotInv /\ QuietInv
  BY DEF ScheduleInv
<1>1. CASE FailTick \/ StopServer \/ StartServer
  <2>1. loop' \in LoopType /\ loop'.todo = {} /\ loop'.pc # "mint"
    BY <1>1 DEF FailTick, StopServer, StartServer, Sleeping, LoopType
  <2>2. UNCHANGED <<clock, schedules, admin, ran, again, behind, quietSince>>
    BY <1>1 DEF FailTick, StopServer, StartServer
  <2> QED BY <2>1, <2>2, LoopTurns
<1>2. CASE ReadDue
  <2> DEFINE todo == {[id |-> i, cron |-> schedules[i].cron, slot |-> schedules[i].next] : i \in Due}
  <2>1. loop' = [loop EXCEPT !.pc = "fire", !.todo = todo]
    BY <1>2 DEF ReadDue
  <2>2. UNCHANGED <<clock, schedules, admin, ran, again, behind, quietSince>>
    BY <1>2 DEF ReadDue
  <2>3. ASSUME NEW i \in Due
        PROVE  /\ i \in ScheduleIds /\ schedules[i].cron \in ValidCrons /\ schedules[i].next \in Int
               /\ InTime(i) => ran[i] < schedules[i].next /\ NeverBehind(schedules[i].cron)
               /\ schedules[i].next <= clock /\ quietSince[i] = Never
    BY <1>0 DEF Due, Exists, ScheduleTypeOK, RowType, SlotInv, RowsAhead, ZonesInTime, QuietInv, QuietRows
  <2>4. todo \subseteq DueType
    BY <2>3 DEF DueType
  <2>5. \A d, e \in todo : d.id = e.id => d = e
    OBVIOUS
  <2>6. \A d \in todo : /\ InTime(d.id) => ran[d.id] < d.slot /\ NeverBehind(d.cron)
                        /\ d.slot <= clock /\ quietSince[d.id] = Never
    BY <2>3
  <2> HIDE DEF todo
  <2>7. loop' \in LoopType /\ loop'.todo = todo /\ loop'.pc # "mint"
    BY <1>0, <2>1, <2>4 DEF ScheduleTypeOK, LoopType
  <2> QED BY <2>2, <2>5, <2>6, <2>7, LoopTurns
<1> QED BY <1>1, <1>2

LEMMA ClaimStep ==
  ASSUME ScheduleInv, Claim
  PROVE  ScheduleInv'
<1>0. ScheduleTypeOK /\ SlotInv /\ QuietInv /\ clock \in Dawn..Horizon /\ clock \in Int
  BY ScheduleAssumption DEF ScheduleInv, ScheduleTypeOK
<1>1. PICK d \in loop.todo :
        /\ loop' = [pc |-> "mint", todo |-> loop.todo \ {d}, at |-> d]
        /\ schedules' = [schedules EXCEPT ![d.id] =
             IF ~Exists(d.id) THEN @ ELSE [@ EXCEPT !.next = NextAt(d.cron)]]
  BY DEF Claim
<1>2. loop' \in LoopType /\ loop'.pc = "mint" /\ loop'.todo = loop.todo \ {d} /\ loop'.at = d
  BY <1>0, <1>1 DEF ScheduleTypeOK, LoopType
<1>3. UNCHANGED <<clock, admin, ran, again, behind, quietSince>>
  BY DEF Claim
<1>4. d \in DueType /\ d.id \in ScheduleIds /\ d.slot \in Int /\ d \in Pending
  BY <1>0 DEF ScheduleTypeOK, LoopType, DueType, Pending
<1> DEFINE next == NextAt(d.cron)
           row == IF ~Exists(d.id) THEN schedules[d.id] ELSE [schedules[d.id] EXCEPT !.next = next]
<1>5. next \in Int /\ (InTime(d.id) => next = Never \/ next > clock)
  <2>1. InTime(d.id) => NeverBehind(d.cron)
    BY <1>0, <1>4 DEF SlotInv, ZonesInTime
  <2> QED BY <1>0, <1>4, <2>1, NextRunIsLater DEF DueType
<1>6. /\ row \in RowType /\ row.cron = schedules[d.id].cron /\ row.paused = schedules[d.id].paused
      /\ row.cron # "none" => row.next = next
  <2>1. schedules[d.id] \in RowType
    BY <1>0, <1>4 DEF ScheduleTypeOK
  <2> HIDE DEF next
  <2> QED BY <1>5, <2>1 DEF RowType, Exists
<1>7. /\ schedules' \in [ScheduleIds -> RowType] /\ schedules'[d.id] = row
      /\ \A j \in ScheduleIds : j # d.id => schedules'[j] = schedules[j]
  <2>1. schedules' = [schedules EXCEPT ![d.id] = row]
    BY <1>1
  <2> HIDE DEF row
  <2> QED BY <1>0, <1>4, <1>6, <2>1 DEF ScheduleTypeOK
<1> HIDE DEF row, next
<1>8. Pending' \subseteq Pending
  BY <1>2 DEF Pending
<1>9. ScheduleTypeOK'
  BY <1>0, <1>2, <1>3, <1>4, <1>7 DEF ScheduleTypeOK
<1>10. /\ InTime(d.id) => ran[d.id] < d.slot
       /\ d.slot <= clock /\ ran[d.id] \in Int
  BY <1>0, <1>4 DEF SlotInv, PendingIsDue, PendingIsNew, ScheduleTypeOK
<1>11. RowsAhead' /\ ClaimedAhead'
  BY <1>0, <1>2, <1>3, <1>4, <1>5, <1>6, <1>7, <1>10 DEF SlotInv, RowsAhead, ClaimedAhead, InTime, Exists
<1>12. OncePending' /\ ZonesInTime'
  BY <1>0, <1>2, <1>3, <1>6, <1>7, <1>8 DEF SlotInv, OncePending, ZonesInTime, InTime, Exists
<1>13. AdminAhead' /\ RanBefore' /\ PendingIsDue' /\ PendingIsNew' /\ again' \subseteq behind'
  BY <1>0, <1>3, <1>8 DEF SlotInv, AdminAhead, RanBefore, PendingIsDue, PendingIsNew, InTime
<1>14. QuietRows'
  BY <1>0, <1>3, <1>6, <1>7 DEF QuietInv, QuietRows, Exists
<1>15. QuietPending'
  BY <1>0, <1>3, <1>8 DEF QuietInv, QuietPending
<1> QED BY <1>9, <1>11, <1>12, <1>13, <1>14, <1>15 DEF ScheduleInv, SlotInv, QuietInv

LEMMA MintStep ==
  ASSUME ScheduleInv, MintRun
  PROVE  ScheduleInv'
<1>0. ScheduleTypeOK /\ SlotInv /\ QuietInv
  BY DEF ScheduleInv
<1> DEFINE d == loop.at
<1>1. /\ loop.pc = "mint" /\ d \in DueType /\ d.id \in ScheduleIds /\ d.slot \in Int /\ d \in Pending
      /\ (InTime(d.id) => ran[d.id] < d.slot)
      /\ d.slot <= clock /\ ran[d.id] \in Int /\ clock \in Int
  BY <1>0, ScheduleAssumption DEF MintRun, ScheduleTypeOK, LoopType, DueType, Pending, SlotInv,
                                  PendingIsDue, PendingIsNew
<1>2. ran' = [ran EXCEPT ![d.id] = d.slot] /\ UNCHANGED <<clock, schedules, admin, behind, quietSince>>
  BY DEF MintRun
<1>3. again' \subseteq behind'
  <2>1. again' = IF d.slot <= ran[d.id] THEN again \cup {d.id} ELSE again
    BY DEF MintRun
  <2>2. d.slot <= ran[d.id] => d.id \in behind
    BY <1>1 DEF InTime
  <2> QED BY <1>0, <1>2, <2>1, <2>2 DEF SlotInv
<1>4. loop' \in LoopType /\ loop'.pc # "mint" /\ loop'.todo = loop.todo
  BY <1>0 DEF MintRun, Sleeping, ScheduleTypeOK, LoopType
<1>5. ScheduleTypeOK'
  BY <1>0, <1>1, <1>2, <1>4 DEF ScheduleTypeOK
<1>6. Pending' \subseteq Pending /\ \A e \in Pending' : e.id # d.id
  BY <1>0, <1>1, <1>4 DEF Pending, SlotInv, OncePending
<1>7. ran'[d.id] = d.slot /\ \A i \in ScheduleIds : i # d.id => ran'[i] = ran[i]
  BY <1>0, <1>1, <1>2 DEF ScheduleTypeOK
<1>8. Pending \subseteq DueType
  BY <1>0 DEF ScheduleTypeOK, LoopType, Pending
<1>9. RowsAhead' /\ ZonesInTime'
  BY <1>0, <1>1, <1>2, <1>6, <1>7 DEF SlotInv, RowsAhead, ClaimedAhead, ZonesInTime, InTime, Exists
<1>10. PendingIsDue' /\ PendingIsNew' /\ RanBefore'
  BY <1>0, <1>1, <1>2, <1>6, <1>7, <1>8
     DEF SlotInv, PendingIsDue, PendingIsNew, RanBefore, InTime, DueType
<1>11. ClaimedAhead' /\ AdminAhead' /\ OncePending'
  BY <1>0, <1>2, <1>4 DEF SlotInv, ClaimedAhead, AdminAhead, OncePending, InTime
<1>12. QuietInv'
  BY <1>0, <1>2, <1>6 DEF QuietInv, QuietRows, QuietPending, Exists
<1> QED BY <1>3, <1>5, <1>9, <1>10, <1>11, <1>12 DEF ScheduleInv, SlotInv

LEMMA ScheduleInvStep == ScheduleInv /\ [ScheduleNext]_scheduleVars => ScheduleInv'
<1> SUFFICES ASSUME ScheduleInv, [ScheduleNext]_scheduleVars PROVE ScheduleInv'
  OBVIOUS
<1>1. CASE UNCHANGED scheduleVars
  BY <1>1 DEF scheduleVars, ScheduleInv, ScheduleTypeOK, SlotInv, QuietInv, QuietRows, QuietPending,
              RowsAhead, ClaimedAhead, AdminAhead, ZonesInTime, PendingIsDue, PendingIsNew, RanBefore,
              OncePending, InTime, Pending, Exists
<1> QED BY <1>1, RowSteps, PauseSteps, ClockSteps, LoopSteps, ClaimStep, MintStep
        DEF ScheduleNext, TickProgress

\* No slot of a schedule runs twice, if none of its expressions is in a zone behind UTC:
\* whatever is paused, resumed, deleted and created again by calls that do not wait for
\* each other, wherever the server dies, and whenever the zones change their offsets.
THEOREM SlotsRunOnce == ScheduleSpec => []SlotRunsOnce
<1>1. ScheduleInv => SlotRunsOnce
  BY DEF ScheduleInv, SlotInv, SlotRunsOnce
<1> QED BY <1>1, ScheduleInvInit, ScheduleInvStep, PTL DEF ScheduleSpec

\* A schedule that is paused or deleted runs at most what was already due then.
THEOREM PausesHold == ScheduleSpec => PauseHolds
<1> DEFINE Holds == \A i \in ScheduleIds :
                      ran'[i] # ran[i] /\ quietSince[i] # Never => ran'[i] <= quietSince[i]
<1>1. ScheduleInv /\ [ScheduleNext]_scheduleVars => [Holds]_scheduleVars
  <2> SUFFICES ASSUME ScheduleInv, ScheduleNext, NEW i \in ScheduleIds,
                      ran'[i] # ran[i], quietSince[i] # Never
               PROVE  ran'[i] <= quietSince[i]
    OBVIOUS
  <2>1. MintRun
    BY DEF ScheduleNext, TickProgress, PassTime, UpdatePaused, StopServer, CreateSchedule, SelectForPause,
           DeleteSchedule, ReadDue, Claim, FailTick, StartServer
  <2>2. loop.at \in Pending /\ ScheduleTypeOK /\ QuietPending
    BY <2>1 DEF MintRun, Pending, ScheduleInv, QuietInv
  <2>3. i = loop.at.id /\ ran'[i] = loop.at.slot
    BY <2>1, <2>2 DEF MintRun, ScheduleTypeOK
  <2> QED BY <2>2, <2>3 DEF QuietPending
<1> QED BY <1>1, ScheduleInvInit, ScheduleInvStep, PTL DEF ScheduleSpec, PauseHolds

\* What next_fire gives is, on the wall clock of the zone, the first time from one minute
\* on at which matches says that the expression fires: on every calendar, for every
\* expression that parses, at every time; and nothing if there is none in the days that
\* are scanned.
THEOREM NextFiresAreFirst == ScheduleSpec => []NextFireIsFirst
<1>1. ASSUME NEW c \in ValidCrons, NEW t \in 0..CronSpan
      PROVE  NextRun[c][t] = FirstFiring[c][t]
  <2>1. NextRun[c][t] = NextFire(CronText(c), t) /\ IsCron(CronText(c)) /\ t \in Int
    BY ScheduleAssumption DEF NextRun, ValidCrons
  <2>2. FirstFiring[c][t] = Earliest(Firings(CronText(c), t + 2))
    BY DEF FirstFiring, Earliest, Firings
  <2> QED BY <2>1, <2>2, NextFireIsFirstFiring
<1>2. ScheduleInv => NextFireIsFirst
  <2> SUFFICES ASSUME ScheduleInv, NEW t \in clock..(clock + CronSpan - Horizon), NEW c \in ValidCrons
               PROVE  NextRun[c][t] = FirstFiring[c][t]
    BY DEF NextFireIsFirst
  <2>1. t \in 0..CronSpan
    BY ScheduleAssumption DEF ScheduleInv, ScheduleTypeOK
  <2> QED BY <1>1, <2>1
<1> QED BY <1>2, ScheduleInvInit, ScheduleInvStep, PTL DEF ScheduleSpec

-----------------------------------------------------------------------------
(* RemoteSchedule *)

RemoteInv ==
  /\ remoteRun \in [pc : {"none", "register", "child", "failed"}, tries : Nat, tasks : Nat]
  /\ remoteRun.tasks <= remoteRun.tries /\ remoteRun.tries <= RemoteTries
  /\ remoteRun.pc = "register" => remoteRun.tries < RemoteTries
  /\ remoteRun.pc = "child" => remoteRun.tasks >= 1

LEMMA RemoteInvStep == RemoteInv /\ [RemoteNext]_remoteVars => RemoteInv'
<1> SUFFICES ASSUME RemoteInv, [RemoteNext]_remoteVars PROVE RemoteInv'
  OBVIOUS
<1> USE RemoteTriesAssumption
<1>1. CASE UNCHANGED remoteRun
  BY <1>1 DEF RemoteInv
<1>2. CASE FireRemote \/ CloseScheduled
  BY <1>2 DEF FireRemote, CloseScheduled, NoRun, RemoteInv
<1>3. ASSUME NEW k \in {0, 1}, NEW pc \in {"register", "child", "failed"}, remoteRun.pc = "register",
             remoteRun' = [remoteRun EXCEPT !.pc = pc, !.tries = @ + 1, !.tasks = @ + k],
             pc = "child" => k = 1, pc = "register" => remoteRun.tries + 1 # RemoteTries
      PROVE  RemoteInv'
  <2>1. PICK tries \in Nat, tasks \in Nat : tries = remoteRun.tries + 1 /\ tasks = remoteRun.tasks + k
    BY DEF RemoteInv
  <2>2. remoteRun' = [pc |-> pc, tries |-> tries, tasks |-> tasks]
    BY <1>3, <2>1 DEF RemoteInv
  <2> QED BY <1>3, <2>1, <2>2 DEF RemoteInv
<1>4. CASE RegisterScheduled
  BY <1>3, <1>4 DEF RegisterScheduled
<1>5. CASE FailScheduled
  <2>1. PICK k \in {0, 1} :
          remoteRun' = IF remoteRun.tries + 1 = RemoteTries
                       THEN [remoteRun EXCEPT !.pc = "failed", !.tries = @ + 1, !.tasks = @ + k]
                       ELSE [remoteRun EXCEPT !.tries = @ + 1, !.tasks = @ + k]
    BY <1>5 DEF FailScheduled
  <2>2. remoteRun.pc = "register"
    BY <1>5 DEF FailScheduled
  <2>3. [remoteRun EXCEPT !.tries = @ + 1, !.tasks = @ + k]
          = [remoteRun EXCEPT !.pc = "register", !.tries = @ + 1, !.tasks = @ + k]
    <3>1. PICK tries \in Nat, tasks \in Nat : tries = remoteRun.tries + 1 /\ tasks = remoteRun.tasks + k
      BY DEF RemoteInv
    <3> QED BY <2>2, <3>1 DEF RemoteInv
  <2> QED BY <1>3, <2>1, <2>2, <2>3
<1> QED BY <1>1, <1>2, <1>4, <1>5 DEF RemoteNext, CreateRemote, PauseRemote, DeleteRemote, remoteVars

\* A scheduled run leaves no more tasks behind than its registration has tries, however
\* many those are, and one that waits for a child has made its task.
THEOREM ScheduledTasksAreFew == RemoteSpec => []ScheduledTasksBounded
<1>1. RemoteInit => RemoteInv
  BY RemoteTriesAssumption DEF RemoteInit, NoRun, RemoteInv
<1>2. RemoteInv => ScheduledTasksBounded
  BY RemoteTriesAssumption DEF RemoteInv, ScheduledTasksBounded
<1> QED BY <1>1, <1>2, RemoteInvStep, PTL DEF RemoteSpec

-----------------------------------------------------------------------------
(* Stack *)

Desks ==
  {"idle", "setup", "start", "postgres", "temporal", "worker", "api", "serving", "ending", "down"}
Found == {"none", "running", "start", "start-cli", "start-docker", "missing"}
PlanType == [postgres : Found, temporal : Found, api : Found]

\* What a terminal has started, and what is there for it, at each place of the command.
StackTyping ==
  /\ desk \in [Terminals -> Desks]
  /\ plan \in [Terminals -> PlanType]
  /\ holder \in [temporal : Terminals \cup {Nobody}, api : Terminals \cup {Nobody}]
Owning ==
  \A t \in Terminals :
     /\ t \in workers => desk[t] \in {"api", "serving"}
     /\ holder.temporal = t => desk[t] \in {"worker", "api", "serving", "ending"}
     /\ holder.api = t => desk[t] = "serving"
Founded ==
  \A t \in Terminals :
     /\ desk[t] \notin {"idle", "setup", "down"} => env
     /\ desk[t] = "postgres" /\ plan[t].postgres = "running" => postgres
     /\ desk[t] \in {"temporal", "worker", "api", "serving"} => postgres
     /\ desk[t] \in {"api", "serving"} => t \in workers \cup lost
StackInv == StackTyping /\ Owning /\ Founded

LEMMA StackInvInit == StackInit => StackInv
<1> SUFFICES ASSUME StackInit PROVE StackInv
  OBVIOUS
<1>1. desk \in [Terminals -> Desks] /\ \A t \in Terminals : desk[t] = "idle"
  BY DEF StackInit, Desks
<1>2. NoPlan \in PlanType
  BY DEF NoPlan, PlanType, Found
<1>3. plan \in [Terminals -> PlanType]
  BY <1>2 DEF StackInit
<1>4. /\ holder \in [temporal : Terminals \cup {Nobody}, api : Terminals \cup {Nobody}]
      /\ holder.temporal = Nobody /\ holder.api = Nobody
  BY DEF StackInit
<1>5. workers = {}
  BY DEF StackInit
<1> QED BY <1>1, <1>3, <1>4, <1>5, StackAssumption DEF StackInv, StackTyping, Owning, Founded

\* The ports change hands.
LEMMA Holders ==
  ASSUME StackTyping, NEW t \in Terminals
  PROVE  /\ [h \in DOMAIN holder |-> IF holder[h] = t THEN Nobody ELSE holder[h]]
              = [temporal |-> IF holder.temporal = t THEN Nobody ELSE holder.temporal,
                 api |-> IF holder.api = t THEN Nobody ELSE holder.api]
         /\ [h \in DOMAIN holder |-> Nobody] = [temporal |-> Nobody, api |-> Nobody]
         /\ {holder[h] : h \in DOMAIN holder} = {holder.temporal, holder.api}
<1>1. PICK a, b : holder = [temporal |-> a, api |-> b]
  BY DEF StackTyping
<1> QED BY <1>1

\* A terminal goes on: what it starts and finds there fits the place it comes to.
LEMMA DeskMoves ==
  ASSUME StackInv, NEW t \in Terminals, NEW to \in Desks, Goes(t, to), StackTyping',
         \A u \in Terminals :
            u # t => /\ plan'[u] = plan[u]
                     /\ (u \in workers' <=> u \in workers) /\ (u \in lost' <=> u \in lost),
         holder'.temporal \in {Nobody, t, holder.temporal}, holder'.api \in {Nobody, t, holder.api},
         env => env', postgres => postgres',
         t \in workers' => to \in {"api", "serving"},
         to \in {"api", "serving"} => t \in workers' \cup lost',
         holder'.temporal = t => to \in {"worker", "api", "serving", "ending"},
         holder'.api = t => to = "serving",
         to \notin {"idle", "setup", "down"} => env',
         to = "postgres" /\ plan'[t].postgres = "running" => postgres',
         to \in {"temporal", "worker", "api", "serving"} => postgres'
  PROVE  StackInv'
<1>1. desk'[t] = to /\ \A u \in Terminals : u # t => desk'[u] = desk[u]
  BY DEF Goes, StackInv, StackTyping
<1>2. Owning'
  <2> SUFFICES ASSUME NEW u \in Terminals
               PROVE  /\ u \in workers' => desk'[u] \in {"api", "serving"}
                      /\ holder'.temporal = u => desk'[u] \in {"worker", "api", "serving", "ending"}
                      /\ holder'.api = u => desk'[u] = "serving"
    BY DEF Owning
  <2>1. Nobody # u
    BY StackAssumption
  <2> QED BY <1>1, <2>1 DEF StackInv, Owning
<1>3. Founded'
  BY <1>1 DEF StackInv, Founded
<1> QED BY <1>2, <1>3 DEF StackInv

LEMMA StackInvTurn ==
  ASSUME StackInv, NEW t \in Terminals,
         \/ Types(t) \/ SetsUp(t) \/ Plans(t) \/ BringsPostgres(t) \/ BringsTemporal(t)
         \/ BringsWorker(t) \/ BringsApi(t) \/ GivesUp(t) \/ Interrupted(t)
  PROVE  StackInv'
<1>0. StackTyping /\ Owning /\ Founded /\ Nobody # t /\ desk[t] \in Desks
  BY StackAssumption DEF StackInv, StackTyping
<1>1. ASSUME NEW to \in Desks, Goes(t, to)  PROVE desk' \in [Terminals -> Desks]
  BY <1>0, <1>1 DEF Goes, StackTyping
<1>2. CASE Types(t)
  <2> DEFINE to == IF ~env \/ ~postgres \/ ~migrated THEN "setup" ELSE "start"
  <2>1. Goes(t, to) /\ to \in Desks /\ to \in {"setup", "start"} /\ (to = "start" => env)
    BY <1>2 DEF Types, Desks
  <2> HIDE DEF to
  <2>2. UNCHANGED <<env, postgres, holder, workers, lost, plan>> /\ desk[t] \in {"idle", "down"}
    BY <1>2 DEF Types
  <2>3. StackTyping'
    BY <1>0, <1>1, <2>1, <2>2 DEF StackTyping
  <2> QED BY <1>0, <2>1, <2>2, <2>3, DeskMoves DEF Owning
<1>3. CASE SetsUp(t)
  <2>1. PICK to \in {"start", "down"} : Goes(t, to)
    BY <1>3 DEF SetsUp
  <2>2. UNCHANGED <<holder, workers, lost, plan>> /\ env' = TRUE /\ desk[t] = "setup"
    BY <1>3 DEF SetsUp
  <2>4. postgres' = TRUE \/ postgres' = postgres
    BY <1>3 DEF SetsUp
  <2>5. env' /\ (postgres => postgres')
    <3>1. env'
      BY <2>2
    <3>2. ASSUME postgres PROVE postgres'
      <4>1. CASE postgres' = TRUE
        BY <4>1
      <4>2. CASE postgres' = postgres
        BY <3>2, <4>2
      <4> QED BY <2>4, <4>1, <4>2
    <3> QED BY <3>1, <3>2
  <2>3. to \in Desks /\ StackTyping'
    BY <1>0, <1>1, <2>1, <2>2 DEF StackTyping, Desks
  <2> QED BY <1>0, <2>1, <2>2, <2>3, <2>5, DeskMoves DEF Owning
<1>4. CASE Plans(t)
  <2>1. Goes(t, "postgres") /\ UNCHANGED <<env, postgres, holder, workers, lost>> /\ desk[t] = "start"
    BY <1>4 DEF Plans
  <2>2. PICK p \in PlanType :
           plan' = [plan EXCEPT ![t] = p] /\ (p.postgres = "running" => postgres)
    <3> DEFINE a == IF postgres THEN "running" ELSE IF docker # "absent" THEN "start" ELSE "missing"
               b == IF TemporalUp THEN "running" ELSE IF cli THEN "start-cli"
                    ELSE IF docker # "absent" THEN "start-docker" ELSE "missing"
               c == IF holder.api # Nobody THEN "running" ELSE "start"
    <3>1. plan' = [plan EXCEPT ![t] = [postgres |-> a, temporal |-> b, api |-> c]]
      BY <1>4 DEF Plans
    <3>2. a \in Found /\ b \in Found /\ c \in Found /\ (a = "running" => postgres)
      BY DEF Found
    <3> HIDE DEF a, b, c
    <3>3. [postgres |-> a, temporal |-> b, api |-> c] \in PlanType
      BY <3>2 DEF PlanType
    <3> QED BY <3>1, <3>2, <3>3
  <2>3. /\ plan'[t] = p /\ \A u \in Terminals : u # t => plan'[u] = plan[u]
        /\ plan' \in [Terminals -> PlanType]
    BY <1>0, <2>2 DEF StackTyping
  <2>4. "postgres" \in Desks /\ StackTyping'
    BY <1>0, <1>1, <2>1, <2>3 DEF StackTyping, Desks
  <2> QED BY <1>0, <2>1, <2>2, <2>3, <2>4, DeskMoves DEF Owning, Founded
<1>5. CASE BringsPostgres(t)
  <2>1. PICK to \in {"temporal", "ending"} : Goes(t, to) /\ (to = "temporal" => postgres')
    BY <1>0, <1>5 DEF BringsPostgres, Founded
  <2>2. UNCHANGED <<env, holder, workers, lost, plan>> /\ (postgres => postgres') /\ desk[t] = "postgres"
    BY <1>5 DEF BringsPostgres
  <2>3. to \in Desks /\ StackTyping'
    BY <1>0, <1>1, <2>1, <2>2 DEF StackTyping, Desks
  <2> QED BY <1>0, <2>1, <2>2, <2>3, DeskMoves DEF Owning, Founded
<1>6. CASE BringsTemporal(t)
  <2>1. PICK to \in {"worker", "ending"} : Goes(t, to)
    BY <1>6 DEF BringsTemporal
  <2>2. UNCHANGED <<env, postgres, workers, lost, plan>> /\ desk[t] = "temporal"
    BY <1>6 DEF BringsTemporal
  <2>3. holder' = holder \/ holder' = [holder EXCEPT !.temporal = t]
    BY <1>6 DEF BringsTemporal
  <2>4. /\ holder' \in [temporal : Terminals \cup {Nobody}, api : Terminals \cup {Nobody}]
        /\ holder'.temporal \in {t, holder.temporal} /\ holder'.api = holder.api
    BY <1>0, <2>3 DEF StackTyping
  <2>5. to \in Desks /\ StackTyping'
    BY <1>0, <1>1, <2>1, <2>2, <2>4 DEF StackTyping, Desks
  <2> QED BY <1>0, <2>1, <2>2, <2>4, <2>5, DeskMoves DEF Owning, Founded
<1>7. CASE BringsWorker(t)
  <2>1. /\ Goes(t, "api") /\ UNCHANGED <<env, postgres, holder, plan>> /\ desk[t] = "worker"
        /\ workers' = workers \cup {t} /\ lost' = lost \ {t}
    BY <1>7 DEF BringsWorker
  <2>2. "api" \in Desks /\ StackTyping'
    BY <1>0, <1>1, <2>1 DEF StackTyping, Desks
  <2> QED BY <1>0, <2>1, <2>2, DeskMoves DEF Owning, Founded
<1>8. CASE BringsApi(t)
  <2>1. Goes(t, "serving") /\ UNCHANGED <<env, postgres, workers, lost, plan>> /\ desk[t] = "api"
    BY <1>8 DEF BringsApi
  <2>2. holder' = holder \/ holder' = [holder EXCEPT !.api = t]
    BY <1>8 DEF BringsApi
  <2>3. /\ holder' \in [temporal : Terminals \cup {Nobody}, api : Terminals \cup {Nobody}]
        /\ holder'.temporal = holder.temporal /\ holder'.api \in {t, holder.api}
    BY <1>0, <2>2 DEF StackTyping
  <2>4. "serving" \in Desks /\ StackTyping'
    BY <1>0, <1>1, <2>1, <2>3 DEF StackTyping, Desks
  <2> QED BY <1>0, <2>1, <2>3, <2>4, DeskMoves DEF Owning, Founded
<1>9. CASE StopsOwn(t)
  <2>1. /\ Goes(t, "down") /\ UNCHANGED <<env, postgres, plan>>
        /\ workers' = workers \ {t} /\ lost' = lost \ {t}
        /\ holder' = [temporal |-> IF holder.temporal = t THEN Nobody ELSE holder.temporal,
                      api |-> IF holder.api = t THEN Nobody ELSE holder.api]
    BY <1>0, <1>9, Holders DEF StopsOwn
  <2>2. /\ holder' \in [temporal : Terminals \cup {Nobody}, api : Terminals \cup {Nobody}]
        /\ holder'.temporal \in {Nobody, holder.temporal} /\ holder'.temporal # t
        /\ holder'.api \in {Nobody, holder.api} /\ holder'.api # t
    BY <1>0, <2>1 DEF StackTyping
  <2>3. "down" \in Desks /\ StackTyping'
    BY <1>0, <1>1, <2>1, <2>2 DEF StackTyping, Desks
  <2> QED BY <2>1, <2>2, <2>3, DeskMoves
<1> QED BY <1>2, <1>3, <1>4, <1>5, <1>6, <1>7, <1>8, <1>9 DEF GivesUp, Interrupted

LEMMA StackInvStep == StackInv /\ [StackNext]_stackVars => StackInv'
<1> SUFFICES ASSUME StackInv, [StackNext]_stackVars PROVE StackInv'
  OBVIOUS
<1>1. CASE UNCHANGED <<env, postgres, holder, workers, desk, plan, lost>>
  BY <1>1 DEF StackInv, StackTyping, Owning, Founded
<1>2. CASE MachineRestarts
  <2>2. holder' = [h \in DOMAIN holder |-> Nobody]
    BY <1>2 DEF MachineRestarts
  <2>3. /\ holder' \in [temporal : Terminals \cup {Nobody}, api : Terminals \cup {Nobody}]
        /\ holder'.temporal = Nobody /\ holder'.api = Nobody
    <3>1. PICK a, b : holder = [temporal |-> a, api |-> b]
      BY DEF StackInv, StackTyping
    <3> QED BY <2>2, <3>1
  <2>4. NoPlan \in PlanType
    BY DEF NoPlan, PlanType, Found
  <2>5. /\ desk' \in [Terminals -> Desks] /\ \A t \in Terminals : desk'[t] = "idle"
        /\ plan' \in [Terminals -> PlanType]
        /\ workers' = {}
    BY <1>2, <2>4 DEF MachineRestarts, Desks
  <2> QED BY <2>3, <2>5, StackAssumption DEF StackInv, StackTyping, Owning, Founded
<1>3. ASSUME NEW t \in Terminals, ChildDies(t)  PROVE StackInv'
  <2>1. UNCHANGED <<env, postgres, desk, plan>>
    BY <1>3 DEF ChildDies
  <2>2. CASE /\ t \in workers
             /\ workers' = workers \ {t} /\ lost' = lost \cup {t} /\ UNCHANGED holder
    BY <2>1, <2>2 DEF StackInv, StackTyping, Owning, Founded
  <2>3. CASE /\ \E h \in DOMAIN holder : holder[h] = t /\ holder' = [holder EXCEPT ![h] = Nobody]
             /\ UNCHANGED <<workers, lost>>
    <3>1. PICK h \in DOMAIN holder : holder' = [holder EXCEPT ![h] = Nobody]
      BY <2>3
    <3>2. h \in {"temporal", "api"}
      BY DEF StackInv, StackTyping
    <3>3. holder' \in [temporal : Terminals \cup {Nobody}, api : Terminals \cup {Nobody}]
      BY <3>1, <3>2 DEF StackInv, StackTyping
    <3>4. /\ holder'.temporal \in {Nobody, holder.temporal}
          /\ holder'.api \in {Nobody, holder.api}
      BY <3>1, <3>2 DEF StackInv, StackTyping
    <3>5. \A u \in Terminals : u # Nobody
      BY StackAssumption
    <3> QED BY <2>1, <2>3, <3>3, <3>4, <3>5 DEF StackInv, StackTyping, Owning, Founded
  <2> QED BY <1>3, <2>2, <2>3 DEF ChildDies
<1> QED BY <1>1, <1>2, <1>3, StackInvTurn DEF StackNext, DockerComes, stackVars

\* A command that is over has stopped what it started, and a terminal that serves has its
\* database and the worker it started, unless that died: however many terminals run the command at once, wherever it is
\* interrupted, and however often the machine restarts.
THEOREM StacksAreKept == StackSpec => []StackIsKept
<1>1. StackInv => StackIsKept
  <2> SUFFICES ASSUME StackInv PROVE OverLeavesNothing /\ ServingIsComplete
    BY DEF StackIsKept
  <2>1. OverLeavesNothing
    BY Holders DEF StackInv, Owning, OverLeavesNothing
  <2>2. ServingIsComplete
    BY DEF StackInv, Founded, ServingIsComplete
  <2> QED BY <2>1, <2>2
<1> QED BY <1>1, StackInvInit, StackInvStep, PTL DEF StackSpec

-----------------------------------------------------------------------------
(* Terminal *)

Owners == [Descriptors -> TerminalSessions \cup {Free}]
TerminalTyping ==
  /\ table \subseteq TerminalSessions /\ fd \in [TerminalSessions -> Descriptors \cup {Free}]
  /\ owner \in Owners /\ shell \in [TerminalSessions -> {"none", "running", "exited"}]

\* The sessions of a table and the owners of the descriptors are each other's.
Linked(t, o, f) ==
  /\ \A s \in t : f[s] \in Descriptors /\ o[f[s]] = s
  /\ \A d \in Descriptors : o[d] # Free => o[d] \in t /\ f[o[d]] = d
Born == \A s \in table : shell[s] # "none"
TerminalInv == TerminalTyping /\ Linked(table, owner, fd) /\ Born /\ Cardinality(table) <= MaxSessions

\* A descriptor is not a session.
LEMMA NoSession == Free \notin TerminalSessions
BY TerminalAssumption DEF Free

LEMMA TablesAreFinite ==
  ASSUME NEW t \in SUBSET TerminalSessions
  PROVE  IsFiniteSet(t) /\ Cardinality(t) \in Nat
BY TerminalAssumption, FS_Subset, FS_CardinalityType

\* As long as there is a session to create there is a descriptor for it.
LEMMA DescriptorIsFree ==
  ASSUME NEW t \in SUBSET TerminalSessions, NEW o \in Owners,
         Linked(t, o, fd), TerminalTyping, NEW s \in TerminalSessions, s \notin t
  PROVE  LowestFree(o) \in Descriptors /\ o[LowestFree(o)] = Free
<1> DEFINE N == Cardinality(TerminalSessions)
           T == {d \in Descriptors : o[d] = Free}
<1>1. N \in Nat /\ IsFiniteSet(Descriptors) /\ Cardinality(Descriptors) = N
  BY TerminalAssumption, FS_CardinalityType, FS_Interval DEF Descriptors
<1>2. Cardinality(t) < N /\ Cardinality(t) \in Nat
  <2>1. t \subseteq TerminalSessions \ {s}
    OBVIOUS
  <2>2. Cardinality(TerminalSessions \ {s}) = N - 1 /\ IsFiniteSet(TerminalSessions \ {s})
    BY TerminalAssumption, FS_RemoveElement
  <2>3. Cardinality(t) <= Cardinality(TerminalSessions \ {s})
    BY <2>1, <2>2, FS_Subset
  <2> QED BY <1>1, <2>2, <2>3, TablesAreFinite
<1>3. T # {}
  <2> SUFFICES ASSUME T = {} PROVE FALSE
    OBVIOUS
  <2>1. \A d \in Descriptors : o[d] \in t /\ fd[o[d]] = d
    BY DEF Linked
  <2> DEFINE g == [d \in Descriptors |-> o[d]]
  <2>2. g \in Injection(Descriptors, t)
    BY <2>1 DEF Injection, IsInjective
  <2>3. Cardinality(Descriptors) <= Cardinality(t)
    BY <2>2, FS_Injection, TablesAreFinite
  <2> QED BY <1>1, <1>2, <2>3
<1>4. T \in SUBSET Int /\ 1 \in Int /\ \A d \in T : 1 <= d
  BY DEF Descriptors
<1>5. PICK d \in T : \A e \in T : d <= e
  <2> HIDE DEF T
  <2> QED BY <1>3, <1>4, EarliestOf
<1> QED BY <1>5 DEF LowestFree

\* Closing sessions of the table closes their descriptors and nobody else's.
LEMMA ClosingKeeps ==
  ASSUME TerminalInv, NEW D \in SUBSET table
  PROVE  LET c == Closing(D)
         IN  /\ c.table \subseteq table /\ c.owner \in Owners /\ Linked(c.table, c.owner, fd)
             /\ Cardinality(c.table) <= MaxSessions /\ D \cap c.table = {}
<1> DEFINE t == table \ D
           o == [d \in Descriptors |-> IF \E s \in D : fd[s] = d THEN Free ELSE owner[d]]
<1>1. Closing(D).table = t /\ Closing(D).owner = o
  BY DEF Closing
<1>2. o \in Owners
  BY DEF TerminalInv, TerminalTyping, Owners
<1>3. Linked(t, o, fd)
  BY NoSession DEF TerminalInv, TerminalTyping, Linked
<1>4. t \subseteq table /\ Cardinality(t) <= MaxSessions
  <2>1. IsFiniteSet(table) /\ Cardinality(table) \in Nat /\ Cardinality(t) \in Nat
    BY TablesAreFinite DEF TerminalInv, TerminalTyping
  <2>2. Cardinality(t) <= Cardinality(table)
    BY <2>1, FS_Subset
  <2> QED BY <2>1, <2>2, TerminalAssumption DEF TerminalInv
<1> HIDE DEF t, o
<1> QED BY <1>1, <1>2, <1>3, <1>4 DEF t

LEMMA CreateKeeps ==
  ASSUME TerminalInv, NEW s \in TerminalSessions, CreateSession(s)
  PROVE  TerminalInv'
<1> DEFINE rest == Closing(DeadSessions)
           d == LowestFree(rest.owner)
<1>1. /\ rest.table \subseteq table /\ rest.owner \in Owners /\ Linked(rest.table, rest.owner, fd)
      /\ Cardinality(rest.table) <= MaxSessions
  BY ClosingKeeps DEF DeadSessions
<1>2. s \in Unborn /\ s \notin table /\ shell[s] = "none" /\ TerminalTyping
  BY DEF CreateSession, Unborn, TerminalInv, Born
<1> HIDE DEF rest
<1>3. HungUp(rest.owner) \in [TerminalSessions -> {"none", "running", "exited"}]
      /\ \A u \in TerminalSessions : shell[u] # "none" => HungUp(rest.owner)[u] # "none"
  BY <1>2 DEF HungUp, TerminalTyping
<1>4. CASE Cardinality(rest.table) < MaxSessions
  <2>1. /\ table' = rest.table \cup {s} /\ fd' = [fd EXCEPT ![s] = d]
        /\ owner' = [rest.owner EXCEPT ![d] = s] /\ shell' = [HungUp(rest.owner) EXCEPT ![s] = "running"]
    BY <1>4 DEF CreateSession, rest
  <2>2. d \in Descriptors /\ rest.owner[d] = Free
    BY <1>1, <1>2, DescriptorIsFree DEF TerminalTyping
  <2> HIDE DEF d
  <2>3. TerminalTyping'
    BY <1>1, <1>2, <1>3, <2>1, <2>2 DEF TerminalTyping, Owners
  <2>4. fd'[s] = d /\ \A r \in TerminalSessions : r # s => fd'[r] = fd[r]
    BY <1>2, <2>1 DEF TerminalTyping
  <2>5. owner'[d] = s /\ \A e \in Descriptors : e # d => owner'[e] = rest.owner[e]
    BY <1>1, <2>1, <2>2 DEF Owners
  <2>6. Linked(table', owner', fd')
    BY <1>1, <1>2, <2>1, <2>2, <2>4, <2>5, NoSession DEF Linked, TerminalTyping
  <2>7. Born'
    BY <1>1, <1>2, <1>3, <2>1 DEF Born, TerminalInv, TerminalTyping
  <2>8. Cardinality(table') <= MaxSessions
    <3>1. s \notin rest.table /\ rest.table \in SUBSET TerminalSessions
      BY <1>1, <1>2 DEF TerminalTyping
    <3>2. IsFiniteSet(rest.table) /\ Cardinality(rest.table) \in Nat
      BY <3>1, TablesAreFinite
    <3>3. Cardinality(table') = Cardinality(rest.table) + 1
      BY <2>1, <3>1, <3>2, FS_AddElement
    <3> QED BY <1>4, <3>2, <3>3, TerminalAssumption
  <2> QED BY <2>3, <2>6, <2>7, <2>8 DEF TerminalInv
<1>5. CASE ~(Cardinality(rest.table) < MaxSessions)
  <2>1. table' = rest.table /\ owner' = rest.owner /\ shell' = HungUp(rest.owner) /\ fd' = fd
    BY <1>5 DEF CreateSession, rest
  <2> QED BY <1>1, <1>2, <1>3, <2>1 DEF TerminalInv, TerminalTyping, Born
<1> QED BY <1>4, <1>5

LEMMA TerminalInvStep == TerminalInv /\ [TerminalNext]_terminalVars => TerminalInv'
<1> SUFFICES ASSUME TerminalInv, [TerminalNext]_terminalVars PROVE TerminalInv'
  OBVIOUS
<1>0. TerminalTyping
  BY DEF TerminalInv
<1>1. CASE UNCHANGED <<table, fd, owner, shell>>
  BY <1>1 DEF TerminalInv, TerminalTyping, Born, Linked
<1>2. ASSUME NEW s \in TerminalSessions, ShellExits(s)  PROVE TerminalInv'
  <2>1. shell' \in [TerminalSessions -> {"none", "running", "exited"}]
        /\ \A u \in TerminalSessions : shell[u] # "none" => shell'[u] # "none"
    BY <1>0, <1>2 DEF ShellExits, TerminalTyping
  <2>2. UNCHANGED <<table, fd, owner>>
    BY <1>2 DEF ShellExits
  <2> QED BY <1>0, <2>1, <2>2 DEF TerminalInv, TerminalTyping, Born, Linked
<1>3. ASSUME NEW s \in TerminalSessions, DeleteSession(s)  PROVE TerminalInv'
  <2> DEFINE c == Closing({s})
  <2>1. table' = c.table /\ owner' = c.owner /\ shell' = HungUp(c.owner) /\ fd' = fd
    BY <1>3 DEF DeleteSession
  <2>2. /\ c.table \subseteq table /\ c.owner \in Owners /\ Linked(c.table, c.owner, fd)
        /\ Cardinality(c.table) <= MaxSessions
    BY <1>3, ClosingKeeps DEF DeleteSession
  <2> HIDE DEF c
  <2>3. shell' \in [TerminalSessions -> {"none", "running", "exited"}]
        /\ \A u \in TerminalSessions : shell[u] # "none" => shell'[u] # "none"
    BY <1>0, <2>1 DEF HungUp, TerminalTyping
  <2> QED BY <1>0, <2>1, <2>2, <2>3 DEF TerminalInv, TerminalTyping, Born
<1>4. CASE \E s \in TerminalSessions : CreateByOther(s) \/ InitTerminal(s)
  BY <1>4, CreateKeeps DEF CreateByOther, InitTerminal
<1>5. CASE SessionArrives \/ ClosePanel
  BY <1>1, <1>5 DEF SessionArrives, ClosePanel
<1>6. CASE \E s \in TerminalSessions :
             \/ ConnectByOther(s) \/ EnterRead(s) \/ EnterWrite(s) \/ HandlerEnds(s)
             \/ SystemCall(s, "read") \/ SystemCall(s, "write")
  BY <1>1, <1>6 DEF ConnectByOther, EnterRead, EnterWrite, HandlerEnds, SystemCall
<1> QED BY <1>1, <1>2, <1>3, <1>4, <1>5, <1>6 DEF TerminalNext, terminalVars

\* The open descriptors are those of the sessions in the table, one each, and there are no
\* more of them than allowed: whatever sessions are created, deleted, cleaned up and read.
THEOREM DescriptorsAreOwned == TerminalSpec => []DescriptorsAreSessions
<1>1. TerminalInit => TerminalInv
  <2> SUFFICES ASSUME TerminalInit PROVE TerminalInv
    OBVIOUS
  <2>1. TerminalTyping /\ Linked(table, owner, fd) /\ Born
    BY DEF TerminalInit, TerminalTyping, Owners, Linked, Born
  <2>2. Cardinality(table) <= MaxSessions
    BY FS_EmptySet, TerminalAssumption DEF TerminalInit
  <2> QED BY <2>1, <2>2 DEF TerminalInv
<1>2. TerminalInv => DescriptorsAreSessions
  BY DEF TerminalInv, Linked, DescriptorsAreSessions
<1> QED BY <1>1, <1>2, TerminalInvStep, PTL DEF TerminalSpec

-----------------------------------------------------------------------------
(* InferenceStream: what a streamed request leaves with its client and in the ledger *)

StreamErrors == [type : Hinted \cup {"gateway_error", "none"}, honest : BOOLEAN]
StreamEnds == {"refused", "finish", "error", "interrupted"}
StreamPlaces == {"plan", "next", "body", "failed", "clean", "close", "raised", "frames", "over"}
StreamRequests ==
  [consumer : {"desktop", "api"}, pc : StreamPlaces, cand : Nat, forwarded : BOOLEAN, deltas : Nat,
   finished : BOOLEAN]
StreamHolds == [error : StreamErrors, served : Nat, interrupted : BOOLEAN]
StreamClients ==
  [ends : Seq(StreamEnds), late : BOOLEAN, voices : SUBSET Nat, error : StreamErrors, done : BOOLEAN,
   left : BOOLEAN]
StreamRecords == [outcomes : Seq({"error", "success"}), served : Nat, usage : Nat]
StreamTyping ==
  /\ request \in StreamRequests
  /\ attempts \in Seq(Hinted) /\ selected \in Nat
  /\ held \in StreamHolds
  /\ client \in StreamClients
  /\ records \in StreamRecords

\* The loop is at one candidate, which is the only one whose words were passed on.
SpeakerInv ==
  /\ request.pc # "raised"
  /\ request.forwarded => request.pc \in {"body", "clean", "close", "frames", "over"}
  /\ request.forwarded => held.served = request.cand
  /\ ~request.forwarded => client.voices = {} /\ selected = 0
  /\ client.voices \subseteq {request.cand}
  /\ selected \in {0, request.cand}
  /\ request.pc \in {"body", "clean"} => request.cand = Len(attempts) + 1
  /\ request.pc \in {"plan", "next"} => request.cand = Len(attempts)

\* The client left before anything was pulled for it.
LeftUnpulled ==
  /\ request.pc = "over" /\ request.cand = 0 /\ records.outcomes = <<>>
  /\ client.left /\ ~client.done

\* Nothing ends the client's stream before the record, and nothing is recorded twice.
EndingInv ==
  /\ ~client.late
  /\ client.done => request.pc = "over"
  /\ request.pc # "over" => client.ends = <<>>
  /\ Len(client.ends) <= 1
  /\ client.done => client.ends = IF records.outcomes[1] = "success" THEN <<"finish">> ELSE <<"error">>
  /\ request.pc \notin {"frames", "over"} => records.outcomes = <<>>
  /\ request.pc \in {"frames", "over"} => client.voices \subseteq {records.served}
  /\ request.pc \in {"frames", "over"} => Len(records.outcomes) = 1 \/ LeftUnpulled
  /\ request.pc = "frames" => (records.outcomes[1] = "success" <=> held.error = NoError)

StreamInv == StreamTyping /\ (Desktop => SpeakerInv /\ EndingInv)

LEMMA ReasonsAreSaid == "none" \notin Hinted
<1>1. ASSUME NEW r \in Replies
      PROVE  Category(r) # "none"
  <2>1. CASE r[1] \in {401, 403, 404, 408, 429, 400}
    BY <2>1 DEF Category
  <2>2. CASE r[1] \notin {401, 403, 404, 408, 429, 400}
    BY <2>2 DEF Category
  <2> QED BY <2>1, <2>2
<1> QED BY <1>1 DEF Hinted

LEMMA PublicErrorsAreErrors ==
  ASSUME NEW type, NEW reasons
  PROVE  PublicError(type, reasons) \in StreamErrors /\ PublicError(type, reasons) # NoError
<1>1. PICK one : PublicError(type, reasons) =
                   [type |-> IF one \in Hinted THEN one ELSE "gateway_error", honest |-> FALSE]
  BY DEF PublicError
<1>2. CASE one \in Hinted
  <2>1. PublicError(type, reasons) = [type |-> one, honest |-> FALSE] /\ one # "none"
    BY <1>1, <1>2, ReasonsAreSaid
  <2> QED BY <1>2, <2>1 DEF StreamErrors, NoError
<1>3. CASE one \notin Hinted
  <2>1. PublicError(type, reasons) = [type |-> "gateway_error", honest |-> FALSE]
    BY <1>1, <1>3
  <2> QED BY <2>1 DEF StreamErrors, NoError
<1> QED BY <1>2, <1>3

LEMMA UsageCounts ==
  ASSUME StreamTyping, records' = [records EXCEPT !.usage = @ + 1]
  PROVE  records' \in StreamRecords /\ records'.outcomes = records.outcomes /\ records'.served = records.served
<1>1. PICK u \in Nat : u = records.usage + 1
  BY DEF StreamTyping, StreamRecords
<1> QED BY <1>1 DEF StreamTyping, StreamRecords

LEMMA EndIsSent ==
  ASSUME StreamTyping, NEW end \in StreamEnds, client' = [client EXCEPT !.ends = Append(@, end)]
  PROVE  client' \in StreamClients /\ client'.ends = Append(client.ends, end) /\ client'.done = client.done
<1>0. client.ends \in Seq(StreamEnds)
  BY DEF StreamTyping, StreamClients
<1>1. Append(client.ends, end) \in Seq(StreamEnds)
  BY <1>0, AppendProperties
<1> QED BY <1>1 DEF StreamTyping, StreamClients

LEMMA ErrorEventAct ==
  ASSUME StreamTyping, NEW type \in Hinted, NEW interrupted \in BOOLEAN, ErrorEvent(type, interrupted)
  PROVE  /\ held' \in StreamHolds
         /\ client' \in StreamClients
         /\ Desktop => held'.served = held.served /\ client' = client
<1>1. PICK e \in StreamErrors : e = [PublicError(type, attempts') EXCEPT !.honest = interrupted]
  BY PublicErrorsAreErrors DEF StreamErrors
<1>2. CASE Desktop
  <2>1. held' = [held EXCEPT !.error = e, !.interrupted = interrupted] /\ client' = client
    BY <1>1, <1>2 DEF ErrorEvent
  <2> QED BY <1>1, <2>1 DEF StreamTyping, StreamHolds
<1>3. CASE ~Desktop
  <2>1. PICK end \in StreamEnds : end = IF interrupted THEN "interrupted" ELSE "error"
    BY DEF StreamEnds
  <2>2. client' = [client EXCEPT !.ends = Append(@, end)] /\ held' = held
    BY <1>3, <2>1 DEF ErrorEvent
  <2> QED BY <1>3, <2>1, <2>2, EndIsSent DEF StreamTyping
<1> QED BY <1>2, <1>3

LEMMA AttemptsKeep ==
  ASSUME StreamInv, NEW category \in Hinted, request.pc = "body", AttemptFails(category)
  PROVE  StreamInv'
<1>1. StreamTyping
  BY DEF StreamInv
<1>2. PICK n \in Nat : n = Len(attempts)
  BY <1>1 DEF StreamTyping
<1>3. attempts' \in Seq(Hinted) /\ Len(attempts') = n + 1 /\ selected' = selected
  BY <1>1, <1>2 DEF AttemptFails, StreamTyping
<1>4. CASE request.forwarded
  <2>1. /\ ErrorEvent(category, TRUE) /\ request' = [request EXCEPT !.pc = "close"]
        /\ records' = [records EXCEPT !.usage = @ + 1]
    BY <1>4 DEF AttemptFails, Goto
  <2>2. /\ held' \in StreamHolds
        /\ client' \in StreamClients
        /\ Desktop => held'.served = held.served /\ client' = client
    BY <1>1, <2>1, ErrorEventAct
  <2>3. /\ records' \in StreamRecords
        /\ records'.outcomes = records.outcomes
    BY <1>1, <2>1, UsageCounts
  <2>4. /\ request' \in StreamRequests
        /\ request'.consumer = request.consumer /\ request'.pc = "close" /\ request'.cand = request.cand
        /\ request'.forwarded
    BY <1>1, <1>4, <2>1 DEF StreamTyping, StreamRequests, StreamPlaces
  <2>5. StreamTyping'
    BY <1>1, <1>3, <2>2, <2>3, <2>4 DEF StreamTyping
  <2>6. Desktop' => SpeakerInv' /\ EndingInv'
    BY <1>3, <1>4, <2>2, <2>3, <2>4 DEF StreamInv, Desktop, SpeakerInv, EndingInv
  <2> QED BY <2>5, <2>6 DEF StreamInv
<1>5. CASE ~request.forwarded
  <2>1. request' = [request EXCEPT !.pc = "next"] /\ UNCHANGED <<held, client, records>>
    BY <1>5 DEF AttemptFails, Goto
  <2>2. /\ request' \in StreamRequests
        /\ request'.consumer = request.consumer /\ request'.pc = "next" /\ request'.cand = request.cand
        /\ request'.forwarded = request.forwarded
    BY <1>1, <2>1 DEF StreamTyping, StreamRequests, StreamPlaces
  <2>3. StreamTyping'
    BY <1>1, <1>3, <2>1, <2>2 DEF StreamTyping
  <2>4. Desktop' => SpeakerInv' /\ EndingInv'
    BY <1>2, <1>3, <1>5, <2>1, <2>2 DEF StreamInv, Desktop, SpeakerInv, EndingInv
  <2> QED BY <2>3, <2>4 DEF StreamInv
<1> QED BY <1>1, <1>4, <1>5 DEF StreamTyping

\* What becomes of the request alone, at every step that goes somewhere.
LEMMA PlacesAreKept ==
  ASSUME StreamTyping, NEW pc \in StreamPlaces, Goto(pc)
  PROVE  /\ request' \in StreamRequests /\ request'.consumer = request.consumer /\ request'.pc = pc
         /\ request'.cand = request.cand /\ request'.forwarded = request.forwarded
BY DEF StreamTyping, StreamRequests, Goto

LEMMA OutcomesAreRecorded ==
  ASSUME StreamTyping, NEW outcome \in {"error", "success"}, NEW model \in Nat, Recorded(outcome, model)
  PROVE  /\ records' \in StreamRecords /\ records'.served = model
         /\ records.outcomes = <<>> => Len(records'.outcomes) = 1 /\ records'.outcomes[1] = outcome
<1>1. records.outcomes \in Seq({"error", "success"})
  BY DEF StreamTyping, StreamRecords
<1> DEFINE os == Append(records.outcomes, outcome)
<1>2. os \in Seq({"error", "success"}) /\ Len(os) = Len(records.outcomes) + 1 /\ os[Len(os)] = outcome
  BY <1>1, AppendProperties
<1>3. records.outcomes = <<>> => Len(os) = 1 /\ os[1] = outcome
  BY <1>2
<1>4. records' = [records EXCEPT !.outcomes = os, !.served = model]
  BY DEF Recorded
<1> HIDE DEF os
<1> QED BY <1>2, <1>3, <1>4 DEF StreamTyping, StreamRecords

LEMMA CandidatesKeep ==
  ASSUME StreamInv, Planned \/ NextCandidate \/ OutOfTime \/ AllFailed
  PROVE  StreamInv'
<1>1. StreamTyping
  BY DEF StreamInv
<1>2. CASE Planned
  <2>1. request.pc = "plan" /\ Goto("next") /\ UNCHANGED <<attempts, selected, held, client, records>>
    BY <1>2 DEF Planned
  <2>2. /\ request' \in StreamRequests /\ request'.consumer = request.consumer /\ request'.pc = "next"
        /\ request'.cand = request.cand /\ request'.forwarded = request.forwarded
    BY <1>1, <2>1, PlacesAreKept DEF StreamPlaces
  <2> QED BY <1>1, <2>1, <2>2
      DEF StreamInv, StreamTyping, Desktop, SpeakerInv, EndingInv, LeftUnpulled
<1>3. CASE NextCandidate
  <2>1. PICK c \in Nat : c = request.cand + 1
    BY <1>1 DEF StreamTyping, StreamRequests
  <2>2. /\ request' \in StreamRequests /\ request'.consumer = request.consumer /\ request'.pc = "body"
        /\ request'.cand = c /\ ~request'.forwarded /\ ~request.forwarded /\ request.pc = "next"
        /\ UNCHANGED <<attempts, selected, held, client, records>>
    BY <1>1, <1>3, <2>1 DEF NextCandidate, StreamTyping, StreamRequests, StreamPlaces
  <2>3. StreamTyping'
    BY <1>1, <2>2 DEF StreamTyping
  <2>4. ASSUME Desktop
        PROVE  SpeakerInv' /\ EndingInv'
    BY <1>1, <2>1, <2>2, <2>4 DEF StreamInv, SpeakerInv, EndingInv, LeftUnpulled
  <2> QED BY <2>2, <2>3, <2>4 DEF StreamInv, Desktop
<1>4. CASE OutOfTime
  <2>1. /\ request.pc = "next" /\ attempts' \in Seq(Hinted) /\ Goto("failed")
        /\ UNCHANGED <<selected, held, client, records>>
    BY <1>1, <1>4 DEF OutOfTime, StreamTyping, Hinted
  <2>2. /\ request' \in StreamRequests /\ request'.consumer = request.consumer /\ request'.pc = "failed"
        /\ request'.cand = request.cand /\ request'.forwarded = request.forwarded
    BY <1>1, <2>1, PlacesAreKept DEF StreamPlaces
  <2> QED BY <1>1, <2>1, <2>2
      DEF StreamInv, StreamTyping, Desktop, SpeakerInv, EndingInv, LeftUnpulled
<1>5. CASE AllFailed
  <2>1. /\ request.pc \in {"failed", "next"} /\ UNCHANGED <<attempts, selected>> /\ Goto("close")
        /\ ErrorEvent("all_providers_failed_error", FALSE)
        /\ records' = [records EXCEPT !.usage = @ + 1]
    BY <1>5 DEF AllFailed
  <2>2. /\ request' \in StreamRequests /\ request'.consumer = request.consumer /\ request'.pc = "close"
        /\ request'.cand = request.cand /\ request'.forwarded = request.forwarded
    BY <1>1, <2>1, PlacesAreKept DEF StreamPlaces
  <2>3. "all_providers_failed_error" \in Hinted
    BY DEF Hinted
  <2>4. held' \in StreamHolds /\ client' \in StreamClients
        /\ (Desktop => held'.served = held.served /\ client' = client)
    BY <1>1, <2>1, <2>3, ErrorEventAct
  <2>5. records' \in StreamRecords /\ records'.outcomes = records.outcomes
    BY <1>1, <2>1, UsageCounts
  <2>6. StreamTyping'
    BY <1>1, <2>1, <2>2, <2>4, <2>5 DEF StreamTyping
  <2>7. ASSUME Desktop
        PROVE  SpeakerInv' /\ EndingInv'
    BY <2>1, <2>2, <2>4, <2>5, <2>7 DEF StreamInv, SpeakerInv, EndingInv, LeftUnpulled
  <2> QED BY <2>2, <2>6, <2>7 DEF StreamInv, Desktop
<1> QED BY <1>2, <1>3, <1>4, <1>5

LEMMA ChunksKeep ==
  ASSUME StreamInv,
         OddChunk \/ Delta \/ FinishReason \/ BodyEnds \/ CleanEnd \/ ReplyFails \/ ProviderTimesOut \/ ProviderBreaks
  PROVE  StreamInv'
<1>1. StreamTyping
  BY DEF StreamInv
<1>2. PICK n \in Nat : n = Len(attempts)
  BY <1>1 DEF StreamTyping
<1>3. CASE OddChunk
  <2>1. CASE Desktop
    <3>1. PICK e \in StreamErrors : e = [NoError EXCEPT !.type = "gateway_error"]
      BY DEF NoError, StreamErrors
    <3>2. /\ request.pc = "body" /\ held' = [held EXCEPT !.error = e] /\ Goto("close")
          /\ UNCHANGED <<attempts, selected, client, records>>
      BY <1>3, <2>1, <3>1 DEF OddChunk
    <3>3. held' \in StreamHolds /\ held'.served = held.served
      BY <1>1, <3>1, <3>2 DEF StreamTyping, StreamHolds
    <3>4. /\ request' \in StreamRequests /\ request'.consumer = request.consumer /\ request'.pc = "close"
          /\ request'.cand = request.cand /\ request'.forwarded = request.forwarded
      BY <1>1, <3>2, PlacesAreKept DEF StreamPlaces
    <3> QED BY <1>1, <2>1, <3>2, <3>3, <3>4
        DEF StreamInv, StreamTyping, Desktop, SpeakerInv, EndingInv, LeftUnpulled
  <2>2. CASE ~Desktop
    <3>1. Goto("raised") /\ UNCHANGED <<attempts, selected, held, client, records>>
      BY <1>3, <2>2 DEF OddChunk
    <3>2. request' \in StreamRequests /\ request'.consumer = request.consumer
      BY <1>1, <3>1, PlacesAreKept DEF StreamPlaces
    <3> QED BY <1>1, <2>2, <3>1, <3>2 DEF StreamInv, StreamTyping, Desktop
  <2> QED BY <2>1, <2>2
<1>4. CASE Delta
  <2>1. PICK d \in Nat, k \in Nat, c \in Nat : d = request.deltas + 1 /\ k = n + 1 /\ c = request.cand
    BY <1>1, <1>2 DEF StreamTyping, StreamRequests
  <2>2. /\ request.pc = "body" /\ request' = [request EXCEPT !.forwarded = TRUE, !.deltas = d]
        /\ held' = IF Desktop THEN [held EXCEPT !.served = k] ELSE held
        /\ client' = [client EXCEPT !.voices = @ \cup {c}, !.late = @ \/ client.ends # <<>>]
        /\ UNCHANGED <<attempts, selected, records>>
    BY <1>2, <1>4, <2>1 DEF Delta, Speaker
  <2>3. /\ request' \in StreamRequests /\ request'.consumer = request.consumer /\ request'.pc = "body"
        /\ request'.cand = c /\ request'.forwarded
    BY <1>1, <2>1, <2>2 DEF StreamTyping, StreamRequests, StreamPlaces
  <2>4. held' \in StreamHolds /\ (Desktop => held'.served = k)
    BY <1>1, <2>2 DEF StreamTyping, StreamHolds
  <2>5. /\ client' \in StreamClients /\ client'.voices = client.voices \cup {c}
        /\ client'.ends = client.ends /\ client'.done = client.done
        /\ client'.late <=> client.late \/ client.ends # <<>>
    BY <1>1, <2>2 DEF StreamTyping, StreamClients
  <2>6. StreamTyping'
    BY <1>1, <2>2, <2>3, <2>4, <2>5 DEF StreamTyping
  <2>7. ASSUME Desktop
        PROVE  SpeakerInv' /\ EndingInv'
    BY <1>2, <2>1, <2>2, <2>3, <2>4, <2>5, <2>7 DEF StreamInv, SpeakerInv, EndingInv, LeftUnpulled
  <2> QED BY <2>3, <2>6, <2>7 DEF StreamInv, Desktop
<1>5. CASE FinishReason
  <2>1. /\ request' \in StreamRequests /\ request'.consumer = request.consumer /\ request'.pc = request.pc
        /\ request'.cand = request.cand /\ request'.forwarded = request.forwarded
        /\ UNCHANGED <<attempts, selected, held, client, records>>
    BY <1>1, <1>5 DEF FinishReason, StreamTyping, StreamRequests
  <2> QED BY <1>1, <2>1 DEF StreamInv, StreamTyping, Desktop, SpeakerInv, EndingInv, LeftUnpulled
<1>6. CASE BodyEnds
  <2>0. "provider_unavailable_error" \in Hinted
    BY DEF Hinted
  <2>1. CASE AttemptFails("provider_unavailable_error")
    BY <1>6, <2>0, <2>1, AttemptsKeep DEF BodyEnds
  <2>2. CASE ~AttemptFails("provider_unavailable_error")
    <3>1. /\ request.pc = "body" /\ Goto("clean") /\ UNCHANGED <<attempts, selected, held, records>>
          /\ client' = IF Desktop THEN client ELSE [client EXCEPT !.ends = Append(@, "finish")]
      BY <1>6, <2>2 DEF BodyEnds
    <3>2. /\ request' \in StreamRequests /\ request'.consumer = request.consumer /\ request'.pc = "clean"
          /\ request'.cand = request.cand /\ request'.forwarded = request.forwarded
      BY <1>1, <3>1, PlacesAreKept DEF StreamPlaces
    <3>3. client' \in StreamClients /\ (Desktop => client' = client)
      BY <1>1, <3>1, EndIsSent DEF StreamTyping, StreamEnds
    <3> QED BY <1>1, <3>1, <3>2, <3>3
        DEF StreamInv, StreamTyping, Desktop, SpeakerInv, EndingInv, LeftUnpulled
  <2> QED BY <2>1, <2>2
<1>7. CASE CleanEnd
  <2>1. CASE request.forwarded
    <3>1. /\ request.pc = "clean" /\ selected' = request.cand /\ Goto("close")
          /\ records' = [records EXCEPT !.usage = @ + 1] /\ UNCHANGED <<attempts, held, client>>
      BY <1>7, <2>1 DEF CleanEnd
    <3>2. /\ request' \in StreamRequests /\ request'.consumer = request.consumer /\ request'.pc = "close"
          /\ request'.cand = request.cand /\ request'.forwarded = request.forwarded
      BY <1>1, <3>1, PlacesAreKept DEF StreamPlaces
    <3>3. records' \in StreamRecords /\ records'.outcomes = records.outcomes
      BY <1>1, <3>1, UsageCounts
    <3>4. StreamTyping'
      BY <1>1, <3>1, <3>2, <3>3 DEF StreamTyping, StreamRequests
    <3>5. ASSUME Desktop
          PROVE  SpeakerInv' /\ EndingInv'
      BY <2>1, <3>1, <3>2, <3>3, <3>5 DEF StreamInv, SpeakerInv, EndingInv, LeftUnpulled
    <3> QED BY <3>2, <3>4, <3>5 DEF StreamInv, Desktop
  <2>2. CASE ~request.forwarded
    <3>1. /\ request.pc = "clean" /\ attempts' = Append(attempts, "empty_response") /\ Goto("next")
          /\ UNCHANGED <<selected, held, client, records>>
      BY <1>7, <2>2 DEF CleanEnd
    <3>2. "empty_response" \in Hinted
      BY DEF Hinted
    <3>3. attempts' \in Seq(Hinted) /\ Len(attempts') = n + 1
      BY <1>1, <1>2, <3>1, <3>2 DEF StreamTyping
    <3>4. /\ request' \in StreamRequests /\ request'.consumer = request.consumer /\ request'.pc = "next"
          /\ request'.cand = request.cand /\ request'.forwarded = request.forwarded
      BY <1>1, <3>1, PlacesAreKept DEF StreamPlaces
    <3>5. StreamTyping'
      BY <1>1, <3>1, <3>3, <3>4 DEF StreamTyping
    <3>6. ASSUME Desktop
          PROVE  SpeakerInv' /\ EndingInv'
      BY <1>2, <2>2, <3>1, <3>3, <3>4, <3>6 DEF StreamInv, SpeakerInv, EndingInv, LeftUnpulled
    <3> QED BY <3>4, <3>5, <3>6 DEF StreamInv, Desktop
  <2> QED BY <2>1, <2>2
<1>8. CASE ReplyFails \/ ProviderTimesOut \/ ProviderBreaks
  BY <1>8, AttemptsKeep DEF ReplyFails, ProviderTimesOut, ProviderBreaks, Hinted
<1> QED BY <1>3, <1>4, <1>5, <1>6, <1>7, <1>8

LEMMA EndsKeep ==
  ASSUME StreamInv, PlanRefused \/ StreamTimesOut \/ ClientLeaves \/ Finally \/ LastFrames
  PROVE  StreamInv'
<1>1. StreamTyping
  BY DEF StreamInv
<1>2. PICK model \in Nat : model = Served
  BY <1>1 DEF Served, StreamTyping, StreamHolds
<1>3. ASSUME Desktop
      PROVE  client.voices \subseteq {model}
  BY <1>2, <1>3 DEF StreamInv, SpeakerInv, Served
<1>4. CASE PlanRefused
  <2>1. /\ request.pc = "plan" /\ Goto("over") /\ client' = [client EXCEPT !.ends = <<"refused">>]
        /\ UNCHANGED <<attempts, selected, held>>
        /\ IF Desktop THEN Recorded("error", 0) ELSE UNCHANGED records
    BY <1>4 DEF PlanRefused
  <2>2. /\ request' \in StreamRequests /\ request'.consumer = request.consumer /\ request'.pc = "over"
        /\ request'.cand = request.cand /\ request'.forwarded = request.forwarded
    BY <1>1, <2>1, PlacesAreKept DEF StreamPlaces
  <2> DEFINE es == <<"refused">>
  <2>3. es \in Seq(StreamEnds) /\ Len(es) = 1
    BY DEF StreamEnds
  <2>4. /\ client' \in StreamClients /\ client'.ends = es /\ client'.late = client.late
        /\ client'.done = client.done /\ client'.voices = client.voices
    BY <1>1, <2>1, <2>3 DEF StreamTyping, StreamClients
  <2> HIDE DEF es
  <2>5. /\ records' \in StreamRecords
        /\ Desktop /\ records.outcomes = <<>> => Len(records'.outcomes) = 1
    BY <1>1, <2>1, OutcomesAreRecorded DEF StreamTyping
  <2>6. StreamTyping'
    BY <1>1, <2>1, <2>2, <2>4, <2>5 DEF StreamTyping
  <2>7. ASSUME Desktop
        PROVE  SpeakerInv' /\ EndingInv'
    BY <2>1, <2>2, <2>3, <2>4, <2>5, <2>7 DEF StreamInv, SpeakerInv, EndingInv, LeftUnpulled
  <2> QED BY <2>2, <2>6, <2>7 DEF StreamInv, Desktop
<1>5. CASE StreamTimesOut
  <2>1. PICK e \in StreamErrors : e = [NoError EXCEPT !.type = "timeout_error"]
    BY DEF NoError, StreamErrors, Hinted
  <2>2. /\ request.pc \in {"next", "body", "clean"} /\ held' = [held EXCEPT !.error = e] /\ Goto("close")
        /\ UNCHANGED <<attempts, selected, client, records>>
    BY <1>5, <2>1 DEF StreamTimesOut
  <2>3. held' \in StreamHolds /\ held'.served = held.served
    BY <1>1, <2>1, <2>2 DEF StreamTyping, StreamHolds
  <2>4. /\ request' \in StreamRequests /\ request'.consumer = request.consumer /\ request'.pc = "close"
        /\ request'.cand = request.cand /\ request'.forwarded = request.forwarded
    BY <1>1, <2>2, PlacesAreKept DEF StreamPlaces
  <2> QED BY <1>1, <2>2, <2>3, <2>4
      DEF StreamInv, StreamTyping, Desktop, SpeakerInv, EndingInv, LeftUnpulled
<1>6. CASE ClientLeaves
  <2>1. /\ request.pc \in {"next", "body", "clean", "close", "frames"}
        /\ client' = [client EXCEPT !.left = TRUE] /\ Goto("over")
        /\ UNCHANGED <<attempts, selected, held>>
    BY <1>6 DEF ClientLeaves
  <2>2. /\ request' \in StreamRequests /\ request'.consumer = request.consumer /\ request'.pc = "over"
        /\ request'.cand = request.cand /\ request'.forwarded = request.forwarded
    BY <1>1, <2>1, PlacesAreKept DEF StreamPlaces
  <2>3. /\ client' \in StreamClients /\ client'.ends = client.ends /\ client'.late = client.late
        /\ client'.done = client.done /\ client'.voices = client.voices
    BY <1>1, <2>1 DEF StreamTyping, StreamClients
  <2>4. CASE records' = records /\ request.pc = "frames"
    BY <1>1, <2>1, <2>2, <2>3, <2>4
       DEF StreamInv, StreamTyping, Desktop, SpeakerInv, EndingInv, LeftUnpulled
  <2>6. CASE records' = records /\ Unpulled
    <3>1. client'.left
      BY <1>1, <2>1 DEF StreamTyping, StreamClients
    <3>2. ASSUME Desktop
          PROVE  client.voices = {}
      BY <2>6, <3>2 DEF StreamInv, SpeakerInv, Unpulled
    <3>3. StreamTyping'
      BY <1>1, <2>1, <2>2, <2>3, <2>6 DEF StreamTyping
    <3>4. ASSUME Desktop
          PROVE  SpeakerInv' /\ EndingInv'
      BY <2>1, <2>2, <2>3, <2>6, <3>1, <3>2, <3>4
         DEF StreamInv, SpeakerInv, EndingInv, LeftUnpulled, Unpulled
    <3> QED BY <2>2, <3>3, <3>4 DEF StreamInv, Desktop
  <2>5. CASE request.pc # "frames" /\ \E o \in {"error", "success"} : Recorded(o, model)
    <3>1. PICK o \in {"error", "success"} : Recorded(o, model)
      BY <2>5
    <3>2. /\ records' \in StreamRecords /\ records'.served = model
          /\ records.outcomes = <<>> => Len(records'.outcomes) = 1
      BY <1>1, <3>1, OutcomesAreRecorded
    <3>3. StreamTyping'
      BY <1>1, <2>1, <2>2, <2>3, <3>2 DEF StreamTyping
    <3>4. ASSUME Desktop
          PROVE  SpeakerInv' /\ EndingInv'
      BY <1>3, <2>1, <2>2, <2>3, <2>5, <3>2, <3>4 DEF StreamInv, SpeakerInv, EndingInv, LeftUnpulled
    <3> QED BY <2>2, <3>3, <3>4 DEF StreamInv, Desktop
  <2> QED BY <1>2, <1>6, <2>4, <2>5, <2>6 DEF ClientLeaves
<1>7. CASE Finally
  <2>1. PICK pc \in {"over", "frames"} : pc = IF request.pc = "raised" THEN "over" ELSE "frames"
    OBVIOUS
  <2>2. PICK o \in {"error", "success"} :
           o = IF Desktop /\ held.error # NoError THEN "error" ELSE "success"
    OBVIOUS
  <2>3. /\ request.pc \in {"close", "raised"} /\ Recorded(o, model) /\ Goto(pc)
        /\ UNCHANGED <<attempts, selected, client>>
        /\ held' = IF held.error = NoError THEN held
                   ELSE [held EXCEPT !.error = PublicError(held.error.type, attempts)]
    BY <1>2, <1>7, <2>1, <2>2 DEF Finally
  <2>4. /\ request' \in StreamRequests /\ request'.consumer = request.consumer /\ request'.pc = pc
        /\ request'.cand = request.cand /\ request'.forwarded = request.forwarded
    BY <1>1, <2>3, PlacesAreKept DEF StreamPlaces
  <2>5. /\ held' \in StreamHolds /\ held'.served = held.served
        /\ held'.error = NoError <=> held.error = NoError
    <3>1. CASE held.error = NoError
      BY <1>1, <2>3, <3>1 DEF StreamTyping
    <3>2. CASE held.error # NoError
      <4>1. PICK e \in StreamErrors : e = PublicError(held.error.type, attempts) /\ e # NoError
        BY PublicErrorsAreErrors
      <4>2. held' = [held EXCEPT !.error = e]
        BY <2>3, <3>2, <4>1
      <4> QED BY <1>1, <3>2, <4>1, <4>2 DEF StreamTyping, StreamHolds
    <3> QED BY <3>1, <3>2
  <2>6. /\ records' \in StreamRecords /\ records'.served = model
        /\ records.outcomes = <<>> => Len(records'.outcomes) = 1 /\ records'.outcomes[1] = o
    BY <1>1, <2>3, OutcomesAreRecorded
  <2>7. StreamTyping'
    BY <1>1, <2>3, <2>4, <2>5, <2>6 DEF StreamTyping
  <2>8. ASSUME Desktop
        PROVE  SpeakerInv' /\ EndingInv'
    <3>1. request.pc = "close" /\ pc = "frames"
      BY <2>1, <2>3, <2>8 DEF StreamInv, SpeakerInv
    <3>2. SpeakerInv'
      BY <2>3, <2>4, <2>5, <2>8, <3>1 DEF StreamInv, SpeakerInv
    <3>3. EndingInv'
      BY <1>3, <2>2, <2>3, <2>4, <2>5, <2>6, <2>8, <3>1 DEF StreamInv, EndingInv, LeftUnpulled
    <3> QED BY <3>2, <3>3
  <2> QED BY <2>4, <2>7, <2>8 DEF StreamInv, Desktop
<1>8. CASE LastFrames
  <2>1. /\ request' \in StreamRequests /\ request'.consumer = request.consumer /\ request'.pc = "over"
        /\ request'.cand = request.cand /\ request'.forwarded = request.forwarded
    BY <1>1, <1>8, PlacesAreKept DEF StreamPlaces, LastFrames
  <2>2. PICK es \in Seq(StreamEnds) :
           /\ es = IF ~Desktop THEN client.ends
                   ELSE Append(client.ends, IF held.error = NoError THEN "finish" ELSE "error")
           /\ Desktop /\ client.ends = <<>> =>
                es = (IF held.error = NoError THEN <<"finish">> ELSE <<"error">>) /\ Len(es) = 1
    <3>1. client.ends \in Seq(StreamEnds)
      BY <1>1 DEF StreamTyping, StreamClients
    <3>2. CASE held.error = NoError
      <4>1. "finish" \in StreamEnds
        BY DEF StreamEnds
      <4>2. Append(client.ends, "finish") \in Seq(StreamEnds)
        BY <3>1, <4>1, AppendProperties
      <4>3. client.ends = <<>> => Append(client.ends, "finish") = <<"finish">>
        OBVIOUS
      <4> QED BY <3>1, <3>2, <4>2, <4>3
    <3>3. CASE held.error # NoError
      <4>1. "error" \in StreamEnds
        BY DEF StreamEnds
      <4>2. Append(client.ends, "error") \in Seq(StreamEnds)
        BY <3>1, <4>1, AppendProperties
      <4>3. client.ends = <<>> => Append(client.ends, "error") = <<"error">>
        OBVIOUS
      <4> QED BY <3>1, <3>3, <4>2, <4>3
    <3> QED BY <3>2, <3>3
  <2>3. /\ client' = [client EXCEPT !.done = TRUE, !.error = held.error, !.ends = es]
        /\ request.pc = "frames" /\ UNCHANGED <<attempts, selected, held, records>>
    BY <1>8, <2>2 DEF LastFrames
  <2>4. /\ client' \in StreamClients /\ client'.ends = es /\ client'.late = client.late
        /\ client'.done /\ client'.voices = client.voices
    BY <1>1, <2>2, <2>3 DEF StreamTyping, StreamClients, StreamHolds
  <2>5. StreamTyping'
    BY <1>1, <2>1, <2>3, <2>4 DEF StreamTyping
  <2>6. ASSUME Desktop
        PROVE  SpeakerInv' /\ EndingInv'
    BY <2>1, <2>2, <2>3, <2>4, <2>6 DEF StreamInv, SpeakerInv, EndingInv, LeftUnpulled
  <2> QED BY <2>1, <2>5, <2>6 DEF StreamInv, Desktop
<1> QED BY <1>4, <1>5, <1>6, <1>7, <1>8

LEMMA StreamInvInit == StreamInit => StreamInv
<1> SUFFICES ASSUME StreamInit  PROVE StreamInv
  OBVIOUS
<1>1. PICK c \in {"desktop", "api"} :
         request = [consumer |-> c, pc |-> "plan", cand |-> 0, forwarded |-> FALSE,
                    deltas |-> 0, finished |-> FALSE]
  BY DEF StreamInit
<1>2. /\ request \in StreamRequests /\ request.pc = "plan" /\ request.cand = 0 /\ ~request.forwarded
  BY <1>1 DEF StreamRequests, StreamPlaces
<1>3. NoError \in StreamErrors
  BY DEF NoError, StreamErrors
<1>4. attempts \in Seq(Hinted) /\ Len(attempts) = 0 /\ selected = 0
  BY DEF StreamInit
<1>5. held \in StreamHolds
  BY <1>3 DEF StreamInit, StreamHolds
<1>6. client \in StreamClients /\ client.ends = <<>> /\ ~client.late /\ client.voices = {} /\ ~client.done
  BY <1>3 DEF StreamInit, StreamClients
<1>7. records \in StreamRecords /\ records.outcomes = <<>>
  BY DEF StreamInit, StreamRecords
<1>8. StreamTyping
  BY <1>2, <1>4, <1>5, <1>6, <1>7 DEF StreamTyping
<1>9. SpeakerInv /\ EndingInv
  BY <1>2, <1>4, <1>6, <1>7 DEF SpeakerInv, EndingInv, LeftUnpulled
<1> QED BY <1>8, <1>9 DEF StreamInv

LEMMA StreamInvStep == StreamInv /\ [StreamNext]_streamVars => StreamInv'
<1> SUFFICES ASSUME StreamInv, [StreamNext]_streamVars  PROVE StreamInv'
  OBVIOUS
<1>1. CASE UNCHANGED streamVars
  BY <1>1 DEF streamVars, StreamInv, StreamTyping, Desktop, SpeakerInv, EndingInv, LeftUnpulled
<1>2. CASE StreamNext
  BY <1>2, CandidatesKeep, ChunksKeep, EndsKeep DEF StreamNext
<1> QED BY <1>1, <1>2

\* streaming.py and desktop_gateway's ledger: whatever candidates fail, whenever the
\* response breaks, times out or is left, the desktop's client hears one end of one model's
\* answer, and the request is recorded once, with that end and that model; or not at all, if
\* its client left before anything was pulled for it.
THEOREM StreamsAreHonest == StreamSpec => []StreamIsHonest
<1>1. StreamInv => StreamIsHonest
  <2> SUFFICES ASSUME StreamInv, Desktop  PROVE StreamIsHonest
    BY DEF StreamIsHonest, LedgerMatchesStream, StreamEndsOnce
  <2>1. StreamEndsOnce
    BY DEF StreamInv, EndingInv, StreamEndsOnce
  <2>2. LedgerMatchesStream
    BY DEF StreamInv, EndingInv, LeftUnpulled, LedgerMatchesStream
  <2> QED BY <2>1, <2>2 DEF StreamIsHonest
<1> QED BY <1>1, StreamInvInit, StreamInvStep, PTL DEF StreamSpec

-----------------------------------------------------------------------------
(* ToolWire: the calls a client puts together *)

WireCalls == [name : Seq({"name"}), arguments : Seq(Nat)]
WireTyping ==
  /\ consumer \in {"desktop", "api"} /\ chunks \in Nat /\ seen \subseteq ToolCalls
  /\ acc \in [ToolCalls -> WireCalls] /\ built \in [ToolCalls -> WireCalls]
  /\ meant \in [ToolCalls -> WireCalls]

\* What a call has been named tells whether any of it was seen.
WireInv ==
  /\ WireTyping /\ CallsArriveWhole
  /\ \A i \in ToolCalls :
       /\ i \in seen => meant[i].name = <<"name">>
       /\ i \notin seen => meant[i] = NoCall

LEMMA ConcatsKeep ==
  ASSUME NEW S, NEW s \in Seq(S), NEW t \in Seq(S)
  PROVE  s \o t \in Seq(S) /\ s \o <<>> = s /\ <<>> \o t = t
BY ConcatProperties, ConcatEmptySeq

LEMMA WireChunkKeeps ==
  ASSUME WireInv, NEW i \in ToolCalls, NEW d \in DeltasOf(i), WireChunk(d)
  PROVE  WireInv'
<1>1. WireTyping /\ CallsArriveWhole
  BY DEF WireInv
<1>2. /\ acc[i] \in WireCalls /\ built[i] \in WireCalls /\ meant[i] \in WireCalls /\ acc[i] = meant[i]
      /\ built[i].arguments = meant[i].arguments
  BY <1>1 DEF WireTyping, CallsArriveWhole
<1>3. PICK n \in Seq({"name"}), a \in Seq(Nat) :
         /\ d.index = i /\ d.name = n /\ d.arguments = a
         /\ n = IF meant[i] = NoCall THEN <<"name">> ELSE <<>>
  <2>1. PICK n \in (IF meant[i] = NoCall THEN {<<"name">>} ELSE {<<>>}), a \in {<<>>, <<chunks>>} :
           d = [index |-> i, name |-> n, arguments |-> a]
    BY DEF DeltasOf
  <2>2. <<"name">> \in Seq({"name"}) /\ <<>> \in Seq({"name"}) /\ <<>> \in Seq(Nat)
    OBVIOUS
  <2>3. \A k \in Nat : <<k>> \in Seq(Nat)
    OBVIOUS
  <2>4. n \in Seq({"name"}) /\ n = IF meant[i] = NoCall THEN <<"name">> ELSE <<>>
    <3>1. CASE meant[i] = NoCall
      BY <2>1, <2>2, <3>1
    <3>2. CASE meant[i] # NoCall
      BY <2>1, <2>2, <3>2
    <3> QED BY <3>1, <3>2
  <2>5. a \in Seq(Nat)
    BY <1>1, <2>1, <2>2, <2>3 DEF WireTyping
  <2>6. d.index = i /\ d.name = n /\ d.arguments = a
    BY <2>1
  <2> QED BY <2>4, <2>5, <2>6
<1>4. PICK mn \in Seq({"name"}), ma \in Seq(Nat), bn \in Seq({"name"}) :
         mn = meant[i].name /\ ma = meant[i].arguments /\ bn = built[i].name
  BY <1>2 DEF WireCalls
<1>5. meant[i] = NoCall <=> mn = <<>>
  <2>1. NoCall.name = <<>> /\ <<"name">> # <<>>
    BY DEF NoCall
  <2>2. CASE i \in seen
    <3>1. mn = <<"name">>
      BY <1>4, <2>2 DEF WireInv
    <3> QED BY <1>4, <2>1, <3>1
  <2>3. CASE i \notin seen
    <3>1. meant[i] = NoCall
      BY <2>3 DEF WireInv
    <3> QED BY <1>4, <2>1, <3>1
  <2> QED BY <2>2, <2>3
<1>6. PICK gn \in Seq({"name"}) : gn = mn \o n /\ gn = IF n # <<>> THEN n ELSE mn
  <2>1. mn \o n \in Seq({"name"}) /\ mn \o <<>> = mn /\ <<>> \o n = n
    BY <1>3, <1>4, ConcatsKeep
  <2>2. <<"name">> # <<>>
    OBVIOUS
  <2>3. CASE mn = <<>>
    <3>1. n = <<"name">>
      BY <1>3, <1>5, <2>3
    <3> QED BY <2>1, <2>2, <2>3, <3>1
  <2>4. CASE mn # <<>>
    <3>1. n = <<>>
      BY <1>3, <1>5, <2>4
    <3> QED BY <2>1, <2>4, <3>1
  <2> QED BY <2>3, <2>4
<1>7. PICK ga \in Seq(Nat) : ga = ma \o a
  BY <1>3, <1>4, ConcatsKeep
<1> DEFINE g == [name |-> gn, arguments |-> ga]
<1>8. g \in WireCalls /\ g.name = gn /\ g.arguments = ga
  BY DEF WireCalls
<1>9. Gathered(d) = g
  BY <1>2, <1>3, <1>4, <1>6, <1>7 DEF Gathered
<1>10. WireEvent(d) = [name |-> gn, arguments |-> a]
  BY <1>3, <1>9 DEF WireEvent
<1>11. acc' = [acc EXCEPT ![i] = g]
  BY <1>3, <1>9 DEF WireChunk
<1>12. meant' = [meant EXCEPT ![i] = g]
  <2>1. Concats(meant[i], d) = g
    BY <1>3, <1>4, <1>6, <1>7 DEF Concats
  <2> QED BY <1>1, <1>3, <2>1 DEF WireChunk, WireTyping
<1>13. PICK f \in Seq({"name"}) :
          f = IF consumer = "desktop" /\ i \in seen THEN <<>> ELSE gn
  <2>1. <<>> \in Seq({"name"})
    OBVIOUS
  <2> QED BY <2>1
<1>14. Frame(d) = [name |-> f, arguments |-> a]
  BY <1>3, <1>10, <1>13 DEF Frame
<1>15. PICK bf \in Seq({"name"}) : bf = bn \o f
  BY <1>4, <1>13, ConcatsKeep
<1> DEFINE b == [name |-> bf, arguments |-> ga]
<1>16. b \in WireCalls /\ b.name = bf /\ b.arguments = ga
  BY DEF WireCalls
<1>17. built' = [built EXCEPT ![i] = b]
  <2>1. Concats(built[i], Frame(d)) = b
    BY <1>2, <1>4, <1>7, <1>14, <1>15 DEF Concats
  <2> QED BY <1>1, <1>3, <2>1 DEF WireChunk, WireTyping
<1>18. seen' = seen \cup {i} /\ chunks' \in Nat /\ consumer' = consumer
  BY <1>1, <1>3 DEF WireChunk, WireTyping
<1>19. gn = <<"name">>
  <2>1. CASE mn = <<>>
    <3>1. n = <<"name">> /\ n # <<>>
      BY <1>3, <1>5, <2>1
    <3> QED BY <1>6, <3>1
  <2>2. CASE mn # <<>>
    <3>1. n = <<>> /\ mn = <<"name">>
      BY <1>3, <1>4, <1>5, <2>2 DEF WireInv, NoCall
    <3> QED BY <1>6, <3>1
  <2> QED BY <2>1, <2>2
<1>20. consumer = "desktop" => bf = gn
  <2>1. CASE consumer = "desktop" /\ i \in seen
    <3>1. bn = mn /\ mn = <<"name">> /\ f = <<>>
      BY <1>1, <1>4, <1>13, <2>1 DEF WireInv, CallsArriveWhole
    <3>2. bn \o <<>> = bn
      BY <1>4, ConcatsKeep
    <3> QED BY <1>15, <1>19, <3>1, <3>2
  <2>2. CASE consumer = "desktop" /\ i \notin seen
    <3>1. bn = mn /\ mn = <<>> /\ f = gn
      BY <1>1, <1>4, <1>13, <2>2 DEF WireInv, CallsArriveWhole, NoCall
    <3>2. <<>> \o gn = gn
      BY ConcatsKeep
    <3> QED BY <1>15, <3>1, <3>2
  <2> QED BY <2>1, <2>2
<1> HIDE DEF g, b
<1>21. WireTyping'
  BY <1>1, <1>8, <1>11, <1>12, <1>16, <1>17, <1>18 DEF WireTyping
<1>22. CallsArriveWhole'
  BY <1>1, <1>8, <1>11, <1>12, <1>16, <1>17, <1>18, <1>20 DEF CallsArriveWhole, WireTyping
<1>23. \A c \in ToolCalls : /\ c \in seen' => meant'[c].name = <<"name">>
                            /\ c \notin seen' => meant'[c] = NoCall
  BY <1>1, <1>12, <1>18, <1>19, <1>8 DEF WireInv, WireTyping
<1> QED BY <1>21, <1>22, <1>23 DEF WireInv

\* gateway/adapters.py and streaming.py: however the pieces of several calls are mixed, a
\* client that concatenates has of each what the provider said of it, and the desktop's has
\* its name once.
THEOREM CallsAreWhole == WireSpec => []CallsArriveWhole
<1>1. WireInit => WireInv
  <2> SUFFICES ASSUME WireInit  PROVE WireInv
    OBVIOUS
  <2>1. NoCall \in WireCalls
    BY DEF NoCall, WireCalls
  <2>2. WireTyping /\ CallsArriveWhole
    BY <2>1 DEF WireInit, WireTyping, CallsArriveWhole
  <2> QED BY <2>2 DEF WireInit, WireInv
<1>2. WireInv /\ [WireNext]_wireVars => WireInv'
  <2>1. CASE UNCHANGED wireVars
    BY <2>1 DEF wireVars, WireInv, WireTyping, CallsArriveWhole
  <2> QED BY <2>1, WireChunkKeeps DEF WireNext
<1>3. WireInv => CallsArriveWhole
  BY DEF WireInv
<1> QED BY <1>1, <1>2, <1>3, PTL DEF WireSpec

-----------------------------------------------------------------------------
(* Planning *)

\* A strict total order on a finite set, as a set of pairs: what lies below an element.
Orders(R, S) ==
  /\ \A a \in S : <<a, a>> \notin R
  /\ \A a, b, c \in S : <<a, b>> \in R /\ <<b, c>> \in R => <<a, c>> \in R
  /\ \A a, b \in S : a # b => <<a, b>> \in R \/ <<b, a>> \in R
Below(R, S, m) == {o \in S : <<o, m>> \in R}

\* The number of elements below one is less than that of the set, and grows with the order.
LEMMA BelowGrows ==
  ASSUME NEW S, IsFiniteSet(S), NEW R, Orders(R, S)
  PROVE  /\ \A m \in S : Cardinality(Below(R, S, m)) \in 0 .. Cardinality(S) - 1
         /\ \A m, n \in S : <<m, n>> \in R => Cardinality(Below(R, S, m)) < Cardinality(Below(R, S, n))
<1>1. \A m \in S : /\ IsFiniteSet(Below(R, S, m))
                   /\ Cardinality(Below(R, S, m)) \in 0 .. Cardinality(S) - 1
  <2> SUFFICES ASSUME NEW m \in S
               PROVE  /\ IsFiniteSet(Below(R, S, m))
                      /\ Cardinality(Below(R, S, m)) \in 0 .. Cardinality(S) - 1
    OBVIOUS
  <2>1. Below(R, S, m) \in SUBSET (S \ {m})
    BY DEF Orders, Below
  <2>2. IsFiniteSet(S \ {m}) /\ Cardinality(S \ {m}) = Cardinality(S) - 1
    BY FS_RemoveElement
  <2>3. IsFiniteSet(Below(R, S, m)) /\ Cardinality(Below(R, S, m)) <= Cardinality(S \ {m})
    BY <2>1, <2>2, FS_Subset
  <2>4. Cardinality(Below(R, S, m)) \in Nat /\ Cardinality(S) \in Nat
    BY <2>3, FS_CardinalityType
  <2> QED BY <2>2, <2>3, <2>4
<1>2. ASSUME NEW m \in S, NEW n \in S, <<m, n>> \in R
      PROVE  Cardinality(Below(R, S, m)) < Cardinality(Below(R, S, n))
  <2>1. m \notin Below(R, S, m) /\ Below(R, S, m) \cup {m} \in SUBSET Below(R, S, n)
    BY <1>2 DEF Orders, Below
  <2>2. Cardinality(Below(R, S, m) \cup {m}) = Cardinality(Below(R, S, m)) + 1
    BY <1>1, <2>1, FS_AddElement
  <2>3. Cardinality(Below(R, S, m) \cup {m}) <= Cardinality(Below(R, S, n))
    BY <1>1, <2>1, FS_Subset
  <2>4. Cardinality(Below(R, S, m)) \in Nat /\ Cardinality(Below(R, S, n)) \in Nat
    BY <1>1, FS_CardinalityType
  <2> QED BY <2>2, <2>3, <2>4
<1> QED BY <1>1, <1>2

\* So every number of elements below is that of one element: a finite order has its ranking.
LEMMA RanksExist ==
  ASSUME NEW S, IsFiniteSet(S), NEW R, Orders(R, S), NEW k \in 0 .. Cardinality(S) - 1
  PROVE  \E m \in S : Cardinality(Below(R, S, m)) = k
<1> DEFINE n == Cardinality(S)
           f == [m \in S |-> Cardinality(Below(R, S, m))]
<1>1. n \in Nat
  BY FS_CardinalityType
<1>2. f \in [S -> 0 .. n - 1]
  BY BelowGrows
<1>3. \A a, b \in S : a # b => f[a] # f[b]
  <2> SUFFICES ASSUME NEW a \in S, NEW b \in S, a # b  PROVE f[a] # f[b]
    OBVIOUS
  <2>1. <<a, b>> \in R \/ <<b, a>> \in R
    BY DEF Orders
  <2>2. f[a] < f[b] \/ f[b] < f[a]
    BY <2>1, BelowGrows
  <2>3. f[a] \in Int /\ f[b] \in Int
    BY <1>1, <1>2
  <2> QED BY <2>2, <2>3
<1>4. IsFiniteSet(0 .. n - 1) /\ Cardinality(0 .. n - 1) = n
  BY <1>1, FS_Interval
<1> HIDE DEF f
<1>5. f \in Injection(S, 0 .. n - 1)
  BY <1>2, <1>3 DEF Injection, IsInjective
<1>6. f \in Surjection(S, 0 .. n - 1)
  BY <1>4, <1>5, FS_Injection
<1>7. \E m \in S : f[m] = k
  BY <1>6 DEF Surjection
<1> QED BY <1>7 DEF f

\* What the registry holds: chain models at the priority of their last place in the chain,
\* the others before all of them or after, and no two registered at the same time.
Registered ==
  /\ chain \in Seq(ModelIds) /\ Len(chain) \in 1 .. ChainLength
  /\ DOMAIN registry \subseteq ModelIds
  /\ registry \in [DOMAIN registry -> [priority : Nat, born : Nat]]
  /\ \A i \in DOMAIN chain : chain[i] \in DOMAIN registry
  /\ \A id \in DOMAIN registry :
       /\ registry[id].born <= Len(chain) + Cardinality(DOMAIN registry)
       /\ IF Places(chain, id) # {} THEN registry[id].priority = LastPlace(Places(chain, id)) - 1
                                    ELSE registry[id].priority = 0 \/ registry[id].priority >= 100
  /\ \A a, b \in DOMAIN registry : registry[a].born = registry[b].born => a = b

LEMMA PricesAreKnown ==
  ASSUME NEW id \in ModelIds
  PROVE  /\ PriceOf(id) \in Nat \cup {NoPrice} /\ LatencyOf[id] \in Nat \cup {NoPrice}
         /\ IsFree(id) => PriceOf(id) = 0
BY PlanningAssumption DEF PriceOf, IsFree, NoPrice

LEMMA PolicyKeys ==
  ASSUME NEW id \in ModelIds, NEW policy
  PROVE  \E g \in Nat, n \in Nat : PolicyKey(policy, id) = <<g, n>>
<1>1. \A n \in Nat \cup {NoPrice} : \E g \in Nat, m \in Nat : Known(n) = <<g, m>>
  BY DEF Known, NoPrice
<1> HIDE DEF Known
<1>2. CASE policy = "cost"
  BY <1>1, <1>2, PricesAreKnown DEF PolicyKey
<1>3. CASE policy = "latency"
  BY <1>1, <1>3, PricesAreKnown DEF PolicyKey
<1>4. CASE policy \notin {"cost", "latency"}
  BY <1>4 DEF PolicyKey
<1> QED BY <1>2, <1>3, <1>4

\* The key a model is ranked by, and what it means for one to come before another.
KeyOf(policy, id) == PolicyKey(policy, id) \o <<registry[id].priority, registry[id].born>>
Lex(x, y) ==
  \/ x[1] < y[1]
  \/ x[1] = y[1] /\ x[2] < y[2]
  \/ x[1] = y[1] /\ x[2] = y[2] /\ x[3] < y[3]
  \/ x[1] = y[1] /\ x[2] = y[2] /\ x[3] = y[3] /\ x[4] < y[4]

LEMMA KeysOf ==
  ASSUME Registered, NEW id \in DOMAIN registry, NEW policy
  PROVE  /\ KeyOf(policy, id) \in Seq(Nat) /\ Len(KeyOf(policy, id)) = 4
         /\ KeyOf(policy, id)[1] = PolicyKey(policy, id)[1]
         /\ KeyOf(policy, id)[2] = PolicyKey(policy, id)[2]
         /\ KeyOf(policy, id)[3] = registry[id].priority
         /\ KeyOf(policy, id)[4] = registry[id].born
<1>1. id \in ModelIds /\ registry[id].priority \in Nat /\ registry[id].born \in Nat
  BY DEF Registered
<1>2. PICK g \in Nat, n \in Nat : PolicyKey(policy, id) = <<g, n>>
  BY <1>1, PolicyKeys
<1>3. \A p, b \in Nat : /\ <<g, n>> \o <<p, b>> \in Seq(Nat) /\ Len(<<g, n>> \o <<p, b>>) = 4
                        /\ (<<g, n>> \o <<p, b>>)[1] = g /\ (<<g, n>> \o <<p, b>>)[2] = n
                        /\ (<<g, n>> \o <<p, b>>)[3] = p /\ (<<g, n>> \o <<p, b>>)[4] = b
  OBVIOUS
<1> QED BY <1>1, <1>2, <1>3 DEF KeyOf

LEMMA RanksAreLex ==
  ASSUME Registered, NEW a \in DOMAIN registry, NEW b \in DOMAIN registry, NEW policy
  PROVE  RanksBefore(policy, a, b) <=> Lex(KeyOf(policy, a), KeyOf(policy, b))
<1>1. ASSUME NEW x, NEW y
      PROVE  Lex(x, y) <=> \E n \in 1 .. 4 : x[n] < y[n] /\ \A k \in 1 .. n - 1 : x[k] = y[k]
  <2>1. 1 .. 4 = {1, 2, 3, 4} /\ 1 .. 0 = {} /\ 1 .. 1 = {1} /\ 1 .. 2 = {1, 2} /\ 1 .. 3 = {1, 2, 3}
    OBVIOUS
  <2>2. 1 - 1 = 0 /\ 2 - 1 = 1 /\ 3 - 1 = 2 /\ 4 - 1 = 3
    OBVIOUS
  <2> QED BY <2>1, <2>2 DEF Lex
<1> QED BY <1>1 DEF RanksBefore, KeyOf

PlanOrder(policy, S) == {e \in S \X S : RanksBefore(policy, e[1], e[2])}

\* The models of a registry are ranked by a strict total order, whatever the policy.
LEMMA PlansAreOrdered ==
  ASSUME Registered, NEW S \in SUBSET DOMAIN registry, NEW policy
  PROVE  /\ IsFiniteSet(S) /\ Orders(PlanOrder(policy, S), S)
         /\ \A m \in S : Below(PlanOrder(policy, S), S, m) = {o \in S : RanksBefore(policy, o, m)}
<1> DEFINE R == PlanOrder(policy, S)
           K(m) == KeyOf(policy, m)
<1>1. IsFiniteSet(S)
  BY PlanningAssumption, FS_Subset DEF Registered
<1>2. \A a, b \in S : <<a, b>> \in R <=> Lex(K(a), K(b))
  BY RanksAreLex DEF PlanOrder
<1>3. \A a \in S : /\ K(a)[1] \in Int /\ K(a)[2] \in Int /\ K(a)[3] \in Int /\ K(a)[4] \in Int
                   /\ K(a)[4] = registry[a].born
  BY KeysOf
<1>4. \A a, b \in S : K(a)[4] = K(b)[4] => a = b
  BY <1>3 DEF Registered
<1> HIDE DEF R, K
<1>5. Orders(R, S)
  <2>1. \A a \in S : ~Lex(K(a), K(a))
    BY <1>3 DEF Lex
  <2>2. \A a, b, c \in S : Lex(K(a), K(b)) /\ Lex(K(b), K(c)) => Lex(K(a), K(c))
    BY <1>3 DEF Lex
  <2>3. \A a, b \in S : a # b => Lex(K(a), K(b)) \/ Lex(K(b), K(a))
    BY <1>3, <1>4 DEF Lex
  <2> QED BY <1>2, <2>1, <2>2, <2>3 DEF Orders
<1>6. \A m \in S : Below(R, S, m) = {o \in S : RanksBefore(policy, o, m)}
  BY DEF Below, R, PlanOrder
<1> QED BY <1>1, <1>5, <1>6 DEF R

\* Each model of a set once.
Lists(s, S) ==
  /\ \A m \in S : \E i \in 1 .. Len(s) : s[i] = m
  /\ \A i, j \in 1 .. Len(s) : s[i] = s[j] => i = j

\* _rank: each model once, and an earlier one ranks before a later one.
LEMMA RankSorts ==
  ASSUME Registered, NEW S \in SUBSET DOMAIN registry, NEW policy, NEW ranked, ranked = Rank(S, policy)
  PROVE  /\ ranked \in Seq(S) /\ Len(ranked) = Cardinality(S) /\ Lists(ranked, S)
         /\ \A i, j \in 1 .. Len(ranked) : i < j => RanksBefore(policy, ranked[i], ranked[j])
<1> DEFINE R == PlanOrder(policy, S)
           n == Cardinality(S)
           C(m) == Cardinality({o \in S : RanksBefore(policy, o, m)})
<1>1. /\ IsFiniteSet(S) /\ Orders(R, S)
      /\ \A m \in S : Below(R, S, m) = {o \in S : RanksBefore(policy, o, m)}
  BY PlansAreOrdered
<1>2. n \in Nat
  BY <1>1, FS_CardinalityType
<1>3. ranked = [i \in 1 .. n |-> CHOOSE m \in S : C(m) = i - 1]
  BY DEF Rank
<1>4. \A i \in 1 .. n : ranked[i] \in S /\ C(ranked[i]) = i - 1
  <2> SUFFICES ASSUME NEW i \in 1 .. n  PROVE ranked[i] \in S /\ C(ranked[i]) = i - 1
    OBVIOUS
  <2>1. i - 1 \in 0 .. Cardinality(S) - 1
    BY <1>2
  <2>2. \E m \in S : C(m) = i - 1
    <3>1. \E m \in S : Cardinality(Below(R, S, m)) = i - 1
      BY <1>1, <2>1, RanksExist
    <3> QED BY <1>1, <3>1
  <2> QED BY <1>3, <2>2
<1>5. \A m \in S : C(m) = Cardinality(Below(R, S, m))
  BY <1>1
<1>6. /\ \A m \in S : C(m) \in 0 .. n - 1
      /\ \A a, b \in S : <<a, b>> \in R => C(a) < C(b)
  BY <1>1, <1>5, BelowGrows
<1>7. \A a, b \in S : a # b => <<a, b>> \in R \/ <<b, a>> \in R
  BY <1>1 DEF Orders
<1> HIDE DEF C, R
<1>8. ranked \in [1 .. n -> S]
  BY <1>3, <1>4
<1>9. ranked \in Seq(S) /\ Len(ranked) = n
  BY <1>2, <1>8
<1>10. \A m \in S : \E i \in 1 .. n : ranked[i] = m
  <2> SUFFICES ASSUME NEW m \in S  PROVE \E i \in 1 .. n : ranked[i] = m
    OBVIOUS
  <2>1. C(m) + 1 \in 1 .. n /\ (C(m) + 1) - 1 = C(m)
    BY <1>2, <1>6
  <2>2. ranked[C(m) + 1] \in S /\ C(ranked[C(m) + 1]) = C(m)
    BY <1>4, <2>1
  <2>3. ASSUME NEW r \in S, C(r) = C(m)  PROVE r = m
    <3>1. ~(C(r) < C(m)) /\ ~(C(m) < C(r))
      BY <1>2, <1>6, <2>3
    <3> QED BY <1>6, <1>7, <3>1
  <2> QED BY <2>1, <2>2, <2>3
<1>11. \A i, j \in 1 .. n : ranked[i] = ranked[j] => i = j
  BY <1>2, <1>4
<1>12. \A i, j \in 1 .. n : i < j => <<ranked[i], ranked[j]>> \in R
  <2> SUFFICES ASSUME NEW i \in 1 .. n, NEW j \in 1 .. n, i < j  PROVE <<ranked[i], ranked[j]>> \in R
    OBVIOUS
  <2>1. ranked[i] # ranked[j]
    BY <1>2, <1>11
  <2>2. <<ranked[j], ranked[i]>> \in R => j - 1 < i - 1
    BY <1>4, <1>6
  <2> QED BY <1>2, <1>4, <1>7, <2>1, <2>2
<1>13. \A i, j \in 1 .. n : i < j => RanksBefore(policy, ranked[i], ranked[j])
  BY <1>12 DEF R, PlanOrder
<1>14. Lists(ranked, S)
  BY <1>9, <1>10, <1>11 DEF Lists
<1> QED BY <1>9, <1>13, <1>14

LEMMA RemovesOne ==
  ASSUME NEW S, NEW s \in Seq(S), NEW p \in 1 .. Len(s)
  PROVE  /\ RemoveAt(s, p) \in Seq(S) /\ Len(RemoveAt(s, p)) = Len(s) - 1
         /\ \A k \in 1 .. Len(s) - 1 : RemoveAt(s, p)[k] = IF k < p THEN s[k] ELSE s[k + 1]
<1> DEFINE a == SubSeq(s, 1, p - 1)
           b == SubSeq(s, p + 1, Len(s))
<1>1. Len(s) \in Nat
  BY LenProperties
<1>2. a \in Seq(S) /\ Len(a) = p - 1 /\ \A k \in 1 .. p - 1 : a[k] = s[k]
  <2>1. \A k \in 1 .. p - 1 : s[k] \in S
    BY <1>1, ElementOfSeq
  <2>2. a = [k \in 1 .. p - 1 |-> s[k]]
    BY <1>1
  <2> QED BY <1>1, <2>1, <2>2
<1>3. b \in Seq(S) /\ Len(b) = Len(s) - p /\ \A k \in 1 .. Len(s) - p : b[k] = s[k + p]
  <2>1. \A k \in 1 .. Len(s) - p : s[k + p] \in S
    BY <1>1, ElementOfSeq
  <2>2. b = [k \in 1 .. Len(s) - p |-> s[p + 1 + k - 1]]
    BY <1>1
  <2> QED BY <1>1, <2>1, <2>2
<1> HIDE DEF a, b
<1>4. RemoveAt(s, p) = a \o b
  BY DEF RemoveAt, a, b
<1>5. a \o b \in Seq(S) /\ Len(a \o b) = Len(s) - 1
  <2>1. a \o b \in Seq(S) /\ Len(a \o b) = Len(a) + Len(b)
    BY <1>2, <1>3, ConcatProperties
  <2> QED BY <1>1, <1>2, <1>3, <2>1
<1>6. ASSUME NEW k \in 1 .. Len(s) - 1
      PROVE  (a \o b)[k] = IF k < p THEN s[k] ELSE s[k + 1]
  <2>1. CASE k < p
    BY <1>1, <1>2, <1>3, <2>1
  <2>2. CASE ~(k < p)
    <3>1. (a \o b)[k] = b[k - (p - 1)]
      BY <1>1, <1>2, <1>3, <2>2
    <3>2. k - (p - 1) \in 1 .. Len(s) - p /\ (k - (p - 1)) + p = k + 1
      BY <1>1, <2>2
    <3> QED BY <1>1, <1>3, <2>2, <3>1, <3>2
  <2> QED BY <2>1, <2>2
<1> QED BY <1>4, <1>5, <1>6

\* What a sequence holds, and one that is another without what it has at one place.
Holds(s) == {s[i] : i \in DOMAIN s}
Without(t, s, p) ==
  /\ Len(t) = Len(s) - 1
  /\ \A k \in 1 .. Len(s) - 1 : t[k] = IF k < p THEN s[k] ELSE s[k + 1]

\* Putting one in front keeps every model once, and the others in their order.
LEMMA FirstIsPut ==
  ASSUME NEW S, NEW s \in Seq(S), \A i, j \in 1 .. Len(s) : s[i] = s[j] => i = j,
         NEW p \in 1 .. Len(s), NEW f, f = PutFirst(s, s[p])
  PROVE  /\ f \in Seq(S) /\ Len(f) = Len(s) /\ f[1] = s[p]
         /\ Tail(f) \in Seq(S) /\ Without(Tail(f), s, p) /\ Holds(f) = Holds(s)
<1> DEFINE t == RemoveAt(s, p)
           id == s[p]
<1>1. Len(s) \in Nat /\ id \in S
  BY LenProperties, ElementOfSeq
<1>2. /\ t \in Seq(S) /\ Len(t) = Len(s) - 1
      /\ \A k \in 1 .. Len(s) - 1 : t[k] = IF k < p THEN s[k] ELSE s[k + 1]
  BY RemovesOne
<1>3. Places(s, id) = {p}
  BY <1>1 DEF Places
<1>4. FirstPlace(Places(s, id)) = p
  BY <1>1, <1>3 DEF FirstPlace
<1>5. f = <<id>> \o t
  BY <1>4 DEF PutFirst
<1> HIDE DEF t
<1>6. f \in Seq(S) /\ Len(f) = Len(s) /\ f[1] = id
  BY <1>1, <1>2, <1>5
<1>7. \A k \in 1 .. Len(s) - 1 : f[k + 1] = t[k]
  BY <1>1, <1>2, <1>5
<1>8. Tail(f) \in Seq(S) /\ Len(Tail(f)) = Len(s) - 1 /\ \A k \in 1 .. Len(s) - 1 : Tail(f)[k] = f[k + 1]
  <2>1. f # <<>>
    BY <1>1, <1>6
  <2>2. Tail(f) \in Seq(S) /\ Len(Tail(f)) = Len(f) - 1 /\ \A k \in 1 .. Len(Tail(f)) : Tail(f)[k] = f[k + 1]
    BY <1>6, <2>1, HeadTailProperties
  <2> QED BY <1>6, <2>2
<1>9. \A k \in 1 .. Len(s) - 1 : Tail(f)[k] = IF k < p THEN s[k] ELSE s[k + 1]
  BY <1>2, <1>7, <1>8
<1>10. DOMAIN f = 1 .. Len(s) /\ DOMAIN s = 1 .. Len(s)
  BY <1>6
<1>11. \A i \in 1 .. Len(s) : \E j \in 1 .. Len(s) : f[i] = s[j]
  <2> SUFFICES ASSUME NEW i \in 1 .. Len(s)  PROVE \E j \in 1 .. Len(s) : f[i] = s[j]
    OBVIOUS
  <2>1. CASE i = 1
    BY <1>6, <2>1
  <2>2. CASE i # 1
    <3>1. i - 1 \in 1 .. Len(s) - 1 /\ (i - 1) + 1 = i
      BY <1>1, <2>2
    <3>2. f[(i - 1) + 1] = t[i - 1]
      BY <1>7, <3>1
    <3>3. t[i - 1] = IF i - 1 < p THEN s[i - 1] ELSE s[(i - 1) + 1]
      BY <1>2, <3>1
    <3> QED BY <1>1, <3>1, <3>2, <3>3
  <2> QED BY <2>1, <2>2
<1>12. \A j \in 1 .. Len(s) : \E i \in 1 .. Len(s) : f[i] = s[j]
  <2> SUFFICES ASSUME NEW j \in 1 .. Len(s)  PROVE \E i \in 1 .. Len(s) : f[i] = s[j]
    OBVIOUS
  <2>1. CASE j = p
    BY <1>1, <1>6, <2>1
  <2>2. CASE j < p
    <3>1. j \in 1 .. Len(s) - 1 /\ j + 1 \in 1 .. Len(s)
      BY <1>1, <2>2
    <3> QED BY <1>2, <1>7, <2>2, <3>1
  <2>3. CASE j > p
    <3>1. j - 1 \in 1 .. Len(s) - 1 /\ (j - 1) + 1 = j /\ ~(j - 1 < p)
      BY <1>1, <2>3
    <3>2. f[(j - 1) + 1] = t[j - 1]
      BY <1>7, <3>1
    <3>3. t[j - 1] = s[(j - 1) + 1]
      BY <1>2, <3>1
    <3> QED BY <3>1, <3>2, <3>3
  <2> QED BY <1>1, <2>1, <2>2, <2>3
<1>13. {f[i] : i \in DOMAIN f} = {s[i] : i \in DOMAIN s}
  <2>1. \A i \in DOMAIN f : \E j \in DOMAIN s : f[i] = s[j]
    BY <1>10, <1>11
  <2>2. \A j \in DOMAIN s : \E i \in DOMAIN f : f[i] = s[j]
    BY <1>10, <1>12
  <2>3. \A i \in DOMAIN f : f[i] \in {s[j] : j \in DOMAIN s}
    BY <2>1
  <2>4. \A j \in DOMAIN s : s[j] \in {f[i] : i \in DOMAIN f}
    BY <2>2
  <2> QED BY <2>3, <2>4
<1> QED BY <1>6, <1>8, <1>9, <1>13 DEF Without, Holds

\* How a plan was made, from the registry as it is: a sorted list of the models that are
\* left, with the one that was asked for put in front.
Sorted(s, policy) == \A i, j \in 1 .. Len(s) : i < j => RanksBefore(policy, s[i], s[j])
MadeFrom(s, S) ==
  /\ s \in Seq(S) /\ Len(s) = Cardinality(S) /\ Lists(s, S) /\ Sorted(s, asked.policy)
  /\ planned = IF asked.model \in S THEN PutFirst(s, asked.model) ELSE s
PlanMade == \E s : MadeFrom(s, Matching(asked) \ asked.out)
Refused == asked.out = ModelIds /\ planned = <<>>

\* What was planned is the ranking, or the ranking with one model put in front of it.
LEMMA RestIsRanked ==
  ASSUME asked.model \in ModelIds \cup {"none"}, NEW S \in SUBSET ModelIds, NEW s \in Seq(S), Lists(s, S),
         planned = IF asked.model \in S THEN PutFirst(s, asked.model) ELSE s
  PROVE  /\ planned \in Seq(S) /\ Len(planned) = Len(s)
         /\ Holds(planned) = S
         /\ asked.model \in S => planned[1] = asked.model
         /\ Rest \in Seq(S)
         /\ \A i, j \in DOMAIN Rest : i < j =>
              \E k, l \in 1 .. Len(s) : k < l /\ Rest[i] = s[k] /\ Rest[j] = s[l]
<1>1. Len(s) \in Nat /\ DOMAIN s = 1 .. Len(s) /\ \A i \in DOMAIN s : s[i] \in S
  BY ElementOfSeq
<1>2. Holds(s) = S
  <2>1. \A i \in DOMAIN s : s[i] \in S
    BY <1>1
  <2>2. \A m \in S : m \in {s[i] : i \in DOMAIN s}
    BY <1>1 DEF Lists
  <2> QED BY <2>1, <2>2 DEF Holds
<1>3. CASE asked.model \in S
  <2>1. planned = PutFirst(s, asked.model)
    BY <1>3
  <2>2. PICK p \in 1 .. Len(s) : s[p] = asked.model
    BY <1>3 DEF Lists
  <2>3. /\ planned \in Seq(S) /\ Len(planned) = Len(s) /\ planned[1] = asked.model
        /\ Tail(planned) \in Seq(S) /\ Without(Tail(planned), s, p) /\ Holds(planned) = Holds(s)
    <3>1. \A i, j \in 1 .. Len(s) : s[i] = s[j] => i = j
      BY DEF Lists
    <3>2. planned = PutFirst(s, s[p])
      BY <2>1, <2>2
    <3> QED BY <2>2, <3>1, <3>2, FirstIsPut
  <2>4. Rest = Tail(planned)
    <3>1. planned # <<>> /\ asked.model \in ModelIds
      BY <1>1, <1>3, <2>2, <2>3
    <3> QED BY <2>3, <3>1 DEF Rest
  <2>5. Rest \in Seq(S) /\ DOMAIN Rest = 1 .. Len(s) - 1
    BY <2>3, <2>4 DEF Without
  <2>6. ASSUME NEW i \in DOMAIN Rest, NEW j \in DOMAIN Rest, i < j
        PROVE  \E k, l \in 1 .. Len(s) : k < l /\ Rest[i] = s[k] /\ Rest[j] = s[l]
    <3> DEFINE at(k) == IF k < p THEN k ELSE k + 1
    <3>1. at(i) \in 1 .. Len(s) /\ at(j) \in 1 .. Len(s) /\ at(i) < at(j)
      BY <1>1, <2>2, <2>5, <2>6
    <3>2. Rest[i] = s[at(i)] /\ Rest[j] = s[at(j)]
      BY <2>3, <2>4, <2>5 DEF Without
    <3> HIDE DEF at
    <3> QED BY <3>1, <3>2
  <2> QED BY <1>2, <2>3, <2>5, <2>6
<1>4. CASE asked.model \notin S
  <2>1. planned = s
    BY <1>4
  <2>2. Rest = s
    <3>1. s # <<>> => s[1] \in S
      BY <1>1
    <3> QED BY <1>4, <2>1, <3>1 DEF Rest
  <2> QED BY <1>1, <1>2, <1>4, <2>1, <2>2
<1> QED BY <1>3, <1>4

LEMMA PlansAreRanked ==
  ASSUME Registered, PlanMade, asked.model \in ModelIds \cup {"none"},
         NEW S, S = Matching(asked) \ asked.out
  PROVE  /\ planned \in Seq(S) /\ Len(planned) = Cardinality(S) /\ Holds(planned) = S
         /\ asked.model \in S => planned[1] = asked.model
         /\ Rest \in Seq(S)
         /\ \A i, j \in DOMAIN Rest : i < j => RanksBefore(asked.policy, Rest[i], Rest[j])
<1>1. S \in SUBSET ModelIds
  BY DEF Matching, Registered
<1>2. PICK s : MadeFrom(s, S)
  BY DEF PlanMade
<1>3. /\ planned \in Seq(S) /\ Len(planned) = Len(s) /\ Holds(planned) = S
      /\ asked.model \in S => planned[1] = asked.model
      /\ Rest \in Seq(S)
      /\ \A i, j \in DOMAIN Rest : i < j =>
           \E k, l \in 1 .. Len(s) : k < l /\ Rest[i] = s[k] /\ Rest[j] = s[l]
  BY <1>1, <1>2, RestIsRanked DEF MadeFrom
<1>4. \A i, j \in 1 .. Len(s) : i < j => RanksBefore(asked.policy, s[i], s[j])
  BY <1>2 DEF MadeFrom, Sorted
<1>5. Len(s) = Cardinality(S)
  BY <1>2 DEF MadeFrom
<1>6. ASSUME NEW i \in DOMAIN Rest, NEW j \in DOMAIN Rest, i < j
      PROVE  RanksBefore(asked.policy, Rest[i], Rest[j])
  <2>1. PICK k \in 1 .. Len(s), l \in 1 .. Len(s) : k < l /\ Rest[i] = s[k] /\ Rest[j] = s[l]
    BY <1>3, <1>6
  <2>2. RanksBefore(asked.policy, s[k], s[l])
    BY <1>4, <2>1
  <2> QED BY <2>1, <2>2
<1> QED BY <1>3, <1>5, <1>6

\* A model that comes before another under a policy, by what the key compares first.
LEMMA EarlierIsCheaper ==
  ASSUME Registered, NEW a \in DOMAIN registry, NEW b \in DOMAIN registry,
         RanksBefore("cost", a, b), PriceOf(b) # NoPrice
  PROVE  PriceOf(a) \in 0 .. PriceOf(b)
<1>1. Lex(KeyOf("cost", a), KeyOf("cost", b))
  BY RanksAreLex
<1>2. \A id \in DOMAIN registry : /\ KeyOf("cost", id)[1] = Known(PriceOf(id))[1]
                                  /\ KeyOf("cost", id)[2] = Known(PriceOf(id))[2]
  BY KeysOf DEF PolicyKey
<1>3. \A n \in Nat \cup {NoPrice} : /\ n = NoPrice => Known(n)[1] = 1
                                    /\ n # NoPrice => Known(n)[1] = 0 /\ Known(n)[2] = n
  BY DEF Known
<1>4. PriceOf(a) \in Nat \cup {NoPrice} /\ PriceOf(b) \in Nat \cup {NoPrice}
  BY PricesAreKnown DEF Registered
<1> QED BY <1>1, <1>2, <1>3, <1>4 DEF Lex, NoPrice

LEMMA EarlierHasPriority ==
  ASSUME Registered, NEW a \in DOMAIN registry, NEW b \in DOMAIN registry,
         RanksBefore("priority", a, b)
  PROVE  /\ registry[a].priority \in Nat /\ registry[b].priority \in Nat
         /\ registry[a].priority <= registry[b].priority
<1>1. Lex(KeyOf("priority", a), KeyOf("priority", b))
  BY RanksAreLex
<1>2. \A id \in DOMAIN registry : /\ KeyOf("priority", id)[1] = 0 /\ KeyOf("priority", id)[2] = 0
                                  /\ KeyOf("priority", id)[3] = registry[id].priority
                                  /\ registry[id].priority \in Nat
  <2>1. \A id : PolicyKey("priority", id) = <<0, 0>>
    BY DEF PolicyKey
  <2>2. \A id \in DOMAIN registry : registry[id].priority \in Nat
    BY DEF Registered
  <2> QED BY <2>1, <2>2, KeysOf
<1> QED BY <1>1, <1>2 DEF Lex

\* A set of numbers has a least one, and so a set of places a first and a last one.
LEMMA LeastIsThere ==
  ASSUME NEW T \in SUBSET Nat, T # {}
  PROVE  \E n \in T : \A m \in T : n <= m
<1>1. PICK n \in T : \A m \in T : ~(<<m, n>> \in OpToRel(<, Nat))
  BY NatLessThanWellFounded, WFMin
<1>2. \A m \in T : ~(m < n)
  BY <1>1 DEF OpToRel
<1> QED BY <1>2

LEMMA PlacesHaveEnds ==
  ASSUME NEW n \in Nat, NEW P \in SUBSET (1 .. n), P # {}
  PROVE  FirstPlace(P) \in P /\ LastPlace(P) \in P /\ \A i \in P : FirstPlace(P) <= i /\ i <= LastPlace(P)
<1>1. \E i \in P : \A j \in P : i <= j
  BY LeastIsThere
<1>2. \E i \in P : \A j \in P : j <= i
  <2> DEFINE T == {k \in 0 .. n : n - k \in P}
  <2>1. \A i \in P : n - i \in T
    OBVIOUS
  <2>2. T \in SUBSET Nat /\ \A k \in T : n - k \in P
    OBVIOUS
  <2> HIDE DEF T
  <2>3. T # {}
    BY <2>1
  <2>4. PICK k \in T : \A m \in T : k <= m
    BY <2>2, <2>3, LeastIsThere
  <2>5. n - k \in P /\ \A j \in P : k <= n - j
    BY <2>1, <2>2, <2>4
  <2>6. k \in Nat
    BY <2>2
  <2> QED BY <2>5, <2>6
<1> QED BY <1>1, <1>2 DEF FirstPlace, LastPlace

\* The first and the last place of a model tell which model it is.
LEMMA PlacesAreOf ==
  ASSUME NEW s \in Seq(ModelIds), NEW id, Places(s, id) # {}
  PROVE  /\ FirstPlace(Places(s, id)) \in 1 .. Len(s) /\ s[FirstPlace(Places(s, id))] = id
         /\ LastPlace(Places(s, id)) \in 1 .. Len(s) /\ s[LastPlace(Places(s, id))] = id
<1> DEFINE P == Places(s, id)
<1>1. P \in SUBSET (1 .. Len(s)) /\ Len(s) \in Nat /\ \A i \in P : s[i] = id
  BY DEF Places
<1> HIDE DEF P
<1>2. P # {}
  BY DEF P
<1>3. FirstPlace(P) \in P /\ LastPlace(P) \in P
  BY <1>1, <1>2, PlacesHaveEnds
<1> QED BY <1>1, <1>3 DEF P

LEMMA RegisteredInit == PlanningInit => Registered
<1> SUFFICES ASSUME PlanningInit  PROVE Registered
  OBVIOUS
<1> DEFINE InChain == {chain[i] : i \in DOMAIN chain}
           InCatalog == {Catalog[i] : i \in DOMAIN Catalog}
<1>1. chain \in Seq(ModelIds) /\ Len(chain) \in 1 .. ChainLength /\ ChainLength \in Nat
  BY PlanningAssumption DEF PlanningInit
<1>2. Catalog \in Seq(ModelIds) /\ Len(Catalog) \in Nat /\ Len(chain) \in Nat
  BY <1>1, PlanningAssumption
<1>3. /\ DOMAIN registry = InChain \cup InCatalog
      /\ \A id \in InChain : registry[id] = [priority |-> LastPlace(Places(chain, id)) - 1,
                                             born |-> FirstPlace(Places(chain, id))]
      /\ \A id \in InCatalog \ InChain :
           registry[id] = [priority |-> 99 + FirstPlace(Places(Catalog, id)),
                           born |-> Len(chain) + FirstPlace(Places(Catalog, id))]
      /\ registry = [id \in DOMAIN registry |-> registry[id]]
  BY DEF PlanningInit, DefaultRegistry
<1>4. /\ InChain \subseteq ModelIds /\ InCatalog \subseteq ModelIds
      /\ \A id : Places(chain, id) # {} <=> id \in InChain
      /\ \A id : Places(Catalog, id) # {} <=> id \in InCatalog
      /\ \A i \in DOMAIN chain : chain[i] \in InChain
  BY <1>1, <1>2, ElementOfSeq DEF Places
<1> HIDE DEF InChain, InCatalog
<1>5. \A id \in InChain : /\ FirstPlace(Places(chain, id)) \in 1 .. Len(chain)
                          /\ chain[FirstPlace(Places(chain, id))] = id
                          /\ LastPlace(Places(chain, id)) \in 1 .. Len(chain)
  BY <1>1, <1>4, PlacesAreOf
<1>6. \A id \in InCatalog : /\ FirstPlace(Places(Catalog, id)) \in 1 .. Len(Catalog)
                          /\ Catalog[FirstPlace(Places(Catalog, id))] = id
  BY <1>2, <1>4, PlacesAreOf
<1>7. \A id \in InChain : /\ registry[id].priority = LastPlace(Places(chain, id)) - 1
                          /\ registry[id].born = FirstPlace(Places(chain, id))
                          /\ registry[id] \in [priority : Nat, born : Nat]
                          /\ registry[id].born \in 1 .. Len(chain)
  BY <1>2, <1>3, <1>5
<1>8. \A id \in InCatalog \ InChain : /\ registry[id].priority = 99 + FirstPlace(Places(Catalog, id))
                                    /\ registry[id].born = Len(chain) + FirstPlace(Places(Catalog, id))
                                    /\ registry[id] \in [priority : Nat, born : Nat]
                                    /\ registry[id].priority >= 100
                                    /\ registry[id].born - Len(chain) \in 1 .. Len(Catalog)
  BY <1>2, <1>3, <1>6
<1>9. Len(Catalog) <= Cardinality(DOMAIN registry) /\ Cardinality(DOMAIN registry) \in Nat
  <2>1. IsFiniteSet(DOMAIN registry)
    BY <1>3, <1>4, PlanningAssumption, FS_Subset
  <2>2. \A i \in 1 .. Len(Catalog) : Catalog[i] \in DOMAIN registry
    BY <1>2, <1>3 DEF InCatalog
  <2>3. Catalog \in [1 .. Len(Catalog) -> DOMAIN registry]
    BY <1>2, <2>2
  <2>4. Catalog \in Injection(1 .. Len(Catalog), DOMAIN registry)
    BY <1>2, <2>3, PlanningAssumption DEF Injection, IsInjective
  <2>5. Cardinality(1 .. Len(Catalog)) <= Cardinality(DOMAIN registry)
    BY <2>1, <2>4, FS_Injection
  <2>6. Cardinality(1 .. Len(Catalog)) = Len(Catalog)
    <3>1. \A m \in Nat : Cardinality(1 .. m) = IF 1 > m THEN 0 ELSE m - 1 + 1
      BY FS_Interval
    <3> QED BY <1>2, <3>1
  <2> QED BY <2>1, <2>5, <2>6, FS_CardinalityType
<1>10. \A id \in DOMAIN registry :
         /\ registry[id] \in [priority : Nat, born : Nat]
         /\ registry[id].born <= Len(chain) + Cardinality(DOMAIN registry)
         /\ IF Places(chain, id) # {} THEN registry[id].priority = LastPlace(Places(chain, id)) - 1
                                      ELSE registry[id].priority = 0 \/ registry[id].priority >= 100
  <2> SUFFICES ASSUME NEW id \in DOMAIN registry
               PROVE  /\ registry[id] \in [priority : Nat, born : Nat]
                      /\ registry[id].born <= Len(chain) + Cardinality(DOMAIN registry)
                      /\ IF Places(chain, id) # {} THEN registry[id].priority = LastPlace(Places(chain, id)) - 1
                                                   ELSE registry[id].priority = 0 \/ registry[id].priority >= 100
    OBVIOUS
  <2>1. CASE id \in InChain
    BY <1>2, <1>4, <1>7, <1>9, <2>1
  <2>2. CASE id \notin InChain
    <3>1. id \in InCatalog \ InChain
      BY <1>3, <2>2
    <3> QED BY <1>2, <1>4, <1>8, <1>9, <2>2, <3>1
  <2> QED BY <2>1, <2>2
<1>11. \A a, b \in DOMAIN registry : registry[a].born = registry[b].born => a = b
  <2> SUFFICES ASSUME NEW a \in DOMAIN registry, NEW b \in DOMAIN registry, registry[a].born = registry[b].born
               PROVE  a = b
    OBVIOUS
  <2>1. CASE a \in InChain /\ b \in InChain
    BY <1>5, <1>7, <2>1
  <2>2. CASE a \in InCatalog \ InChain /\ b \in InCatalog \ InChain
    <3>1. FirstPlace(Places(Catalog, a)) = FirstPlace(Places(Catalog, b))
      BY <1>2, <1>6, <1>8, <2>2
    <3> QED BY <1>6, <2>2, <3>1
  <2>3. CASE ~(a \in InChain <=> b \in InChain)
    BY <1>2, <1>3, <1>7, <1>8, <2>3
  <2> QED BY <1>3, <2>1, <2>2, <2>3
<1> QED BY <1>1, <1>3, <1>4, <1>10, <1>11 DEF Registered

LEMMA RegisteredEnsure ==
  ASSUME Registered, NEW id \in ModelIds, EnsureModel(id)
  PROVE  Registered'
<1> DEFINE D == DOMAIN registry
           n == Cardinality(D)
<1>1. IsFiniteSet(D) /\ n \in Nat /\ id \notin D /\ D \subseteq ModelIds
  BY PlanningAssumption, FS_Subset, FS_CardinalityType DEF Registered, EnsureModel
<1>2. chain' = chain /\ chain \in Seq(ModelIds) /\ Len(chain) \in 1 .. ChainLength /\ Len(chain) \in Nat
  BY PlanningAssumption DEF Registered, EnsureModel
<1>3. /\ DOMAIN registry' = D \cup {id}
      /\ registry' = [m \in DOMAIN registry' |-> registry'[m]]
      /\ registry'[id] = [priority |-> 0, born |-> n + Len(chain) + 1]
      /\ \A m \in D : registry'[m] = registry[m]
  BY <1>1 DEF EnsureModel
<1>4. Cardinality(DOMAIN registry') = n + 1
  BY <1>1, <1>3, FS_AddElement
<1>5. \A m \in D : /\ registry[m] \in [priority : Nat, born : Nat]
                   /\ registry[m].born <= Len(chain) + n /\ registry[m].born \in Nat
                   /\ IF Places(chain, m) # {} THEN registry[m].priority = LastPlace(Places(chain, m)) - 1
                                               ELSE registry[m].priority = 0 \/ registry[m].priority >= 100
  BY DEF Registered
<1>6. /\ registry'[id] \in [priority : Nat, born : Nat] /\ registry'[id].priority = 0
      /\ registry'[id].born = n + Len(chain) + 1
  BY <1>1, <1>2, <1>3
<1>7. \A i \in DOMAIN chain : chain[i] \in D
  BY DEF Registered
<1>8. Places(chain, id) = {}
  BY <1>1, <1>7 DEF Places
<1> HIDE DEF D, n
<1>9. \A a, b \in D : registry[a].born = registry[b].born => a = b
  BY DEF Registered, D
<1>10. registry' \in [DOMAIN registry' -> [priority : Nat, born : Nat]]
  <2>1. \A m \in DOMAIN registry' : registry'[m] \in [priority : Nat, born : Nat]
    BY <1>3, <1>5, <1>6
  <2> QED BY <1>3, <2>1
<1>11. \A m \in DOMAIN registry' :
         /\ registry'[m].born <= Len(chain) + Cardinality(DOMAIN registry')
         /\ IF Places(chain, m) # {} THEN registry'[m].priority = LastPlace(Places(chain, m)) - 1
                                     ELSE registry'[m].priority = 0 \/ registry'[m].priority >= 100
  <2> SUFFICES ASSUME NEW m \in DOMAIN registry'
               PROVE  /\ registry'[m].born <= Len(chain) + Cardinality(DOMAIN registry')
                      /\ IF Places(chain, m) # {} THEN registry'[m].priority = LastPlace(Places(chain, m)) - 1
                                                  ELSE registry'[m].priority = 0 \/ registry'[m].priority >= 100
    OBVIOUS
  <2>1. CASE m = id
    BY <1>1, <1>2, <1>4, <1>6, <1>8, <2>1
  <2>2. CASE m \in D
    BY <1>1, <1>2, <1>3, <1>4, <1>5, <2>2
  <2> QED BY <1>3, <2>1, <2>2
<1>12. \A a, b \in DOMAIN registry' : registry'[a].born = registry'[b].born => a = b
  BY <1>1, <1>2, <1>3, <1>5, <1>6, <1>9
<1>13. DOMAIN registry' \subseteq ModelIds /\ \A i \in DOMAIN chain : chain[i] \in DOMAIN registry'
  BY <1>1, <1>3, <1>7
<1>14. \A m : Places(chain, m)' = Places(chain, m) /\ LastPlace(Places(chain, m))' = LastPlace(Places(chain, m))
  BY <1>2 DEF Places, LastPlace
<1> QED BY <1>2, <1>10, <1>11, <1>12, <1>13, <1>14 DEF Registered

\* The registry and the plan: nothing is asked, or the request was refused, or planned.
Requested == asked.policy # "none" /\ asked.model \in ModelIds \cup {"none"}
PlanInv ==
  /\ Registered
  /\ \/ asked = NobodyAsks /\ planned = <<>>
     \/ Requested /\ Refused
     \/ Requested /\ PlanMade

\* A chain model has only earlier links of the chain before it, and models an agent brought.
LEMMA ChainComesFirst ==
  ASSUME Registered, NEW a \in DOMAIN registry, NEW b \in DOMAIN registry,
         RanksBefore("priority", a, b), Places(chain, b) # {}
  PROVE  /\ Places(chain, a) # {} \/ registry[a].priority = 0
         /\ Places(chain, a) # {} => LastPlace(Places(chain, a)) < LastPlace(Places(chain, b))
<1> DEFINE La == LastPlace(Places(chain, a))
           Lb == LastPlace(Places(chain, b))
<1>1. /\ registry[a].priority \in Nat /\ registry[b].priority \in Nat
      /\ registry[a].priority <= registry[b].priority
  BY EarlierHasPriority
<1>2. a # b
  <2>1. ~Lex(KeyOf("priority", a), KeyOf("priority", a))
    BY KeysOf DEF Lex
  <2> QED BY <2>1, RanksAreLex
<1>3. chain \in Seq(ModelIds) /\ Len(chain) \in Nat /\ Len(chain) <= 100
  <2>1. Len(chain) \in 1 .. ChainLength /\ ChainLength \in Nat /\ ChainLength <= 100
    BY PlanningAssumption DEF Registered
  <2> QED BY <2>1 DEF Registered
<1>4. Lb \in 1 .. Len(chain) /\ chain[Lb] = b /\ registry[b].priority = Lb - 1
  BY <1>3, PlacesAreOf DEF Registered
<1>5. Places(chain, a) # {} => La \in 1 .. Len(chain) /\ chain[La] = a /\ registry[a].priority = La - 1
  BY <1>3, PlacesAreOf DEF Registered
<1>6. Places(chain, a) = {} => registry[a].priority = 0 \/ registry[a].priority >= 100
  BY DEF Registered
<1> HIDE DEF La, Lb
<1>7. registry[b].priority < 100
  BY <1>3, <1>4
<1>8. Places(chain, a) # {} \/ registry[a].priority = 0
  BY <1>1, <1>6, <1>7
<1>9. Places(chain, a) # {} => La < Lb
  BY <1>1, <1>2, <1>3, <1>4, <1>5
<1> QED BY <1>8, <1>9 DEF La, Lb

LEMMA RegisteredStays ==
  ASSUME Registered, UNCHANGED <<chain, registry>>
  PROVE  Registered'
<1>1. chain' = chain /\ registry' = registry
  OBVIOUS
<1>2. \A id : Places(chain, id)' = Places(chain, id) /\ LastPlace(Places(chain, id))' = LastPlace(Places(chain, id))
  BY <1>1 DEF Places, LastPlace
<1> QED BY <1>1, <1>2 DEF Registered

LEMMA PlansKeepPromises == PlanInv => PlansAreRight
<1> SUFFICES ASSUME PlanInv  PROVE PlansAreRight
  OBVIOUS
<1>1. CASE asked = NobodyAsks /\ planned = <<>>
  <2>1. asked.policy = "none"
    BY <1>1 DEF NobodyAsks
  <2> QED BY <1>1, <2>1 DEF PlansAreRight, PlanKeepsPromises, ChainIsKept
<1>2. CASE Requested /\ Refused
  <2>1. Rest = <<>> /\ asked.out = ModelIds
    BY <1>2 DEF Refused, Rest
  <2>2. DOMAIN Rest = {}
    BY <2>1
  <2> QED BY <2>1, <2>2 DEF PlansAreRight, PlanKeepsPromises, ChainIsKept
<1>3. CASE Requested /\ PlanMade
  <2> DEFINE S == Matching(asked) \ asked.out
  <2>1. /\ Registered /\ S \in SUBSET DOMAIN registry /\ S \in SUBSET ModelIds
        /\ \A m \in S : SatisfiesHard(m, asked)
    BY DEF PlanInv, Matching, Registered
  <2>2. /\ planned \in Seq(S) /\ Len(planned) = Cardinality(S) /\ Holds(planned) = S
        /\ asked.model \in S => planned[1] = asked.model
        /\ Rest \in Seq(S)
        /\ \A i, j \in DOMAIN Rest : i < j => RanksBefore(asked.policy, Rest[i], Rest[j])
    BY <1>3, <2>1, PlansAreRanked DEF Requested
  <2>3. (\A i \in DOMAIN planned : planned[i] \in S) /\ (\A i \in DOMAIN Rest : Rest[i] \in S)
    BY <2>2, ElementOfSeq
  <2>4. asked.free \/ asked.policy = "free_only" => \A i \in DOMAIN planned : PriceOf(planned[i]) = 0
    BY <2>1, <2>3, PricesAreKnown DEF SatisfiesHard
  <2> HIDE DEF S
  <2>5. ASSUME asked.policy = "cost", NEW i \in DOMAIN Rest, NEW j \in DOMAIN Rest,
               i < j, PriceOf(Rest[j]) # NoPrice
        PROVE  PriceOf(Rest[i]) \in 0 .. PriceOf(Rest[j])
    BY <2>1, <2>2, <2>3, <2>5, EarlierIsCheaper
  <2>6. PlanKeepsPromises
    BY <2>2, <2>4, <2>5 DEF PlanKeepsPromises, Holds, S
  <2>7. ASSUME asked.policy = "priority", NEW i \in DOMAIN Rest, NEW j \in DOMAIN Rest,
               i < j, Places(chain, Rest[j]) # {}
        PROVE  /\ Places(chain, Rest[i]) # {} \/ registry[Rest[i]].priority = 0
               /\ Places(chain, Rest[i]) # {} =>
                    LastPlace(Places(chain, Rest[i])) < LastPlace(Places(chain, Rest[j]))
    <3>1. Rest[i] \in DOMAIN registry /\ Rest[j] \in DOMAIN registry /\ RanksBefore("priority", Rest[i], Rest[j])
      BY <2>1, <2>2, <2>3, <2>7
    <3> QED BY <2>1, <2>7, <3>1, ChainComesFirst
  <2>8. ChainIsKept
    BY <2>7 DEF ChainIsKept
  <2> QED BY <2>6, <2>8 DEF PlansAreRight
<1> QED BY <1>1, <1>2, <1>3 DEF PlanInv

LEMMA PlanInvNext ==
  ASSUME PlanInv, [PlanningNext]_planningVars
  PROVE  PlanInv'
<1>1. CASE UNCHANGED planningVars
  <2>1. Registered'
    <3>1. Registered /\ chain' = chain /\ registry' = registry
      BY <1>1 DEF planningVars, PlanInv
    <3> QED BY <3>1, RegisteredStays
  <2>2. asked' = asked /\ planned' = planned /\ registry' = registry
    BY <1>1 DEF planningVars
  <2>3. PlanMade => PlanMade'
    <3> SUFFICES ASSUME NEW s, MadeFrom(s, Matching(asked) \ asked.out)
                 PROVE  MadeFrom(s, Matching(asked) \ asked.out)'
      BY DEF PlanMade
    <3>1. Matching(asked)' = Matching(asked)
      BY <2>2 DEF Matching
    <3>2. Sorted(s, asked.policy)' <=> Sorted(s, asked.policy)
      BY <2>2 DEF Sorted, RanksBefore
    <3> QED BY <2>2, <3>1, <3>2 DEF MadeFrom
  <2> QED BY <2>1, <2>2, <2>3 DEF PlanInv, Requested, Refused
<1>2. ASSUME NEW id \in ModelIds, EnsureModel(id), asked = NobodyAsks
      PROVE  PlanInv'
  <2>1. Registered'
    BY <1>2, RegisteredEnsure DEF PlanInv
  <2>2. asked' = NobodyAsks /\ planned' = <<>>
    BY <1>2 DEF EnsureModel, PlanInv, Requested, NobodyAsks
  <2> QED BY <2>1, <2>2 DEF PlanInv
<1>3. ASSUME NEW r \in PlanningRequests, RefuseRequest(r)  PROVE PlanInv'
  <2>1. Registered'
    BY <1>3, RegisteredStays DEF RefuseRequest, PlanInv
  <2>2. Requested' /\ Refused'
    BY <1>3 DEF RefuseRequest, PlanningRequests, Requested, Refused
  <2> QED BY <2>1, <2>2 DEF PlanInv
<1>4. ASSUME NEW r \in PlanningRequests, PlanRequest(r)  PROVE PlanInv'
  <2>1. Registered'
    BY <1>4, RegisteredStays DEF PlanRequest, PlanInv
  <2>2. Requested'
    BY <1>4 DEF PlanRequest, PlanningRequests, Requested
  <2>3. PlanMade'
    <3>1. PICK S, s : S = Matching(r) \ r.out /\ s = Rank(S, r.policy)
      OBVIOUS
    <3>2. asked' = r /\ registry' = registry
          /\ planned' = IF r.model # "none" /\ r.model \notin r.out THEN PutFirst(s, r.model) ELSE s
      BY <1>4, <3>1 DEF PlanRequest
    <3>3. r.model # "none" /\ r.model \notin r.out <=> r.model \in S
      <4>1. "none" \notin S
        BY <3>1, PlanningAssumption DEF PlanInv, Registered, Matching
      <4>2. r.model # "none" => r.model \in Matching(r)
        BY <1>4 DEF PlanRequest, Matching
      <4> QED BY <3>1, <4>1, <4>2
    <3>4. S \in SUBSET DOMAIN registry /\ Registered
      BY <3>1 DEF Matching, PlanInv
    <3>5. s \in Seq(S) /\ Len(s) = Cardinality(S) /\ Lists(s, S) /\ Sorted(s, r.policy)
      BY <3>1, <3>4, RankSorts DEF Sorted
    <3>6. Sorted(s, r.policy)'
      <4>1. \A x, y : RanksBefore(r.policy, x, y)' <=> RanksBefore(r.policy, x, y)
        BY <3>2 DEF RanksBefore
      <4> QED BY <3>5, <4>1 DEF Sorted
    <3>7. (Matching(asked) \ asked.out)' = S
      BY <3>1, <3>2 DEF Matching
    <3>8. MadeFrom(s, S)'
      BY <3>2, <3>3, <3>5, <3>6 DEF MadeFrom
    <3> QED BY <3>7, <3>8 DEF PlanMade
  <2> QED BY <2>1, <2>2, <2>3 DEF PlanInv
<1> QED BY <1>1, <1>2, <1>3, <1>4 DEF PlanningNext

\* gateway/routing.py: plan names each eligible model once, the one that was asked for first,
\* spends nothing under free_only, tries no model before a cheaper one under "cost", and
\* keeps the configured chain, in front of the catalog, under "priority".
THEOREM PlansAreKept == PlanningSpec => []PlansAreRight
<1>1. PlanningInit => PlanInv
  BY RegisteredInit DEF PlanningInit, PlanInv
<1>2. PlanInv /\ [PlanningNext]_planningVars => PlanInv'
  BY PlanInvNext
<1> QED BY <1>1, <1>2, PlansKeepPromises, PTL DEF PlanningSpec

-----------------------------------------------------------------------------
(* ReplyText: the recursions *)

\* What holds at zero and goes on holding holds all the way.
LEMMA Climbs ==
  ASSUME NEW n \in Nat, NEW T, 0 \in T, \A i \in 1..n : i - 1 \in T => i \in T
  PROVE  \A i \in 0..n : i \in T
<1> DEFINE Bad == {i \in 0..n : i \notin T}
<1> SUFFICES ASSUME NEW x \in Bad  PROVE FALSE
  OBVIOUS
<1>1. Bad \in SUBSET Nat
  OBVIOUS
<1>2. PICK i \in Bad : \A m \in Bad : i <= m
  BY <1>1, LeastIsThere
<1>3. i \in 1..n /\ i - 1 \in 0..n /\ i - 1 \notin Bad
  BY <1>2
<1> QED BY <1>2, <1>3

\* The values of a recursion, of one rule for each number.
Unrolls(f, n, base, rule) ==
  f = [i \in 0..n |-> IF i = 0 THEN base ELSE rule[i][f[i - 1]]]

LEMMA UnrollExists ==
  ASSUME NEW n \in Nat, NEW S, NEW base \in S, NEW rule \in [1..n -> [S -> S]]
  PROVE  \E f \in [0..n -> S] : Unrolls(f, n, base, rule)
<1> DEFINE Obeys(f, k) == f[0] = base /\ \A i \in 1..k : f[i] = rule[i][f[i - 1]]
           T == {k \in 0..n : \E f \in [0..k -> S] : Obeys(f, k)}
<1>1. 0 \in T
  <2> DEFINE f == [i \in 0..0 |-> base]
  <2>1. f \in [0..0 -> S] /\ Obeys(f, 0)
    OBVIOUS
  <2> HIDE DEF f, Obeys
  <2> QED BY <2>1
<1>2. ASSUME NEW k \in 1..n, k - 1 \in T  PROVE k \in T
  <2>1. PICK f \in [0..(k - 1) -> S] : Obeys(f, k - 1)
    BY <1>2
  <2> DEFINE g == [i \in 0..k |-> IF i = k THEN rule[k][f[k - 1]] ELSE f[i]]
  <2>2. f[k - 1] \in S /\ rule[k][f[k - 1]] \in S
    BY <2>1
  <2>3. g \in [0..k -> S]
    BY <2>2
  <2>4. g[0] = base
    BY <2>1
  <2>5. ASSUME NEW i \in 1..k  PROVE g[i] = rule[i][g[i - 1]]
    <3>1. g[i - 1] = f[i - 1]
      OBVIOUS
    <3>2. CASE i = k
      BY <3>1, <3>2
    <3>3. CASE i # k
      <4>1. i \in 1..(k - 1) /\ g[i] = f[i]
        BY <3>3
      <4> QED BY <2>1, <3>1, <4>1
    <3> QED BY <3>2, <3>3
  <2> HIDE DEF g
  <2>6. Obeys(g, k)
    BY <2>4, <2>5
  <2> HIDE DEF Obeys
  <2> QED BY <2>3, <2>6
<1>3. n \in T
  <2> HIDE DEF T
  <2>1. \A i \in 0..n : i \in T
    BY <1>1, <1>2, Climbs
  <2> QED BY <2>1
<1>4. PICK f \in [0..n -> S] : Obeys(f, n)
  BY <1>3
<1>5. f = [i \in 0..n |-> f[i]]
  OBVIOUS
<1>6. \A i \in 0..n : f[i] = IF i = 0 THEN base ELSE rule[i][f[i - 1]]
  BY <1>4
<1>7. Unrolls(f, n, base, rule)
  BY <1>5, <1>6 DEF Unrolls
<1> QED BY <1>7

JsonPlaces == {"value", "open", "after", "string", "escape", "dead"}
JsonStates == [at : JsonPlaces, depth : Nat]
ReadsOn(t, f) == f = [i \in 0..Len(t) |-> IF i = 0 THEN [at |-> "value", depth |-> 0]
                                          ELSE JsonStep(f[i - 1], t[i])]

LEMMA JsonStepTyped ==
  ASSUME NEW s \in JsonStates, NEW ch
  PROVE  JsonStep(s, ch) \in JsonStates
<1>1. s.at \in JsonPlaces /\ s.depth \in Nat /\ Dead \in JsonStates
  BY DEF JsonStates, JsonPlaces, Dead
<1>2. \A p \in JsonPlaces : [s EXCEPT !.at = p] \in JsonStates
  BY DEF JsonStates
<1>3. [at |-> "open", depth |-> s.depth + 1] \in JsonStates
  BY <1>1 DEF JsonStates, JsonPlaces
<1>4. s.depth > 0 => [at |-> "after", depth |-> s.depth - 1] \in JsonStates
  BY <1>1 DEF JsonStates, JsonPlaces
<1>5. "after" \in JsonPlaces /\ "string" \in JsonPlaces /\ "escape" \in JsonPlaces /\ "value" \in JsonPlaces
  BY DEF JsonPlaces
<1> QED BY <1>1, <1>2, <1>3, <1>4, <1>5 DEF JsonStep

\* The reading of a text takes one JsonStep for each of its characters.
LEMMA ReadingGoesOn ==
  ASSUME NEW t \in Seq(Letters)
  PROVE  /\ Reading(t)[0] = [at |-> "value", depth |-> 0]
         /\ \A i \in 0..Len(t) : Reading(t)[i] \in JsonStates
         /\ \A i \in 1..Len(t) : Reading(t)[i] = JsonStep(Reading(t)[i - 1], t[i])
<1> DEFINE rule == [i \in 1..Len(t) |-> [s \in JsonStates |-> JsonStep(s, t[i])]]
           base == [at |-> "value", depth |-> 0]
           f == CHOOSE g : ReadsOn(t, g)
<1>1. Len(t) \in Nat
  OBVIOUS
<1>2. base \in JsonStates
  BY DEF JsonStates, JsonPlaces
<1>3. rule \in [1..Len(t) -> [JsonStates -> JsonStates]]
  BY JsonStepTyped
<1>4. \A i \in 1..Len(t) : \A s \in JsonStates : rule[i][s] = JsonStep(s, t[i])
  OBVIOUS
<1> HIDE DEF rule
<1>5. \E g \in [0..Len(t) -> JsonStates] : Unrolls(g, Len(t), base, rule)
  BY <1>1, <1>2, <1>3, UnrollExists
<1>6. PICK g \in [0..Len(t) -> JsonStates] : Unrolls(g, Len(t), base, rule)
  BY <1>5
<1>7. ReadsOn(t, g)
  <2>1. \A i \in 0..Len(t) : i # 0 => i \in 1..Len(t) /\ g[i - 1] \in JsonStates
    BY <1>1, <1>6
  <2>2. \A i \in 0..Len(t) : g[i] = IF i = 0 THEN base ELSE rule[i][g[i - 1]]
    BY <1>6 DEF Unrolls
  <2>3. \A i \in 0..Len(t) : g[i] = IF i = 0 THEN base ELSE JsonStep(g[i - 1], t[i])
    BY <1>4, <2>1, <2>2
  <2>4. g = [i \in 0..Len(t) |-> g[i]]
    BY <1>6
  <2> QED BY <2>3, <2>4 DEF ReadsOn
<1>8. ReadsOn(t, f)
  BY <1>7
<1>9. Reading(t) = f
  BY DEF Reading, ReadsOn
<1> HIDE DEF f
<1>10. /\ f[0] = base
      /\ \A i \in 1..Len(t) : f[i] = JsonStep(f[i - 1], t[i])
  BY <1>1, <1>8 DEF ReadsOn
<1> DEFINE T == {i \in 0..Len(t) : f[i] \in JsonStates}
<1>11. 0 \in T
  BY <1>1, <1>2, <1>10
<1>12. ASSUME NEW i \in 1..Len(t), i - 1 \in T  PROVE i \in T
  BY <1>10, <1>12, JsonStepTyped
<1>13. \A i \in 0..Len(t) : i \in T
  <2> HIDE DEF T
  <2> QED BY <1>1, <1>11, <1>12, Climbs
<1> QED BY <1>9, <1>10, <1>13

(* ReplyText: the steps of the scan *)

LEMMA OneLetter ==
  ASSUME NEW S, NEW x \in S
  PROVE  <<x>> \in Seq(S) /\ Len(<<x>>) = 1 /\ <<x>>[1] = x /\ <<x>> \o <<>> = <<x>>
<1>1. <<x>> \o <<>> = <<x>>
  OBVIOUS
<1> QED BY <1>1

LEMMA TwoLetters ==
  ASSUME NEW S, NEW x \in S, NEW y \in S
  PROVE  <<x, y>> \in Seq(S) /\ Len(<<x, y>>) = 2 /\ <<x, y>>[1] = x /\ <<x, y>>[2] = y
OBVIOUS

LEMMA SameText ==
  ASSUME NEW S, NEW u \in Seq(S), NEW v \in Seq(S), Len(u) = Len(v), \A i \in 1..Len(u) : u[i] = v[i]
  PROVE  u = v
OBVIOUS

\* One text and then another, a text of one character, and a text with one more.
Join(u, v) == u \o v
One(x) == <<x>>
Put(u, x) == Join(u, One(x))

LEMMA OneIs ==
  ASSUME NEW S, NEW x \in S
  PROVE  One(x) \in Seq(S) /\ Len(One(x)) = 1 /\ One(x)[1] = x /\ Join(One(x), <<>>) = One(x)
BY OneLetter DEF One, Join

LEMMA JoinIs ==
  ASSUME NEW S, NEW u \in Seq(S), NEW v \in Seq(S)
  PROVE  Join(u, v) \in Seq(S) /\ Len(Join(u, v)) = Len(u) + Len(v)
BY ConcatProperties DEF Join

LEMMA JoinAt ==
  ASSUME NEW S, NEW u \in Seq(S), NEW v \in Seq(S), NEW i \in 1..Len(u) + Len(v)
  PROVE  Join(u, v)[i] = IF i <= Len(u) THEN u[i] ELSE v[i - Len(u)]
BY ConcatProperties DEF Join

LEMMA JoinOn ==
  ASSUME NEW S, NEW u \in Seq(S), NEW v \in Seq(S), NEW w \in Seq(S)
  PROVE  Join(Join(u, v), w) = Join(u, Join(v, w))
<1>1. (u \o v) \o w = u \o (v \o w)
  BY ConcatAssociative
<1> QED BY <1>1, Zenon DEF Join

LEMMA TwoPieces ==
  ASSUME NEW S, NEW x \in S, NEW y \in S
  PROVE  Join(One(x), One(y)) = <<x, y>>
<1> DEFINE w == <<x, y>>  j == Join(One(x), One(y))
<1>1. w \in Seq(S) /\ Len(w) = 2 /\ w[1] = x /\ w[2] = y
  BY TwoLetters
<1>2. One(x) \in Seq(S) /\ One(y) \in Seq(S) /\ Len(One(x)) = 1 /\ Len(One(y)) = 1
  BY OneIs
<1>3. One(x)[1] = x /\ One(y)[1] = y
  BY OneIs
<1>4. j \in Seq(S) /\ Len(j) = 2 /\ j[1] = x /\ j[2] = y
  <2>1. j \in Seq(S) /\ Len(j) = Len(One(x)) + Len(One(y))
    <3>1. One(x) \in Seq(S) /\ One(y) \in Seq(S)
      BY <1>2
    <3> QED BY <3>1, JoinIs
  <2>2. 1 \in 1..Len(One(x)) + Len(One(y)) /\ 2 \in 1..Len(One(x)) + Len(One(y))
    BY <1>2
  <2>3. j[1] = IF 1 <= Len(One(x)) THEN One(x)[1] ELSE One(y)[1 - Len(One(x))]
    BY <1>2, <2>2, JoinAt
  <2>4. j[2] = IF 2 <= Len(One(x)) THEN One(x)[2] ELSE One(y)[2 - Len(One(x))]
    BY <1>2, <2>2, JoinAt
  <2> HIDE DEF j
  <2> QED BY <1>2, <1>3, <2>1, <2>3, <2>4
<1> HIDE DEF w, j
<1>5. \A i \in 1..2 : j[i] = w[i]
  BY <1>1, <1>4
<1>6. j = w
  BY <1>1, <1>4, <1>5, SameText
<1> QED BY <1>6 DEF w, j

LEMMA PutIs ==
  ASSUME NEW S, NEW u \in Seq(S), NEW x \in S
  PROVE  /\ Put(u, x) \in Seq(S) /\ Len(Put(u, x)) = Len(u) + 1
         /\ Put(u, x)[Len(u) + 1] = x /\ \A j \in 1..Len(u) : Put(u, x)[j] = u[j]
<1>1. One(x) \in Seq(S) /\ Len(One(x)) = 1 /\ One(x)[1] = x
  BY OneIs
<1>2. Put(u, x) \in Seq(S) /\ Len(Put(u, x)) = Len(u) + 1
  BY <1>1, JoinIs DEF Put
<1>3. ASSUME NEW i \in 1..Len(u) + 1
      PROVE  Put(u, x)[i] = IF i <= Len(u) THEN u[i] ELSE One(x)[i - Len(u)]
  BY <1>1, JoinAt DEF Put
<1>4. Len(u) \in Nat
  OBVIOUS
<1>5. Put(u, x)[Len(u) + 1] = x
  BY <1>1, <1>3, <1>4
<1>6. \A j \in 1..Len(u) : Put(u, x)[j] = u[j]
  BY <1>3, <1>4
<1> QED BY <1>2, <1>5, <1>6

LEMMA PutTwo ==
  ASSUME NEW S, NEW u \in Seq(S), NEW x \in S, NEW v \in Seq(S)
  PROVE  Join(u, Join(One(x), v)) = Join(Put(u, x), v)
<1>1. One(x) \in Seq(S)
  BY OneIs
<1> QED BY <1>1, JoinOn DEF Put

ScanStates == [at : {"out", "in", "pair"}, out : Seq(Letters)]
ScanState(place, text) == [at |-> place, out |-> text]

\* What a step of the scan does, case by case and character by character.
ScanPuts(t, a, i, b) ==
  \/ a.at = "out" /\ t[i] = "quote" /\ b = ScanState("in", Put(a.out, "quote"))
  \/ a.at = "out" /\ t[i] # "quote" /\ b = ScanState("out", Put(a.out, t[i]))
  \/ a.at = "pair" /\ b = ScanState("in", Put(a.out, t[i]))
  \/ /\ a.at = "in" /\ t[i] = "quote" /\ Closes(t, i) /\ ~LacksComma(t, i + 1)
     /\ b = ScanState("out", Put(a.out, "quote"))
  \/ /\ a.at = "in" /\ t[i] = "quote" /\ Closes(t, i) /\ LacksComma(t, i + 1)
     /\ b = ScanState("out", Put(Put(a.out, "quote"), "comma"))
  \/ /\ a.at = "in" /\ t[i] = "quote" /\ ~Closes(t, i)
     /\ b = ScanState("in", Put(Put(a.out, "backslash"), "quote"))
  \/ /\ a.at = "in" /\ t[i] = "newline" /\ ~LacksComma(t, i)
     /\ b = ScanState("out", Put(Put(a.out, "quote"), "newline"))
  \/ /\ a.at = "in" /\ t[i] = "newline" /\ LacksComma(t, i)
     /\ b = ScanState("out", Put(Put(Put(a.out, "quote"), "comma"), "newline"))
  \/ a.at = "in" /\ t[i] = "backslash" /\ b = ScanState("pair", Put(a.out, "backslash"))
  \/ a.at = "in" /\ t[i] \notin {"quote", "newline", "backslash"} /\ b = ScanState("in", Put(a.out, t[i]))

LEMMA LettersAre ==
  "quote" \in Letters /\ "backslash" \in Letters /\ "newline" \in Letters /\ "comma" \in Letters
BY DEF Letters, White

LEMMA ScanStepPuts ==
  ASSUME NEW t \in Seq(Letters), NEW i \in 1..Len(t), NEW a \in ScanStates
  PROVE  ScanPuts(t, a, i, ScanStep(t, a, i))
<1> DEFINE b == ScanStep(t, a, i)
<1>1. a.at \in {"out", "in", "pair"} /\ a.out \in Seq(Letters)
  BY DEF ScanStates
<1>2. CASE a.at \in {"out", "pair"}
  BY <1>2 DEF ScanStep, ScanPuts, ScanState, Put, One, Join
<1>3. PICK q \in Letters, c \in Letters, n \in Letters, e \in Letters :
        q = "quote" /\ c = "comma" /\ n = "newline" /\ e = "backslash"
  BY LettersAre
<1>4. CASE a.at = "in" /\ t[i] = q /\ Closes(t, i)
  <2>1. b = ScanState("out", Join(a.out, Join(One(q), Comma(t, i + 1))))
    BY <1>3, <1>4 DEF ScanStep, ScanState, One, Join
  <2>2. CASE LacksComma(t, i + 1)
    <3>1. Comma(t, i + 1) = One(c)
      BY <1>3, <2>2 DEF Comma, One
    <3>2. Join(a.out, Join(One(q), One(c))) = Put(Put(a.out, q), c)
      <4>1. One(c) \in Seq(Letters)
        BY OneIs
      <4>2. Join(a.out, Join(One(q), One(c))) = Join(Put(a.out, q), One(c))
        BY <1>1, <4>1, PutTwo
      <4> QED BY <4>2 DEF Put
    <3> QED BY <1>3, <1>4, <2>1, <2>2, <3>1, <3>2 DEF ScanPuts
  <2>3. CASE ~LacksComma(t, i + 1)
    <3>1. Comma(t, i + 1) = <<>> /\ Join(One(q), <<>>) = One(q)
      BY <2>3, OneIs DEF Comma
    <3> QED BY <1>3, <1>4, <2>1, <2>3, <3>1 DEF ScanPuts, Put
  <2> QED BY <2>2, <2>3
<1>5. CASE a.at = "in" /\ t[i] = q /\ ~Closes(t, i)
  <2>1. b = ScanState("in", Join(a.out, <<e, q>>))
    BY <1>3, <1>5 DEF ScanStep, ScanState, Join
  <2>2. <<e, q>> = Join(One(e), One(q)) /\ One(q) \in Seq(Letters)
    BY TwoPieces, OneIs
  <2>3. Join(a.out, Join(One(e), One(q))) = Join(Put(a.out, e), One(q))
    BY <1>1, <2>2, PutTwo
  <2>4. b = ScanState("in", Put(Put(a.out, e), q))
    BY <2>1, <2>2, <2>3 DEF Put
  <2> QED BY <1>3, <1>5, <2>4 DEF ScanPuts
<1>6. CASE a.at = "in" /\ t[i] = n
  <2>1. One(q) \in Seq(Letters) /\ One(c) \in Seq(Letters) /\ One(n) \in Seq(Letters)
    BY OneIs
  <2>2. b = ScanState("out", Join(a.out, Join(Join(One(q), Comma(t, i)), One(n))))
    BY <1>3, <1>6 DEF ScanStep, ScanState, One, Join
  <2>3. CASE LacksComma(t, i)
    <3>1. Comma(t, i) = One(c)
      BY <1>3, <2>3 DEF Comma, One
    <3>2. Join(Join(One(q), One(c)), One(n)) = Join(One(q), Join(One(c), One(n)))
      BY <2>1, JoinOn
    <3>3. Join(One(c), One(n)) \in Seq(Letters) /\ Put(a.out, q) \in Seq(Letters)
      BY <1>1, <2>1, JoinIs, PutIs
    <3>4. Join(a.out, Join(One(q), Join(One(c), One(n)))) = Join(Put(a.out, q), Join(One(c), One(n)))
      BY <1>1, <3>3, PutTwo
    <3>5. Join(Put(a.out, q), Join(One(c), One(n))) = Join(Put(Put(a.out, q), c), One(n))
      BY <2>1, <3>3, PutTwo
    <3>6. b = ScanState("out", Put(Put(Put(a.out, q), c), n))
      BY <2>2, <3>1, <3>2, <3>4, <3>5 DEF Put
    <3> QED BY <1>3, <1>6, <2>3, <3>6 DEF ScanPuts
  <2>4. CASE ~LacksComma(t, i)
    <3>1. Comma(t, i) = <<>> /\ Join(One(q), <<>>) = One(q)
      BY <2>4, OneIs DEF Comma
    <3>2. Join(a.out, Join(One(q), One(n))) = Join(Put(a.out, q), One(n))
      BY <1>1, <2>1, PutTwo
    <3>3. b = ScanState("out", Put(Put(a.out, q), n))
      BY <2>2, <3>1, <3>2 DEF Put
    <3> QED BY <1>3, <1>6, <2>4, <3>3 DEF ScanPuts
  <2> QED BY <2>3, <2>4
<1>7. CASE a.at = "in" /\ t[i] \notin {"quote", "newline"}
  BY <1>7 DEF ScanStep, ScanPuts, ScanState, Put, One, Join, AfterKept
<1> QED BY <1>1, <1>2, <1>3, <1>4, <1>5, <1>6, <1>7

LEMMA ScanStepTyped ==
  ASSUME NEW t \in Seq(Letters), NEW i \in 1..Len(t), NEW a \in ScanStates
  PROVE  ScanStep(t, a, i) \in ScanStates
<1>1. a.out \in Seq(Letters) /\ t[i] \in Letters
  BY DEF ScanStates
<1>2. \A u \in Seq(Letters) : \A x \in Letters : Put(u, x) \in Seq(Letters)
  BY PutIs
<1>3. \A u \in Seq(Letters) : \A p \in {"out", "in", "pair"} : ScanState(p, u) \in ScanStates
  BY DEF ScanState, ScanStates
<1> DEFINE b == ScanStep(t, a, i)
<1>4. ScanPuts(t, a, i, b)
  BY ScanStepPuts
<1> HIDE DEF b
<1>5. \E p \in {"out", "in", "pair"} : \E u \in Seq(Letters) : b = ScanState(p, u)
  <2>1. \A x \in Letters : Put(a.out, x) \in Seq(Letters)
    BY <1>1, <1>2
  <2>2. \A x, y \in Letters : Put(Put(a.out, x), y) \in Seq(Letters)
    BY <1>2, <2>1
  <2>3. \A x, y, z \in Letters : Put(Put(Put(a.out, x), y), z) \in Seq(Letters)
    BY <1>2, <2>2
  <2> QED BY <1>1, <1>4, <2>1, <2>2, <2>3, LettersAre DEF ScanPuts
<1> QED BY <1>3, <1>5 DEF b

Scans(t, f) == f = [i \in 0..Len(t) |-> IF i = 0 THEN [at |-> "out", out |-> <<>>]
                                       ELSE ScanStep(t, f[i - 1], i)]

\* The scan of a text takes one ScanStep for each of its characters.
LEMMA ScanningGoesOn ==
  ASSUME NEW t \in Seq(Letters)
  PROVE  /\ Scanning(t)[0] = [at |-> "out", out |-> <<>>]
         /\ \A i \in 0..Len(t) : Scanning(t)[i] \in ScanStates
         /\ \A i \in 1..Len(t) : Scanning(t)[i] = ScanStep(t, Scanning(t)[i - 1], i)
<1> DEFINE rule == [i \in 1..Len(t) |-> [s \in ScanStates |-> ScanStep(t, s, i)]]
           base == [at |-> "out", out |-> <<>>]
           f == CHOOSE g : Scans(t, g)
<1>1. Len(t) \in Nat
  OBVIOUS
<1>2. base \in ScanStates
  BY DEF ScanStates
<1>3. rule \in [1..Len(t) -> [ScanStates -> ScanStates]]
  BY ScanStepTyped
<1>4. \A i \in 1..Len(t) : \A s \in ScanStates : rule[i][s] = ScanStep(t, s, i)
  OBVIOUS
<1> HIDE DEF rule
<1>5. PICK g \in [0..Len(t) -> ScanStates] : Unrolls(g, Len(t), base, rule)
  BY <1>1, <1>2, <1>3, UnrollExists
<1>6. Scans(t, g)
  <2>1. \A i \in 0..Len(t) : i # 0 => i \in 1..Len(t) /\ g[i - 1] \in ScanStates
    BY <1>1, <1>5
  <2>2. \A i \in 0..Len(t) : g[i] = IF i = 0 THEN base ELSE rule[i][g[i - 1]]
    BY <1>5 DEF Unrolls
  <2>3. \A i \in 0..Len(t) : g[i] = IF i = 0 THEN base ELSE ScanStep(t, g[i - 1], i)
    BY <1>4, <2>1, <2>2
  <2>4. g = [i \in 0..Len(t) |-> g[i]]
    BY <1>5
  <2> QED BY <2>3, <2>4 DEF Scans
<1>7. Scans(t, f)
  BY <1>6
<1>8. Scanning(t) = f
  BY DEF Scanning, Scans
<1> HIDE DEF f
<1>9. /\ f[0] = base
      /\ \A i \in 1..Len(t) : f[i] = ScanStep(t, f[i - 1], i)
  BY <1>1, <1>7 DEF Scans
<1> DEFINE T == {i \in 0..Len(t) : f[i] \in ScanStates}
<1>10. 0 \in T
  BY <1>1, <1>2, <1>9
<1>11. ASSUME NEW i \in 1..Len(t), i - 1 \in T  PROVE i \in T
  BY <1>9, <1>11, ScanStepTyped
<1>12. \A i \in 0..Len(t) : i \in T
  <2> HIDE DEF T
  <2> QED BY <1>1, <1>10, <1>11, Climbs
<1> QED BY <1>8, <1>9, <1>12

(* ReplyText: JSON that loads is its own repair *)

\* Where the scan is when json.loads is somewhere.
ScanPlace(at) == IF at = "string" THEN "in" ELSE IF at = "escape" THEN "pair" ELSE "out"

\* What a character of JSON does to where it is read.
JsonTurn(from, ch, to) ==
  /\ from = "string" =>
       \/ ch = "quote" /\ to = "after"
       \/ ch = "backslash" /\ to = "escape"
       \/ ch \notin {"quote", "backslash", "newline"} /\ to = "string"
  /\ from = "escape" => to = "string"
  /\ from \in {"value", "open"} =>
       \/ ch = "quote" /\ to = "string"
       \/ ch # "quote" /\ to \in {"value", "open", "after"}
  /\ from = "after" =>
       \/ ch \in White /\ to = "after"
       \/ ch \in {"comma", "rbrace"} /\ to \in {"value", "after"}
  /\ from \in {"string", "escape", "value", "open", "after"}

LEMMA JsonGoesOn ==
  ASSUME NEW s \in JsonStates, NEW ch, JsonStep(s, ch).at # "dead"
  PROVE  JsonTurn(s.at, ch, JsonStep(s, ch).at)
<1>1. s.at \in JsonPlaces /\ \A p : [s EXCEPT !.at = p].at = p
  BY DEF JsonStates
<1>2. Dead.at = "dead"
  BY DEF Dead
<1>3. \A x \in White : x \notin {"quote", "backslash", "comma", "x", "lbrace", "rbrace"}
  BY DEF White
<1>4. CASE s.at = "string"
  BY <1>1, <1>2, <1>4 DEF JsonStep, JsonTurn
<1>5. CASE s.at = "escape"
  BY <1>1, <1>2, <1>5 DEF JsonStep, JsonTurn
<1>6. CASE s.at \in {"value", "open"}
  BY <1>1, <1>2, <1>3, <1>6 DEF JsonStep, JsonTurn
<1>7. CASE s.at = "after"
  BY <1>1, <1>2, <1>3, <1>7 DEF JsonStep, JsonTurn
<1>8. CASE s.at = "dead"
  BY <1>1, <1>2, <1>8 DEF JsonStep, JsonTurn
<1> QED BY <1>1, <1>4, <1>5, <1>6, <1>7, <1>8 DEF JsonPlaces

LEMMA DeadStays ==
  ASSUME NEW s \in JsonStates, NEW ch, s.at = "dead"
  PROVE  JsonStep(s, ch).at = "dead"
BY DEF JsonStep, Dead

\* A text that loads is read to its end without json.loads being lost.
LEMMA NeverLost ==
  ASSUME NEW t \in Seq(Letters), Loads(t) # "malformed"
  PROVE  \A i \in 0..Len(t) : Reading(t)[i].at # "dead"
<1> DEFINE R == Reading(t)
<1>1. R[Len(t)].at = "after"
  BY DEF Loads
<1>2. SUFFICES ASSUME NEW i \in 0..Len(t), R[i].at = "dead"  PROVE FALSE
  OBVIOUS
<1> DEFINE T == {j \in 0..Len(t) : j >= i => R[j].at = "dead"}
<1>3. 0 \in T
  BY <1>2
<1>4. ASSUME NEW j \in 1..Len(t), j - 1 \in T  PROVE j \in T
  <2>1. CASE j <= i
    BY <1>2, <2>1
  <2>2. CASE j > i
    <3>1. R[j - 1].at = "dead" /\ R[j - 1] \in JsonStates /\ R[j] = JsonStep(R[j - 1], t[j])
      BY <1>4, <2>2, ReadingGoesOn
    <3>2. R[j].at = "dead"
      BY <3>1, DeadStays
    <3> QED BY <3>2
  <2> QED BY <2>1, <2>2
<1>5. Len(t) \in T
  <2>1. Len(t) \in Nat
    OBVIOUS
  <2> HIDE DEF T
  <2>2. \A j \in 0..Len(t) : j \in T
    BY <1>3, <1>4, <2>1, Climbs
  <2> QED BY <2>1, <2>2
<1> QED BY <1>1, <1>5

LEMMA LoadedTurns ==
  ASSUME NEW t \in Seq(Letters), Loads(t) # "malformed", NEW i \in 1..Len(t)
  PROVE  JsonTurn(Reading(t)[i - 1].at, t[i], Reading(t)[i].at)
<1>1. i - 1 \in 0..Len(t) /\ i \in 0..Len(t)
  OBVIOUS
<1>2. PICK s \in JsonStates : s = Reading(t)[i - 1]
  BY <1>1, ReadingGoesOn
<1>3. Reading(t)[i] = JsonStep(s, t[i]) /\ Reading(t)[i].at # "dead"
  BY <1>1, <1>2, ReadingGoesOn, NeverLost
<1>4. JsonStep(s, t[i]).at # "dead"
  BY <1>3
<1> QED BY <1>2, <1>3, <1>4, JsonGoesOn

\* Between a string that json.loads has read and the next quote there is more than
\* white space.
LEMMA NoCommaMissing ==
  ASSUME NEW t \in Seq(Letters), Loads(t) # "malformed", NEW i \in 0..Len(t),
         Reading(t)[i].at = "after"
  PROVE  ~LacksComma(t, i + 1)
<1> DEFINE R == Reading(t)
<1>1. SUFFICES ASSUME NEW k \in i + 2..Len(t), t[k] = "quote", \A m \in i + 1..k - 1 : t[m] \in White
               PROVE  FALSE
  BY DEF LacksComma
<1>2. \A j \in 1..Len(t) : JsonTurn(R[j - 1].at, t[j], R[j].at)
  BY LoadedTurns
<1> DEFINE T == {j \in 0..k - 1 : j >= i => R[j].at = "after"}
<1>3. 0 \in T
  BY <1>1
<1>4. ASSUME NEW j \in 1..k - 1, j - 1 \in T  PROVE j \in T
  <2>1. CASE j <= i
    BY <2>1
  <2>2. CASE j > i
    <3>1. R[j - 1].at = "after" /\ t[j] \in White /\ j \in 1..Len(t)
      BY <1>1, <1>4, <2>2
    <3>2. R[j].at = "after"
      BY <1>2, <3>1 DEF JsonTurn, White
    <3> QED BY <3>2
  <2> QED BY <2>1, <2>2
<1>5. R[k - 1].at = "after"
  <2>1. k - 1 \in Nat /\ k - 1 \in 0..k - 1 /\ k - 1 >= i
    BY <1>1
  <2>2. k - 1 \in T => R[k - 1].at = "after"
    BY <2>1
  <2> HIDE DEF T
  <2>3. \A j \in 0..k - 1 : j \in T
    BY <1>3, <1>4, <2>1, Climbs
  <2> QED BY <2>1, <2>2, <2>3
<1>6. k \in 1..Len(t) /\ "quote" \notin White \cup {"comma", "rbrace"}
  BY <1>1 DEF White
<1>7. JsonTurn("after", "quote", R[k].at)
  BY <1>1, <1>2, <1>5, <1>6
<1> QED BY <1>6, <1>7 DEF JsonTurn

\* The quote that closes a string for json.loads closes it for the scan.
LEMMA ClosesForBoth ==
  ASSUME NEW t \in Seq(Letters), Loads(t) # "malformed", NEW i \in 1..Len(t),
         Reading(t)[i - 1].at = "string", t[i] = "quote"
  PROVE  Closes(t, i)
<1> DEFINE R == Reading(t)
<1>1. \A j \in 1..Len(t) : JsonTurn(R[j - 1].at, t[j], R[j].at)
  BY LoadedTurns
<1>2. R[i].at = "after"
  BY <1>1 DEF JsonTurn
<1>3. At(t, i + 1) \in White \cup {"comma", "rbrace", "end"}
  <2>1. CASE i + 1 \in 1..Len(t)
    <3>1. JsonTurn(R[(i + 1) - 1].at, t[i + 1], R[i + 1].at) /\ (i + 1) - 1 = i
      BY <1>1, <2>1
    <3>2. t[i + 1] \in White \cup {"comma", "rbrace"}
      BY <1>2, <3>1 DEF JsonTurn
    <3> QED BY <2>1, <3>2 DEF At
  <2>2. CASE i + 1 \notin 1..Len(t)
    BY <2>2 DEF At
  <2> QED BY <2>1, <2>2
<1>4. ASSUME At(t, i - 1) = "quote", At(t, i - 2) = "quote"  PROVE FALSE
  <2>1. i - 1 \in 1..Len(t) /\ i - 2 \in 1..Len(t) /\ t[i - 1] = "quote" /\ t[i - 2] = "quote"
    BY <1>4 DEF At
  <2>2. R[i - 2].at \in {"string", "after"}
    <3>1. PICK j \in 1..Len(t) : j = i - 2
      BY <2>1
    <3>2. R[j].at \in {"string", "after"}
      BY <1>1, <2>1, <3>1 DEF JsonTurn
    <3> QED BY <3>1, <3>2
  <2>3. R[i - 1].at # "string"
    <3>1. PICK j \in 1..Len(t) : j = i - 1
      BY <2>1
    <3>2. R[j - 1].at \in {"string", "after"} /\ t[j] = "quote"
      BY <2>1, <2>2, <3>1
    <3>3. R[j].at # "string"
      BY <1>1, <3>2 DEF JsonTurn, White
    <3> QED BY <3>1, <3>3
  <2> QED BY <2>3
<1> QED BY <1>3, <1>4 DEF Closes

LEMMA HeadsGrow ==
  ASSUME NEW S, NEW t \in Seq(S)
  PROVE  /\ SubSeq(t, 1, 0) = <<>> /\ SubSeq(t, 1, Len(t)) = t
         /\ \A i \in 1..Len(t) : SubSeq(t, 1, i) = Put(SubSeq(t, 1, i - 1), t[i])
<1>1. SubSeq(t, 1, 0) = <<>>
  OBVIOUS
<1>2. SubSeq(t, 1, Len(t)) = t
  OBVIOUS
<1>3. ASSUME NEW i \in 1..Len(t)  PROVE SubSeq(t, 1, i) = Put(SubSeq(t, 1, i - 1), t[i])
  BY DEF Put, Join, One
<1> QED BY <1>1, <1>2, <1>3

\* The scan of JSON is in a string where json.loads is, and writes what it reads.
LEMMA ScanFollows ==
  ASSUME NEW t \in Seq(Letters), Loads(t) # "malformed", NEW i \in 0..Len(t)
  PROVE  Scanning(t)[i] = [at |-> ScanPlace(Reading(t)[i].at), out |-> SubSeq(t, 1, i)]
<1> DEFINE R == Reading(t)
           T == {j \in 0..Len(t) : Scanning(t)[j] = [at |-> ScanPlace(R[j].at), out |-> SubSeq(t, 1, j)]}
<1>1. Len(t) \in Nat
  OBVIOUS
<1>2. 0 \in T
  <2>1. R[0].at = "value" /\ Scanning(t)[0] = [at |-> "out", out |-> <<>>] /\ SubSeq(t, 1, 0) = <<>>
    BY ReadingGoesOn, ScanningGoesOn, HeadsGrow
  <2> QED BY <1>1, <2>1 DEF ScanPlace
<1>3. ASSUME NEW j \in 1..Len(t), j - 1 \in T  PROVE j \in T
  <2> DEFINE a == ScanState(ScanPlace(R[j - 1].at), SubSeq(t, 1, j - 1))
             b == Scanning(t)[j]
  <2>1. JsonTurn(R[j - 1].at, t[j], R[j].at)
    BY LoadedTurns
  <2>2. SubSeq(t, 1, j) = Put(a.out, t[j]) /\ a.at = ScanPlace(R[j - 1].at)
    BY HeadsGrow DEF ScanState
  <2>3. ScanPuts(t, a, j, b)
    <3>1. a = Scanning(t)[j - 1] /\ j - 1 \in 0..Len(t)
      BY <1>3 DEF ScanState
    <3> HIDE DEF a
    <3>2. a \in ScanStates /\ b = ScanStep(t, a, j)
      BY <3>1, ScanningGoesOn
    <3> HIDE DEF b
    <3> QED BY <3>2, ScanStepPuts
  <2>4. j \in T <=> b = [at |-> ScanPlace(R[j].at), out |-> SubSeq(t, 1, j)]
    OBVIOUS
  <2> HIDE DEF a, b, T
  <2> SUFFICES b = ScanState(ScanPlace(R[j].at), Put(a.out, t[j]))
    BY <2>2, <2>4 DEF ScanState
  <2>5. CASE R[j - 1].at = "string" /\ t[j] = "quote"
    <3>1. R[j].at = "after" /\ a.at = "in"
      BY <2>1, <2>2, <2>5 DEF JsonTurn, ScanPlace
    <3>2. Closes(t, j) /\ ~LacksComma(t, j + 1)
      BY <2>5, <3>1, ClosesForBoth, NoCommaMissing
    <3> QED BY <2>3, <2>5, <3>1, <3>2 DEF ScanPuts, ScanPlace
  <2>6. CASE R[j - 1].at = "string" /\ t[j] # "quote"
    <3>1. /\ a.at = "in" /\ t[j] # "newline"
          /\ \/ t[j] = "backslash" /\ ScanPlace(R[j].at) = "pair"
             \/ t[j] # "backslash" /\ ScanPlace(R[j].at) = "in"
      BY <2>1, <2>2, <2>6 DEF JsonTurn, ScanPlace
    <3> QED BY <2>3, <2>6, <3>1 DEF ScanPuts
  <2>7. CASE R[j - 1].at = "escape"
    <3>1. a.at = "pair" /\ ScanPlace(R[j].at) = "in"
      BY <2>1, <2>2, <2>7 DEF JsonTurn, ScanPlace
    <3> QED BY <2>3, <3>1 DEF ScanPuts
  <2>8. CASE R[j - 1].at \in {"value", "open", "after"}
    <3>1. /\ a.at = "out"
          /\ \/ t[j] = "quote" /\ ScanPlace(R[j].at) = "in"
             \/ t[j] # "quote" /\ ScanPlace(R[j].at) = "out"
      BY <2>1, <2>2, <2>8 DEF JsonTurn, ScanPlace, White
    <3> QED BY <2>3, <3>1 DEF ScanPuts
  <2> QED BY <2>1, <2>5, <2>6, <2>7, <2>8 DEF JsonTurn
<1>4. i \in T
  <2> HIDE DEF T
  <2> QED BY <1>1, <1>2, <1>3, Climbs
<1> QED BY <1>4

LEMMA LoadedIsUnchanged ==
  ASSUME NEW t \in Seq(Letters), Loads(t) # "malformed"
  PROVE  Repair(t) = t
<1>1. Len(t) \in 0..Len(t)
  OBVIOUS
<1>2. PICK n \in 0..Len(t) : n = Len(t)
  BY <1>1
<1>3. Scanning(t)[n] = [at |-> ScanPlace(Reading(t)[n].at), out |-> SubSeq(t, 1, n)]
  BY ScanFollows
<1>4. Scanning(t)[n].out = SubSeq(t, 1, n)
  BY <1>3
<1> QED BY <1>2, <1>4, HeadsGrow DEF Repair

(* ReplyText: a repair is its own repair *)

\* A text that goes on where another ends.
GoesOnFrom(u, w) == Len(u) <= Len(w) /\ \A j \in 1..Len(u) : w[j] = u[j]

LEMMA PutsGoOn ==
  ASSUME NEW u \in Seq(Letters), NEW x \in Letters
  PROVE  GoesOnFrom(u, Put(u, x))
<1>1. Len(u) \in Nat
  OBVIOUS
<1>2. Len(Put(u, x)) = Len(u) + 1 /\ \A j \in 1..Len(u) : Put(u, x)[j] = u[j]
  BY PutIs
<1> QED BY <1>1, <1>2 DEF GoesOnFrom

LEMMA GoesOnAndOn ==
  ASSUME NEW u \in Seq(Letters), NEW v \in Seq(Letters), NEW w \in Seq(Letters),
         GoesOnFrom(u, v), GoesOnFrom(v, w)
  PROVE  GoesOnFrom(u, w)
<1>1. Len(u) \in Nat /\ Len(v) \in Nat /\ Len(w) \in Nat
  OBVIOUS
<1> QED BY <1>1 DEF GoesOnFrom

LEMMA StepGoesOn ==
  ASSUME NEW t \in Seq(Letters), NEW i \in 1..Len(t), NEW a \in ScanStates
  PROVE  GoesOnFrom(a.out, ScanStep(t, a, i).out)
<1> DEFINE b == ScanStep(t, a, i)
<1>1. a.out \in Seq(Letters) /\ t[i] \in Letters
  BY DEF ScanStates
<1>2. \A u \in Seq(Letters) : \A x \in Letters :
        GoesOnFrom(a.out, u) => GoesOnFrom(a.out, Put(u, x)) /\ Put(u, x) \in Seq(Letters)
  BY <1>1, PutsGoOn, GoesOnAndOn, PutIs
<1>3. GoesOnFrom(a.out, a.out)
  BY <1>1 DEF GoesOnFrom
<1>4. ScanPuts(t, a, i, b)
  BY ScanStepPuts
<1> HIDE DEF b
<1>5. \E p \in {"out", "in", "pair"} : \E u \in Seq(Letters) : b = ScanState(p, u) /\ GoesOnFrom(a.out, u)
  <2>1. \A x \in Letters : GoesOnFrom(a.out, Put(a.out, x)) /\ Put(a.out, x) \in Seq(Letters)
    BY <1>1, <1>2, <1>3
  <2>2. \A x, y \in Letters :
          GoesOnFrom(a.out, Put(Put(a.out, x), y)) /\ Put(Put(a.out, x), y) \in Seq(Letters)
    BY <1>2, <2>1
  <2>3. \A x, y, z \in Letters : /\ GoesOnFrom(a.out, Put(Put(Put(a.out, x), y), z))
                                 /\ Put(Put(Put(a.out, x), y), z) \in Seq(Letters)
    BY <1>2, <2>2
  <2> QED BY <1>1, <1>4, <2>1, <2>2, <2>3, LettersAre DEF ScanPuts
<1> QED BY <1>5 DEF b, ScanState

\* What the scan has written stays: the repair goes on from it.
LEMMA RepairGoesOn ==
  ASSUME NEW t \in Seq(Letters), NEW i \in 0..Len(t)
  PROVE  Repair(t) \in Seq(Letters) /\ GoesOnFrom(Scanning(t)[i].out, Repair(t))
<1> DEFINE w(j) == Scanning(t)[j].out
           T == {j \in 0..Len(t) : j >= i => GoesOnFrom(w(i), w(j))}
<1>1. Len(t) \in Nat /\ Len(t) \in 0..Len(t)
  OBVIOUS
<1>2. \A j \in 0..Len(t) : Scanning(t)[j] \in ScanStates
  BY ScanningGoesOn
<1>3. \A j \in 0..Len(t) : w(j) \in Seq(Letters)
  BY <1>2 DEF ScanStates
<1>4. GoesOnFrom(w(i), w(i))
  BY <1>3 DEF GoesOnFrom
<1>5. ASSUME NEW j \in 1..Len(t)  PROVE GoesOnFrom(w(j - 1), w(j))
  <2>1. j - 1 \in 0..Len(t)
    OBVIOUS
  <2>2. PICK a \in ScanStates : a = Scanning(t)[j - 1]
    BY <1>2, <2>1
  <2>3. Scanning(t)[j] = ScanStep(t, a, j)
    BY <2>2, ScanningGoesOn
  <2> QED BY <2>2, <2>3, StepGoesOn
<1> HIDE DEF w
<1>6. 0 \in T
  BY <1>1, <1>4
<1>7. ASSUME NEW j \in 1..Len(t), j - 1 \in T  PROVE j \in T
  <2>1. CASE j <= i
    BY <1>4, <2>1
  <2>2. CASE j > i
    <3>1. GoesOnFrom(w(i), w(j - 1)) /\ j - 1 \in 0..Len(t) /\ j \in 0..Len(t)
      BY <1>7, <2>2
    <3>2. GoesOnFrom(w(i), w(j))
      BY <1>3, <1>5, <3>1, GoesOnAndOn
    <3> QED BY <3>2
  <2> QED BY <2>1, <2>2
<1>8. Len(t) \in T => GoesOnFrom(w(i), w(Len(t)))
  BY <1>1
<1>9. Len(t) \in T
  <2> HIDE DEF T
  <2>1. \A j \in 0..Len(t) : j \in T
    BY <1>1, <1>6, <1>7, Climbs
  <2> QED BY <1>1, <2>1
<1> QED BY <1>1, <1>3, <1>8, <1>9 DEF w, Repair

\* The last two characters of a text.
LastOf(u) == At(u, Len(u))
LastButOne(u) == At(u, Len(u) - 1)

LEMMA PutEnds ==
  ASSUME NEW u \in Seq(Letters), NEW x \in Letters
  PROVE  LastOf(Put(u, x)) = x /\ LastButOne(Put(u, x)) = LastOf(u)
<1>1. Len(u) \in Nat /\ Len(Put(u, x)) = Len(u) + 1 /\ Put(u, x)[Len(u) + 1] = x
  BY PutIs
<1>2. \A j \in 1..Len(u) : Put(u, x)[j] = u[j]
  BY PutIs
<1>3. LastOf(Put(u, x)) = x
  BY <1>1 DEF LastOf, At
<1>4. LastButOne(Put(u, x)) = LastOf(u)
  BY <1>1, <1>2 DEF LastButOne, LastOf, At
<1> QED BY <1>3, <1>4

\* In a string what is written does not end with two quotes, and after a string no quote
\* comes next.
EndsWell(t, i, b) ==
  /\ b.at = "in" => ~(LastOf(b.out) = "quote" /\ LastButOne(b.out) = "quote")
  /\ b.at = "pair" => LastOf(b.out) = "backslash"
  /\ b.at = "out" /\ LastOf(b.out) = "quote" => At(t, i + 1) # "quote"

LEMMA StepEndsWell ==
  ASSUME NEW t \in Seq(Letters), NEW i \in 1..Len(t), NEW a \in ScanStates, EndsWell(t, i - 1, a),
         NEW b, ScanPuts(t, a, i, b)
  PROVE  EndsWell(t, i, b)
<1>1. a.out \in Seq(Letters) /\ a.at \in {"out", "in", "pair"} /\ t[i] \in Letters /\ i - 1 + 1 = i
  BY DEF ScanStates
<1>2. At(t, i) = t[i]
  BY DEF At
<1>3. \A x \in Letters : /\ LastOf(Put(a.out, x)) = x /\ LastButOne(Put(a.out, x)) = LastOf(a.out)
                         /\ Put(a.out, x) \in Seq(Letters)
  BY <1>1, PutEnds, PutIs
<1>4. \A x, y \in Letters : /\ LastOf(Put(Put(a.out, x), y)) = y /\ LastButOne(Put(Put(a.out, x), y)) = x
                            /\ Put(Put(a.out, x), y) \in Seq(Letters)
  BY <1>3, PutEnds, PutIs
<1>5. \A x, y, z \in Letters : LastOf(Put(Put(Put(a.out, x), y), z)) = z
  BY <1>4, PutEnds
<1>6. Closes(t, i) => At(t, i + 1) # "quote"
  BY DEF Closes, White
<1>7. /\ a.at = "out" /\ t[i] = "quote" => LastOf(a.out) # "quote"
      /\ a.at = "pair" => LastOf(a.out) = "backslash"
  BY <1>1, <1>2 DEF EndsWell
<1>8. ASSUME NEW u, LastOf(u) # "quote" \/ LastButOne(u) # "quote"
      PROVE  EndsWell(t, i, ScanState("in", u))
  BY <1>8 DEF EndsWell, ScanState
<1>9. ASSUME NEW u, LastOf(u) # "quote" \/ At(t, i + 1) # "quote"
      PROVE  EndsWell(t, i, ScanState("out", u))
  BY <1>9 DEF EndsWell, ScanState
<1>10. ASSUME NEW u, LastOf(u) = "backslash"  PROVE EndsWell(t, i, ScanState("pair", u))
  BY <1>10 DEF EndsWell, ScanState
<1>11. CASE a.at = "out" /\ t[i] = "quote"
  <2>1. b = ScanState("in", Put(a.out, "quote"))
    BY <1>11 DEF ScanPuts
  <2> QED BY <1>3, <1>7, <1>8, <1>11, <2>1, LettersAre
<1>12. CASE a.at = "out" /\ t[i] # "quote"
  <2>1. b = ScanState("out", Put(a.out, t[i]))
    BY <1>12 DEF ScanPuts
  <2> QED BY <1>1, <1>3, <1>9, <1>12, <2>1
<1>13. CASE a.at = "pair"
  <2>1. b = ScanState("in", Put(a.out, t[i]))
    BY <1>13 DEF ScanPuts
  <2> QED BY <1>1, <1>3, <1>7, <1>8, <1>13, <2>1
<1>14. CASE a.at = "in" /\ t[i] = "quote"
  <2>1. \/ b = ScanState("out", Put(a.out, "quote")) /\ Closes(t, i)
        \/ b = ScanState("out", Put(Put(a.out, "quote"), "comma"))
        \/ b = ScanState("in", Put(Put(a.out, "backslash"), "quote"))
    BY <1>14 DEF ScanPuts
  <2>2. LastOf(Put(Put(a.out, "quote"), "comma")) # "quote" /\ LastButOne(Put(Put(a.out, "backslash"), "quote")) # "quote"
    BY <1>4, LettersAre
  <2> QED BY <1>6, <1>8, <1>9, <2>1, <2>2
<1>15. CASE a.at = "in" /\ t[i] = "newline"
  <2>1. \/ b = ScanState("out", Put(Put(a.out, "quote"), "newline"))
        \/ b = ScanState("out", Put(Put(Put(a.out, "quote"), "comma"), "newline"))
    BY <1>15 DEF ScanPuts
  <2>2. LastOf(Put(Put(a.out, "quote"), "newline")) # "quote"
    BY <1>4, LettersAre
  <2>3. LastOf(Put(Put(Put(a.out, "quote"), "comma"), "newline")) # "quote"
    <3>1. PICK x \in Letters, y \in Letters, z \in Letters : x = "quote" /\ y = "comma" /\ z = "newline"
      BY LettersAre
    <3>2. LastOf(Put(Put(Put(a.out, x), y), z)) = z
      BY <1>5
    <3> QED BY <3>1, <3>2
  <2> QED BY <1>9, <2>1, <2>2, <2>3
<1>16. CASE a.at = "in" /\ t[i] \notin {"quote", "newline"}
  <2>1. \/ b = ScanState("pair", Put(a.out, "backslash"))
        \/ b = ScanState("in", Put(a.out, t[i]))
    BY <1>16 DEF ScanPuts
  <2>2. LastOf(Put(a.out, "backslash")) = "backslash" /\ LastOf(Put(a.out, t[i])) # "quote"
    BY <1>1, <1>3, <1>16, LettersAre
  <2> QED BY <1>8, <1>10, <2>1, <2>2
<1> QED BY <1>1, <1>11, <1>12, <1>13, <1>14, <1>15, <1>16

\* A step of the scan of a text, and what it writes in the repair.
LEMMA ScanTurns ==
  ASSUME NEW t \in Seq(Letters), NEW i \in 1..Len(t)
  PROVE  \E a \in ScanStates : \E b \in ScanStates :
           /\ a = Scanning(t)[i - 1] /\ b = Scanning(t)[i] /\ ScanPuts(t, a, i, b)
           /\ GoesOnFrom(b.out, Repair(t))
<1>1. i - 1 \in 0..Len(t) /\ i \in 0..Len(t)
  OBVIOUS
<1>2. PICK a \in ScanStates : a = Scanning(t)[i - 1]
  BY <1>1, ScanningGoesOn
<1>3. PICK b \in ScanStates : b = Scanning(t)[i]
  BY <1>1, ScanningGoesOn
<1>4. b = ScanStep(t, a, i)
  BY <1>2, <1>3, ScanningGoesOn
<1>5. ScanPuts(t, a, i, b)
  BY <1>4, ScanStepPuts
<1>6. GoesOnFrom(b.out, Repair(t))
  BY <1>1, <1>3, RepairGoesOn
<1> QED BY <1>2, <1>3, <1>5, <1>6

LEMMA ScanEndsWell ==
  ASSUME NEW t \in Seq(Letters), NEW i \in 0..Len(t)
  PROVE  EndsWell(t, i, Scanning(t)[i])
<1> DEFINE T == {j \in 0..Len(t) : EndsWell(t, j, Scanning(t)[j])}
<1>1. Len(t) \in Nat
  OBVIOUS
<1>2. 0 \in T
  <2>1. Scanning(t)[0] = [at |-> "out", out |-> <<>>]
    BY ScanningGoesOn
  <2>2. LastOf(<<>>) = "end"
    BY DEF LastOf, At
  <2> QED BY <1>1, <2>1, <2>2 DEF EndsWell
<1>3. ASSUME NEW j \in 1..Len(t), j - 1 \in T  PROVE j \in T
  <2>1. PICK a \in ScanStates, b \in ScanStates :
          a = Scanning(t)[j - 1] /\ b = Scanning(t)[j] /\ ScanPuts(t, a, j, b)
    BY ScanTurns
  <2>2. EndsWell(t, j, b)
    BY <1>3, <2>1, StepEndsWell
  <2> QED BY <2>1, <2>2
<1>4. i \in T
  <2> HIDE DEF T
  <2> QED BY <1>1, <1>2, <1>3, Climbs
<1> QED BY <1>4

LEMMA SameAt ==
  ASSUME NEW u \in Seq(Letters), NEW w \in Seq(Letters), GoesOnFrom(u, w), NEW k \in Int, k <= Len(u)
  PROVE  At(w, k) = At(u, k)
<1>1. Len(u) \in Nat /\ Len(w) \in Nat
  OBVIOUS
<1> QED BY <1>1 DEF At, GoesOnFrom

\* How much the scan has written.
Written(t, i) == Len(Scanning(t)[i].out)

LEMMA WrittenIs ==
  ASSUME NEW t \in Seq(Letters)
  PROVE  /\ \A i \in 0..Len(t) : Written(t, i) \in Nat
         /\ Written(t, 0) = 0 /\ Written(t, Len(t)) = Len(Repair(t))
         /\ Repair(t) \in Seq(Letters) /\ Len(t) \in Nat /\ Len(Repair(t)) \in Nat
<1>1. Len(t) \in Nat /\ Len(t) \in 0..Len(t)
  OBVIOUS
<1>2. \A i \in 0..Len(t) : Scanning(t)[i].out \in Seq(Letters)
  BY ScanningGoesOn DEF ScanStates
<1>3. \A i \in 0..Len(t) : Written(t, i) \in Nat
  BY <1>2 DEF Written
<1>4. Written(t, 0) = 0
  BY ScanningGoesOn DEF Written
<1> QED BY <1>1, <1>2, <1>3, <1>4 DEF Written, Repair

LEMMA PutLast ==
  ASSUME NEW u \in Seq(Letters), NEW x \in Letters
  PROVE  /\ Len(Put(u, x)) = Len(u) + 1 /\ Put(u, x)[Len(Put(u, x))] = x
         /\ Len(Put(u, x)) \in 1..Len(Put(u, x))
<1>1. Len(u) \in Nat
  OBVIOUS
<1>2. Len(Put(u, x)) = Len(u) + 1 /\ Put(u, x)[Len(u) + 1] = x
  BY PutIs
<1> QED BY <1>1, <1>2

LEMMA OutTurn ==
  ASSUME NEW t \in Seq(Letters), NEW i \in 1..Len(t), Scanning(t)[i - 1].at = "out"
  PROVE  /\ Written(t, i) = Written(t, i - 1) + 1 /\ Repair(t)[Written(t, i)] = t[i]
         /\ t[i] # "quote" => Scanning(t)[i].at = "out"
<1>1. PICK a \in ScanStates, b \in ScanStates :
        /\ a = Scanning(t)[i - 1] /\ b = Scanning(t)[i] /\ ScanPuts(t, a, i, b)
        /\ GoesOnFrom(b.out, Repair(t))
  BY ScanTurns
<1>2. a.out \in Seq(Letters) /\ t[i] \in Letters /\ Len(a.out) \in Nat
  BY DEF ScanStates
<1>3. b = ScanState(IF t[i] = "quote" THEN "in" ELSE "out", Put(a.out, t[i]))
  BY <1>1 DEF ScanPuts
<1>4. b.out = Put(a.out, t[i]) /\ (t[i] # "quote" => b.at = "out")
  BY <1>3 DEF ScanState
<1>5. PICK x \in Letters : x = t[i]
  BY <1>2
<1>6. Len(Put(a.out, x)) = Len(a.out) + 1 /\ Put(a.out, x)[Len(Put(a.out, x))] = x
      /\ Len(Put(a.out, x)) \in 1..Len(Put(a.out, x))
  BY <1>2, PutLast
<1>7. Len(b.out) = Len(a.out) + 1 /\ b.out[Len(b.out)] = t[i] /\ Len(b.out) \in 1..Len(b.out)
  BY <1>4, <1>5, <1>6
<1>8. \A j \in 1..Len(b.out) : Repair(t)[j] = b.out[j]
  BY <1>1 DEF GoesOnFrom
<1>9. Repair(t)[Len(b.out)] = t[i]
  BY <1>7, <1>8
<1> QED BY <1>1, <1>4, <1>7, <1>9 DEF Written

\* Outside strings a repair copies: up to the next quote, character by character.
LEMMA CopiesOut ==
  ASSUME NEW t \in Seq(Letters), NEW i \in 0..Len(t), Scanning(t)[i].at = "out",
         NEW k \in Written(t, i) + 1..Len(Repair(t)),
         \A m \in Written(t, i) + 1..k - 1 : Repair(t)[m] # "quote",
         NEW m \in Written(t, i) + 1..k
  PROVE  i + m - Written(t, i) \in 1..Len(t) /\ Repair(t)[m] = t[i + m - Written(t, i)]
<1> DEFINE p == Written(t, i)
           o == Repair(t)
           T == {d \in 0..k - 1 - p : /\ i + d < Len(t) /\ Scanning(t)[i + d].at = "out"
                                      /\ Written(t, i + d) = p + d}
<1>1. /\ Len(t) \in Nat /\ i \in Nat /\ p \in Nat /\ Len(o) \in Nat /\ k \in Nat /\ k - 1 - p \in Nat
      /\ m \in Nat /\ m >= p + 1 /\ m <= k /\ k <= Len(o) /\ i <= Len(t)
  BY WrittenIs
<1>2. \A j \in 0..Len(t) : Written(t, j) < Len(o) => j < Len(t)
  BY WrittenIs
<1>3. \A j \in 1..Len(t) : Scanning(t)[j - 1].at = "out" =>
        /\ Written(t, j) = Written(t, j - 1) + 1 /\ o[Written(t, j)] = t[j]
        /\ t[j] # "quote" => Scanning(t)[j].at = "out"
  BY OutTurn
<1>4. Scanning(t)[i].at = "out" /\ Written(t, i) = p /\ \A l \in p + 1..k - 1 : o[l] # "quote"
  OBVIOUS
<1> HIDE DEF o, p
<1>5. 0 \in T
  BY <1>1, <1>2, <1>4
<1>6. ASSUME NEW d \in 1..k - 1 - p, d - 1 \in T  PROVE d \in T
  <2>1. PICK j \in 1..Len(t) : j = i + d
    BY <1>1, <1>6
  <2>2. Scanning(t)[j - 1].at = "out" /\ Written(t, j - 1) = p + d - 1
    BY <1>1, <1>6, <2>1
  <2>3. Written(t, j) = p + d /\ o[p + d] = t[j] /\ p + d \in p + 1..k - 1
    BY <1>1, <1>3, <2>2
  <2>4. Scanning(t)[j].at = "out"
    BY <1>3, <1>4, <2>2, <2>3
  <2>5. j < Len(t)
    <3>1. p + d < Len(o) /\ j \in 0..Len(t)
      BY <1>1, <2>3
    <3> QED BY <1>2, <2>3, <3>1
  <2> QED BY <2>1, <2>3, <2>4, <2>5
<1>7. \A d \in 0..k - 1 - p : d \in T
  <2> HIDE DEF T
  <2> QED BY <1>1, <1>5, <1>6, Climbs
<1>8. PICK d \in 0..k - 1 - p : d = m - 1 - p
  BY <1>1
<1>9. i + d < Len(t) /\ Scanning(t)[i + d].at = "out" /\ Written(t, i + d) = p + d
  BY <1>7
<1>10. PICK j \in 1..Len(t) : j = i + d + 1
  BY <1>1, <1>9
<1>11. j - 1 = i + d /\ m = p + d + 1 /\ i + m - p = j
  BY <1>1, <1>8, <1>10
<1>12. o[m] = t[j]
  BY <1>3, <1>9, <1>11
<1> QED BY <1>11, <1>12 DEF p, o

\* After a string the repair lacks no comma that the text did not lack.
LEMMA LacksForBoth ==
  ASSUME NEW t \in Seq(Letters), NEW i \in 0..Len(t), Scanning(t)[i].at = "out", NEW e \in {0, 1},
         e = 0 => Repair(t)[Written(t, i)] = t[i] /\ i > 0 /\ Written(t, i) > 0,
         LacksComma(Repair(t), Written(t, i) + e)
  PROVE  LacksComma(t, i + e)
<1> DEFINE p == Written(t, i)  o == Repair(t)
<1>1. p \in Nat /\ Len(o) \in Nat /\ Len(t) \in Nat /\ i \in Nat /\ e \in Nat
  BY WrittenIs
<1>2. PICK k \in p + e + 1..Len(o) : /\ o[k] = "quote" /\ \A m \in p + e..k - 1 : o[m] \in White
                                     /\ \E m \in p + e..k - 1 : o[m] = "newline"
  BY DEF LacksComma
<1>3. k \in p + 1..Len(o) /\ k \in Nat /\ k >= p + e + 1
  BY <1>1
<1>4. \A m \in p + 1..k - 1 : o[m] # "quote"
  <2>1. \A m \in p + 1..k - 1 : m \in p + e..k - 1
    BY <1>1, <1>3
  <2>2. "quote" \notin White
    BY DEF White
  <2> QED BY <1>2, <2>1, <2>2
<1>5. \A m \in p + 1..k : i + m - p \in 1..Len(t) /\ o[m] = t[i + m - p]
  BY <1>3, <1>4, CopiesOut
<1>6. e = 0 => o[p] = t[i] /\ i > 0
  OBVIOUS
<1> HIDE DEF p, o
<1>7. \A m \in p + e..k : i + m - p \in 1..Len(t) /\ o[m] = t[i + m - p]
  <2> TAKE m \in p + e..k
  <2>1. CASE m = p
    <3>1. e = 0 /\ i + m - p = i
      BY <1>1, <2>1
    <3> QED BY <1>1, <1>6, <2>1, <3>1
  <2>2. CASE m # p
    <3>1. m \in p + 1..k
      BY <1>1, <1>3, <2>2
    <3> QED BY <1>5, <3>1
  <2> QED BY <2>1, <2>2
<1>8. i + k - p \in 1..Len(t) /\ t[i + k - p] = "quote"
  <2>1. k \in p + e..k
    BY <1>1, <1>3
  <2> QED BY <1>2, <1>7, <2>1
<1>9. PICK l \in 1..Len(t) : l = i + k - p
  BY <1>8
<1>10. ASSUME NEW m \in i + e..l - 1  PROVE t[m] \in White
  <2>1. PICK n \in p + e..k - 1 : n = m + p - i
    <3>1. m \in Int /\ m + p - i \in p + e..k - 1
      BY <1>1, <1>3, <1>9
    <3> QED BY <3>1
  <2>2. i + n - p = m /\ n \in p + e..k
    BY <1>1, <1>3, <1>9, <2>1
  <2> QED BY <1>2, <1>7, <2>1, <2>2
<1>11. \E m \in i + e..l - 1 : t[m] = "newline"
  <2>1. PICK n \in p + e..k - 1 : o[n] = "newline"
    BY <1>2
  <2>2. i + n - p \in i + e..l - 1 /\ n \in p + e..k
    BY <1>1, <1>3, <1>9
  <2> QED BY <1>7, <2>1, <2>2
<1>12. l \in i + e + 1..Len(t)
  BY <1>1, <1>3, <1>9
<1> QED BY <1>8, <1>10, <1>11, <1>12, <1>9 DEF LacksComma

\* The scan of a text comes by a state, having written just what it has read.
ComesBy(o, c) ==
  c \in ScanStates /\ GoesOnFrom(c.out, o) /\ Scanning(o)[Len(c.out)] = c

\* It can only go on in one way with the character that the repair has next.
OnlyGoesTo(o, c, x, d) ==
  \A e : o[Len(c.out) + 1] = x /\ ScanPuts(o, c, Len(c.out) + 1, e) => e = d

LEMMA ComesToNext ==
  ASSUME NEW o \in Seq(Letters), NEW c, ComesBy(o, c), NEW x \in Letters, GoesOnFrom(Put(c.out, x), o),
         NEW p \in {"out", "in", "pair"}, OnlyGoesTo(o, c, x, ScanState(p, Put(c.out, x)))
  PROVE  ComesBy(o, ScanState(p, Put(c.out, x)))
<1>1. c \in ScanStates /\ c.out \in Seq(Letters) /\ Scanning(o)[Len(c.out)] = c /\ Len(c.out) \in Nat
  BY DEF ComesBy, ScanStates
<1>2. PICK u \in Seq(Letters) : u = Put(c.out, x)
  BY <1>1, PutIs
<1>3. Len(Put(c.out, x)) = Len(c.out) + 1 /\ Put(c.out, x)[Len(Put(c.out, x))] = x
  BY <1>1, PutLast
<1>4. PICK k \in 1..Len(o) : k = Len(c.out) + 1 /\ k - 1 = Len(c.out) /\ o[k] = x
  BY <1>1, <1>3 DEF GoesOnFrom
<1>5. ScanPuts(o, c, k, Scanning(o)[k])
  <2>1. PICK a \in ScanStates, b \in ScanStates :
          a = Scanning(o)[k - 1] /\ b = Scanning(o)[k] /\ ScanPuts(o, a, k, b)
    BY ScanTurns
  <2> QED BY <1>1, <1>4, <2>1
<1>6. Scanning(o)[k] = ScanState(p, Put(c.out, x))
  BY <1>4, <1>5 DEF OnlyGoesTo
<1>7. ScanState(p, Put(c.out, x)).out = Put(c.out, x) /\ ScanState(p, Put(c.out, x)) \in ScanStates
  BY <1>2 DEF ScanState, ScanStates
<1> QED BY <1>3, <1>4, <1>6, <1>7 DEF ComesBy

\* The character that a repair has where one was put.
LEMMA PutStays ==
  ASSUME NEW o \in Seq(Letters), NEW u \in Seq(Letters), NEW x \in Letters, GoesOnFrom(Put(u, x), o)
  PROVE  /\ o[Len(u) + 1] = x /\ Len(u) + 1 \in 1..Len(o) /\ GoesOnFrom(u, o) /\ Len(u) \in Nat
         /\ Len(Put(u, x)) = Len(u) + 1 /\ Put(u, x) \in Seq(Letters)
<1>1. Len(u) \in Nat /\ Len(o) \in Nat
  OBVIOUS
<1>2. Len(Put(u, x)) = Len(u) + 1 /\ Put(u, x)[Len(u) + 1] = x /\ Put(u, x) \in Seq(Letters)
  BY PutIs
<1>3. GoesOnFrom(u, o)
  BY <1>2, PutsGoOn, GoesOnAndOn
<1> QED BY <1>1, <1>2, <1>3 DEF GoesOnFrom

LEMMA OutputIs ==
  ASSUME NEW a \in ScanStates
  PROVE  a.out \in Seq(Letters) /\ Len(a.out) \in Nat /\ a.at \in {"out", "in", "pair"}
BY DEF ScanStates

\* A quote that the scan closed a string with closes it when the repair is scanned.
LEMMA ClosesAgain ==
  ASSUME NEW o \in Seq(Letters), NEW u \in Seq(Letters), GoesOnFrom(u, o),
         ~(LastOf(u) = "quote" /\ LastButOne(u) = "quote"),
         At(o, Len(u) + 2) \in White \cup {"comma", "rbrace", "end"}
  PROVE  Closes(o, Len(u) + 1)
<1>1. Len(u) \in Nat
  OBVIOUS
<1>2. At(o, Len(u)) = LastOf(u)
  BY <1>1, SameAt DEF LastOf
<1>3. At(o, Len(u) - 1) = LastButOne(u)
  BY <1>1, SameAt DEF LastButOne
<1>4. /\ Len(u) + 1 - 1 = Len(u) /\ Len(u) + 1 - 2 = Len(u) - 1
      /\ Len(u) + 1 + 1 = Len(u) + 2
  BY <1>1
<1> QED BY <1>2, <1>3, <1>4 DEF Closes

\* No comma is missing where something other than white space comes first.
LEMMA NoneMissing ==
  ASSUME NEW o \in Seq(Letters), NEW j \in Nat, o[j] \notin White
  PROVE  ~LacksComma(o, j)
<1> SUFFICES ASSUME NEW l \in j + 1..Len(o), \A m \in j..l - 1 : o[m] \in White
             PROVE FALSE
  BY DEF LacksComma
<1>1. j \in j..l - 1
  OBVIOUS
<1> QED BY <1>1

\* Right behind a closed string the repair has what the text has.
LEMMA BehindString ==
  ASSUME NEW t \in Seq(Letters), NEW i \in 1..Len(t), Scanning(t)[i].at = "out"
  PROVE  At(Repair(t), Written(t, i) + 1) = At(t, i + 1)
<1> DEFINE o == Repair(t)  p == Written(t, i)
<1>1. i \in 0..Len(t)
  OBVIOUS
<1>2. p \in Nat /\ Len(o) \in Nat /\ Len(t) \in Nat /\ i \in 0..Len(t) /\ Written(t, Len(t)) = Len(o)
  BY <1>1, WrittenIs
<1>3. CASE i = Len(t)
  <2>1. p = Len(o) /\ p + 1 \notin 1..Len(o) /\ i + 1 \notin 1..Len(t)
    BY <1>2, <1>3
  <2> QED BY <2>1 DEF At
<1>4. CASE i # Len(t)
  <2>1. PICK j \in 1..Len(t) : j = i + 1 /\ j - 1 = i /\ j \in 0..Len(t)
    BY <1>2, <1>4
  <2>2. Written(t, j) = p + 1 /\ o[Written(t, j)] = t[j]
    BY <2>1, OutTurn
  <2>3. Written(t, j) <= Len(o)
    BY <2>1, RepairGoesOn DEF GoesOnFrom, Written
  <2>4. p + 1 \in 1..Len(o) /\ o[p + 1] = t[j]
    BY <1>2, <2>2, <2>3
  <2> QED BY <2>1, <2>4 DEF At
<1> QED BY <1>3, <1>4

\* Outside strings a step writes what it reads, and so does the scan of the repair.
LEMMA RepairStep ==
  ASSUME NEW t \in Seq(Letters), NEW i \in 1..Len(t),
         ComesBy(Repair(t), Scanning(t)[i - 1])
  PROVE  ComesBy(Repair(t), Scanning(t)[i])
<1> DEFINE o == Repair(t)
<1>1. PICK a \in ScanStates, b \in ScanStates :
        a = Scanning(t)[i - 1] /\ b = Scanning(t)[i] /\ ScanPuts(t, a, i, b) /\ GoesOnFrom(b.out, o)
  BY ScanTurns
<1>2. o \in Seq(Letters) /\ ComesBy(o, a) /\ i - 1 \in 0..Len(t) /\ i \in 0..Len(t)
  BY <1>1, WrittenIs
<1>3. EndsWell(t, i - 1, a)
  BY <1>1, <1>2, ScanEndsWell
<1>4. SUFFICES ComesBy(o, b)
  BY <1>1
<1>5. a.out \in Seq(Letters) /\ a.at \in {"out", "in", "pair"} /\ t[i] \in Letters /\ Len(a.out) \in Nat
  BY OutputIs
<1> DEFINE k == Len(a.out) + 1
<1>6. Len(b.out) = Written(t, i)
  BY <1>1 DEF Written
<1> HIDE DEF o
\* One character, where the scan of the repair has the same choice.
<1>7. CASE a.at = "out"
  <2>1. PICK p \in {"out", "in", "pair"} : /\ b = ScanState(p, Put(a.out, t[i]))
                                           /\ p = IF t[i] = "quote" THEN "in" ELSE "out"
    BY <1>1, <1>7 DEF ScanPuts
  <2>2. GoesOnFrom(Put(a.out, t[i]), o)
    BY <1>1, <2>1 DEF ScanState
  <2>3. OnlyGoesTo(o, a, t[i], ScanState(p, Put(a.out, t[i])))
    BY <1>7, <2>1 DEF ScanPuts, OnlyGoesTo
  <2> QED BY <1>2, <1>5, <2>1, <2>2, <2>3, ComesToNext
<1>8. CASE a.at = "pair"
  <2>1. b = ScanState("in", Put(a.out, t[i]))
    BY <1>1, <1>8 DEF ScanPuts
  <2>2. GoesOnFrom(Put(a.out, t[i]), o)
    BY <1>1, <2>1 DEF ScanState
  <2>3. OnlyGoesTo(o, a, t[i], ScanState("in", Put(a.out, t[i])))
    BY <1>8 DEF ScanPuts, OnlyGoesTo
  <2> QED BY <1>2, <1>5, <2>1, <2>2, <2>3, ComesToNext
<1>9. CASE a.at = "in" /\ t[i] \notin {"quote", "newline"}
  <2>1. PICK p \in {"out", "in", "pair"} : /\ b = ScanState(p, Put(a.out, t[i]))
                                           /\ p = IF t[i] = "backslash" THEN "pair" ELSE "in"
    BY <1>1, <1>9 DEF ScanPuts
  <2>2. GoesOnFrom(Put(a.out, t[i]), o)
    BY <1>1, <2>1 DEF ScanState
  <2>3. OnlyGoesTo(o, a, t[i], ScanState(p, Put(a.out, t[i])))
    BY <1>9, <2>1 DEF ScanPuts, OnlyGoesTo
  <2> QED BY <1>2, <1>5, <2>1, <2>2, <2>3, ComesToNext
<1>10. CASE a.at = "in" /\ t[i] = "quote" /\ ~Closes(t, i)
  <2> DEFINE u == Put(a.out, "backslash")  c == ScanState("pair", u)
  <2>1. b = ScanState("in", Put(u, "quote")) /\ b.out = Put(u, "quote")
    BY <1>1, <1>10 DEF ScanPuts, ScanState
  <2>2. u \in Seq(Letters)
    BY <1>5, LettersAre, PutIs
  <2>3. GoesOnFrom(Put(u, "quote"), o) /\ GoesOnFrom(u, o)
    BY <1>1, <1>2, <2>1, <2>2, LettersAre, PutStays
  <2>4. OnlyGoesTo(o, a, "backslash", c)
    BY <1>10 DEF ScanPuts, OnlyGoesTo
  <2>5. ComesBy(o, c)
    BY <1>2, <2>3, <2>4, LettersAre, ComesToNext
  <2>6. c.at = "pair" /\ c.out = u
    BY DEF ScanState
  <2> HIDE DEF u, c
  <2>7. OnlyGoesTo(o, c, "quote", ScanState("in", Put(c.out, "quote")))
    BY <2>6 DEF ScanPuts, OnlyGoesTo
  <2> QED BY <1>2, <2>1, <2>3, <2>5, <2>6, <2>7, LettersAre, ComesToNext
\* A string closes: the scan of the repair closes it, and where it put a comma or a
\* newline behind the quote, it finds no other comma missing.
<1>11. ASSUME a.at = "in", GoesOnFrom(Put(a.out, "quote"), o),
              At(o, k + 1) \in White \cup {"comma", "rbrace", "end"}, ~LacksComma(o, k + 1)
       PROVE  ComesBy(o, ScanState("out", Put(a.out, "quote")))
  <2>1. GoesOnFrom(a.out, o)
    BY <1>2, <1>5, <1>11, LettersAre, PutStays
  <2>2. ~(LastOf(a.out) = "quote" /\ LastButOne(a.out) = "quote")
    BY <1>3, <1>11 DEF EndsWell
  <2>3. k + 1 = Len(a.out) + 2
    BY <1>5
  <2>4. Closes(o, k)
    BY <1>2, <1>5, <1>11, <2>1, <2>2, <2>3, ClosesAgain
  <2>5. OnlyGoesTo(o, a, "quote", ScanState("out", Put(a.out, "quote")))
    BY <1>11, <2>4 DEF ScanPuts, OnlyGoesTo
  <2> QED BY <1>2, <1>11, <2>5, LettersAre, ComesToNext
<1>12. ASSUME NEW u \in Seq(Letters), ComesBy(o, ScanState("out", u)), NEW x \in Letters, x # "quote",
              GoesOnFrom(Put(u, x), o)
       PROVE  ComesBy(o, ScanState("out", Put(u, x)))
  <2>1. ScanState("out", u).at = "out" /\ ScanState("out", u).out = u
    BY DEF ScanState
  <2>2. PICK c : c = ScanState("out", u)
    OBVIOUS
  <2>3. OnlyGoesTo(o, c, x, ScanState("out", Put(c.out, x)))
    BY <1>12, <2>1, <2>2 DEF ScanPuts, OnlyGoesTo
  <2>4. ComesBy(o, c) /\ GoesOnFrom(Put(c.out, x), o)
    BY <1>12, <2>1, <2>2
  <2>5. ComesBy(o, ScanState("out", Put(c.out, x)))
    BY <1>2, <2>3, <2>4, ComesToNext
  <2> QED BY <2>1, <2>2, <2>5
<1>13. Put(a.out, "quote") \in Seq(Letters) /\ Len(Put(a.out, "quote")) = k
  <2>1. \A x \in Letters : Put(a.out, x) \in Seq(Letters)
    BY <1>5, PutIs
  <2>2. \A x \in Letters : Len(Put(a.out, x)) = Len(a.out) + 1
    BY <1>5, PutLast
  <2> QED BY <2>1, <2>2, LettersAre
\* What the repair has behind the quote.
<1>14. ASSUME NEW u \in Seq(Letters), Len(u) = k, NEW x \in Letters, GoesOnFrom(Put(u, x), o)
       PROVE  /\ o[k + 1] = x /\ At(o, k + 1) = x /\ k + 1 \in Nat /\ GoesOnFrom(u, o)
              /\ Len(Put(u, x)) = k + 1
              /\ x \notin White => ~LacksComma(o, k + 1)
  <2>1. /\ o[Len(u) + 1] = x /\ Len(u) + 1 \in 1..Len(o) /\ GoesOnFrom(u, o) /\ Len(u) \in Nat
        /\ Len(Put(u, x)) = Len(u) + 1
    BY <1>2, <1>14, PutStays
  <2>2. At(o, Len(u) + 1) = x
    BY <2>1 DEF At
  <2>3. Len(u) + 1 \in Nat
    BY <2>1
  <2>4. x \notin White => ~LacksComma(o, Len(u) + 1)
    BY <1>2, <2>1, <2>3, NoneMissing
  <2> QED BY <1>14, <2>1, <2>2, <2>3, <2>4
<1>15. CASE a.at = "in" /\ t[i] = "quote" /\ Closes(t, i) /\ ~LacksComma(t, i + 1)
  <2>1. b = ScanState("out", Put(a.out, "quote")) /\ b.out = Put(a.out, "quote") /\ b.at = "out"
    BY <1>1, <1>15 DEF ScanPuts, ScanState
  <2>2. GoesOnFrom(Put(a.out, "quote"), o) /\ Written(t, i) = k /\ Scanning(t)[i].at = "out"
    BY <1>1, <1>6, <1>13, <2>1
  <2>3. At(o, k + 1) \in White \cup {"comma", "rbrace", "end"}
    BY <1>15, <2>2, BehindString DEF Closes, o
  <2>4. ~LacksComma(o, k + 1)
    BY <1>2, <1>15, <2>2, LacksForBoth DEF o
  <2> QED BY <1>11, <1>15, <2>1, <2>2, <2>3, <2>4
<1>16. CASE a.at = "in" /\ t[i] = "quote" /\ Closes(t, i) /\ LacksComma(t, i + 1)
  <2> DEFINE u == Put(a.out, "quote")
  <2>1. b = ScanState("out", Put(u, "comma")) /\ b.out = Put(u, "comma")
    BY <1>1, <1>16 DEF ScanPuts, ScanState
  <2>2. u \in Seq(Letters) /\ Len(u) = k
    BY <1>13
  <2>3. PICK x \in Letters : x = "comma" /\ x \notin White /\ GoesOnFrom(Put(u, x), o)
    BY <1>1, <2>1, LettersAre DEF White
  <2>4. GoesOnFrom(u, o) /\ At(o, k + 1) = "comma" /\ ~LacksComma(o, k + 1)
    BY <1>14, <2>2, <2>3
  <2>5. ComesBy(o, ScanState("out", u))
    BY <1>11, <1>16, <2>4
  <2> HIDE DEF u
  <2> QED BY <1>1, <1>12, <2>1, <2>2, <2>5, LettersAre
<1>17. CASE a.at = "in" /\ t[i] = "newline" /\ ~LacksComma(t, i)
  <2> DEFINE u == Put(a.out, "quote")
  <2>1. b = ScanState("out", Put(u, "newline")) /\ b.out = Put(u, "newline") /\ b.at = "out"
    BY <1>1, <1>17 DEF ScanPuts, ScanState
  <2>2. u \in Seq(Letters) /\ Len(u) = k
    BY <1>13
  <2>3. PICK x \in Letters : x = "newline" /\ GoesOnFrom(Put(u, x), o)
    BY <1>1, <2>1, LettersAre
  <2>4. /\ o[k + 1] = "newline" /\ At(o, k + 1) = "newline" /\ GoesOnFrom(u, o)
        /\ Len(Put(u, "newline")) = k + 1
    BY <1>14, <2>2, <2>3
  <2>5. Written(t, i) = k + 1 /\ k + 1 > 0 /\ Scanning(t)[i].at = "out"
    BY <1>1, <1>5, <1>6, <2>1, <2>4
  <2>6. ~LacksComma(o, k + 1)
    <3>1. /\ Scanning(t)[i].at = "out" /\ o[Written(t, i)] = t[i] /\ i > 0 /\ Written(t, i) > 0
          /\ Written(t, i) + 0 = k + 1 /\ i + 0 = i
      BY <1>5, <1>17, <2>4, <2>5
    <3>2. LacksComma(o, Written(t, i) + 0) => LacksComma(t, i + 0)
      BY <1>2, <3>1, LacksForBoth DEF o
    <3> QED BY <1>17, <3>1, <3>2
  <2>7. ComesBy(o, ScanState("out", u))
    BY <1>11, <1>17, <2>4, <2>6 DEF White
  <2> HIDE DEF u
  <2> QED BY <1>1, <1>12, <2>1, <2>2, <2>7, LettersAre
<1>18. CASE a.at = "in" /\ t[i] = "newline" /\ LacksComma(t, i)
  <2> DEFINE u == Put(a.out, "quote")  v == Put(u, "comma")
  <2>1. b = ScanState("out", Put(v, "newline")) /\ b.out = Put(v, "newline")
    BY <1>1, <1>18 DEF ScanPuts, ScanState
  <2>2. u \in Seq(Letters) /\ Len(u) = k
    BY <1>13
  <2>3. v \in Seq(Letters)
    BY <2>2, LettersAre, PutIs
  <2>4. GoesOnFrom(v, o)
    BY <1>1, <1>2, <2>1, <2>3, LettersAre, PutStays
  <2>5. PICK x \in Letters : x = "comma" /\ x \notin White /\ GoesOnFrom(Put(u, x), o)
    BY <2>4, LettersAre DEF White
  <2>6. GoesOnFrom(u, o) /\ At(o, k + 1) = "comma" /\ ~LacksComma(o, k + 1)
    BY <1>14, <2>2, <2>5
  <2>7. ComesBy(o, ScanState("out", u))
    BY <1>11, <1>18, <2>6
  <2> HIDE DEF u
  <2>8. ComesBy(o, ScanState("out", v))
    BY <1>12, <2>2, <2>4, <2>7, LettersAre
  <2> HIDE DEF v
  <2> QED BY <1>1, <1>12, <2>1, <2>3, <2>8, LettersAre
<1> QED BY <1>5, <1>7, <1>8, <1>9, <1>10, <1>15, <1>16, <1>17, <1>18

LEMMA RepairedIsFinal ==
  ASSUME NEW t \in Seq(Letters)
  PROVE  Repair(Repair(t)) = Repair(t)
<1> DEFINE o == Repair(t)
           T == {i \in 0..Len(t) : ComesBy(o, Scanning(t)[i])}
<1>1. o \in Seq(Letters) /\ Len(t) \in Nat /\ Len(t) \in 0..Len(t)
  BY WrittenIs
<1>2. 0 \in T
  <2>1. Scanning(t)[0] = [at |-> "out", out |-> <<>>] /\ Scanning(t)[0] \in ScanStates
    BY <1>1, ScanningGoesOn
  <2>2. Scanning(o)[0] = [at |-> "out", out |-> <<>>]
    BY <1>1, ScanningGoesOn
  <2>3. GoesOnFrom(<<>>, o)
    BY <1>1 DEF GoesOnFrom
  <2> QED BY <1>1, <2>1, <2>2, <2>3 DEF ComesBy
<1>3. ASSUME NEW i \in 1..Len(t), i - 1 \in T  PROVE i \in T
  BY <1>3, RepairStep
<1>4. Len(t) \in T
  <2> HIDE DEF T
  <2>1. \A i \in 0..Len(t) : i \in T
    BY <1>1, <1>2, <1>3, Climbs
  <2> QED BY <1>1, <2>1
<1>5. Scanning(o)[Len(o)].out = o
  BY <1>4 DEF ComesBy, Repair
<1> QED BY <1>5 DEF Repair

\* A reply's text is a text, and stays the one it is.
ReplyInv == replyText \in Seq(Letters)

LEMMA ReplyInvInit == ReplyInit => ReplyInv
<1> SUFFICES ASSUME ReplyInit  PROVE ReplyInv
  OBVIOUS
<1>1. PICK n \in 0..ReplyLength : replyText \in [1..n -> Letters]
  BY DEF ReplyInit
<1>2. n \in Nat
  BY ReplyLengthAssumption
<1> QED BY <1>1, <1>2 DEF ReplyInv

\* JSON that needs no repair is not touched, and a repair needs none
\* (_repair_unescaped_quotes of planner.py), for texts of any length.
THEOREM RepliesAreKept == ReplySpec => [](ValidIsUnchanged /\ RepairIsFinal)
<1>1. ReplyInv /\ [ReadReply]_replyVars => ReplyInv'
  BY DEF ReplyInv, ReadReply, replyVars
<1>2. ReplyInv => ValidIsUnchanged /\ RepairIsFinal
  BY LoadedIsUnchanged, RepairedIsFinal DEF ReplyInv, ValidIsUnchanged, RepairIsFinal
<1> QED BY <1>1, <1>2, ReplyInvInit, PTL DEF ReplySpec

(* The parts together *)

\* Side by side, each part does what it does alone.
LEMMA EdgesAreParts ==
  EdgeSpec => /\ EditorSpec /\ ScheduleSpec /\ RemoteSpec /\ StackSpec /\ TerminalSpec
              /\ StreamSpec /\ WireSpec /\ PlanningSpec /\ ReplySpec
<1>1. EdgeInit => /\ EditorInit /\ ScheduleInit /\ RemoteInit /\ StackInit /\ TerminalInit
                  /\ StreamInit /\ WireInit /\ PlanningInit /\ ReplyInit
  BY DEF EdgeInit, StackRests, StreamRests, WireRests, PlanningRests,
         ReplyRests
<1>2. [EdgeNext]_edgeVars => /\ [EditorNext]_editorVars /\ [ScheduleNext]_scheduleVars
                             /\ [RemoteNext]_remoteVars /\ [StackNext]_stackVars
                             /\ [TerminalNext]_terminalVars
                             /\ [StreamNext]_streamVars /\ [WireNext]_wireVars
                             /\ [PlanningNext]_planningVars /\ [ReadReply]_replyVars
  BY DEF EdgeNext, edgeVars, Only
<1> QED BY <1>1, <1>2, PTL DEF EdgeSpec, EditorSpec, ScheduleSpec, RemoteSpec, StackSpec, TerminalSpec,
                              StreamSpec, WireSpec, PlanningSpec, ReplySpec

\* Shells keep their own descriptors and no others (api/terminal.py), and `bucker dev`
\* serves on what it started and leaves nothing of it behind (dev.py, setup.py).
THEOREM ProcessesKept == EdgeSpec => []ProcessesAreKept
<1>1. DescriptorsAreSessions /\ StackIsKept => ProcessesAreKept
  BY DEF ProcessesAreKept
<1> QED BY <1>1, EdgesAreParts, DescriptorsAreOwned, StacksAreKept, PTL

\* No slot of a schedule runs twice (lite/scheduler.py), a scheduled run leaves no more tasks
\* than its registration has tries (workflows/scheduled_task_workflow.py), and the slots are
\* the instants at which the expression fires (core/cron.py).
THEOREM FiringsSound == EdgeSpec => []FiringsAreSound
<1>1. SlotRunsOnce /\ ScheduledTasksBounded /\ NextFireIsFirst => FiringsAreSound
  BY DEF FiringsAreSound
<1> QED BY <1>1, EdgesAreParts, SlotsRunOnce, ScheduledTasksAreFew, NextFiresAreFirst, PTL

\* What StreamsAreHonest says of a streamed request, for the behaviours of the whole.
THEOREM EdgeStreamsAreHonest == EdgeSpec => []StreamIsHonest
BY EdgesAreParts, StreamsAreHonest, PTL

\* And what PlansAreKept says of a plan.
THEOREM EdgePlansAreKept == EdgeSpec => []PlansAreRight
BY EdgesAreParts, PlansAreKept, PTL

\* And what RepliesAreKept says of a model's text, with the calls that come in one
\* (CallsAreWhole).
THEOREM TextsKept == EdgeSpec => []TextsAreKept
<1>1. (ValidIsUnchanged /\ RepairIsFinal) /\ CallsArriveWhole => TextsAreKept
  BY DEF TextsAreKept
<1> QED BY <1>1, EdgesAreParts, RepliesAreKept, CallsAreWhole, PTL
=============================================================================
