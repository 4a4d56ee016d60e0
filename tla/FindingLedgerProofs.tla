------------------------ MODULE FindingLedgerProofs ------------------------
(***************************************************************************)
(* Theorems about FindingLedger, for every choice of severities, link      *)
(* types, resolutions and threshold that occur, and any number of events   *)
(* and rows.                                                               *)
(***************************************************************************)
EXTENDS FindingLedger, WellFoundedInduction, TLAPS

-----------------------------------------------------------------------------
(* ORDER BY id DESC LIMIT 1 and its like, over the rows of a finding.      *)

(* A set of events that is not empty has a first one.                      *)
LEMMA LeastExists ==
  ASSUME NEW es \in SUBSET Nat, es # {}
  PROVE  \E e \in es : \A d \in es : e <= d
<1> DEFINE Less == OpToRel(<, Nat)
<1>1. IsWellFoundedOn(Less, Nat)
  BY NatLessThanWellFounded, Zenon
<1>2. \A d, e \in Nat : <<d, e>> \in Less <=> d < e
  BY DEF OpToRel
<1>. HIDE DEF Less
<1>3. PICK e \in es : \A d \in es : ~(<<d, e>> \in Less)
  BY <1>1, WFMin
<1>4. \A d \in es : ~(d < e)
  BY <1>2, <1>3
<1>. QED BY <1>4

LEMMA EarliestIsFirst ==
  ASSUME NEW es \in SUBSET (Nat \ {0})
  PROVE  /\ Earliest(es) \in Nat
         /\ es = {} <=> Earliest(es) = NoEvent
         /\ es # {} => Earliest(es) \in es
         /\ \A d \in es : Earliest(es) <= d
<1>1. CASE es = {}
  BY <1>1 DEF Earliest, NoEvent
<1>2. CASE es # {}
  <2>1. \E e \in es : \A d \in es : e <= d
    BY <1>2, LeastExists
  <2>. QED BY <1>2, <2>1 DEF Earliest, NoEvent
<1>. QED BY <1>1, <1>2

LEMMA EarliestIs ==
  ASSUME NEW es \in SUBSET (Nat \ {0}), NEW e \in es, \A d \in es : e <= d
  PROVE  Earliest(es) = e
<1>1. Earliest(es) \in es
  BY EarliestIsFirst
<1>2. Earliest(es) <= e
  BY EarliestIsFirst
<1>3. e <= Earliest(es) /\ Earliest(es) \in Nat /\ e \in Nat
  BY <1>1
<1>. QED BY <1>2, <1>3

LEMMA LatestIsLast ==
  ASSUME NEW n \in Nat, NEW es \in SUBSET (1..n)
  PROVE  /\ Latest(es) \in 0..n
         /\ es = {} <=> Latest(es) = NoEvent
         /\ es # {} => Latest(es) \in es
         /\ \A d \in es : d <= Latest(es)
<1>1. CASE es = {}
  BY <1>1 DEF Latest, NoEvent
<1>2. CASE es # {}
  <2> DEFINE fromEnd == {k \in 0..n : n - k \in es}
  <2>1. PICK d \in es : TRUE
    BY <1>2
  <2>2. n - d \in 0..n /\ n - (n - d) = d
    OBVIOUS
  <2>3. fromEnd # {}
    BY <2>1, <2>2
  <2>4. fromEnd \in SUBSET Nat
    OBVIOUS
  <2>5. PICK k \in fromEnd : \A j \in fromEnd : k <= j
    <3>. HIDE DEF fromEnd
    <3>. QED BY <2>3, <2>4, LeastExists
  <2>6. \A e \in es : n - e \in fromEnd
    OBVIOUS
  <2>7. n - k \in es /\ \A e \in es : e <= n - k
    BY <2>5, <2>6
  <2>8. Latest(es) \in es /\ \A e \in es : e <= Latest(es)
    BY <1>2, <2>7 DEF Latest
  <2>9. Latest(es) \in 0..n /\ Latest(es) # 0
    <3>1. Latest(es) \in 1..n
      BY <2>8
    <3>. QED BY <3>1
  <2>. QED BY <1>2, <2>8, <2>9 DEF NoEvent
<1>. QED BY <1>1, <1>2

LEMMA LatestIs ==
  ASSUME NEW n \in Nat, NEW es \in SUBSET (1..n), NEW e \in es, \A d \in es : d <= e
  PROVE  Latest(es) = e
<1>1. Latest(es) \in es
  BY LatestIsLast
<1>2. e <= Latest(es)
  BY LatestIsLast
<1>3. Latest(es) <= e
  BY <1>1
<1>4. Latest(es) \in 1..n /\ e \in 1..n
  BY <1>1
<1>. QED BY <1>2, <1>3, <1>4

(* Severities are ordered by their rank, no two of the same.               *)
Grades == DOMAIN Rank \ {"none"}

LEMMA Ranks ==
  /\ Grades = {"low", "medium", "high", "critical"}
  /\ Rank["none"] = 0 /\ Rank["low"] = 10 /\ Rank["medium"] = 20
  /\ Rank["high"] = 30 /\ Rank["critical"] = 40
  /\ \A s \in Grades : Rank[s] \in Nat /\ Rank[s] > 0
  BY DEF Grades, Rank

LEMMA HighestIsHighest ==
  ASSUME NEW ss \in SUBSET Grades
  PROVE  /\ ss = {} <=> Highest(ss) = "none"
         /\ ss # {} => Highest(ss) \in ss
         /\ \A t \in ss : Rank[t] <= Rank[Highest(ss)]
         /\ Rank[Highest(ss)] \in Nat
<1>1. CASE ss = {}
  BY <1>1, Ranks DEF Highest
<1>2. CASE ss # {}
  <2>1. \E s \in ss : \A t \in ss : Rank[t] <= Rank[s]
    <3>1. ss \subseteq {"low", "medium", "high", "critical"}
      BY Ranks
    <3>2. CASE "critical" \in ss
      BY <3>1, <3>2, Ranks
    <3>3. CASE "critical" \notin ss /\ "high" \in ss
      BY <3>1, <3>3, Ranks
    <3>4. CASE "critical" \notin ss /\ "high" \notin ss /\ "medium" \in ss
      BY <3>1, <3>4, Ranks
    <3>5. CASE ss \subseteq {"low"}
      <4>1. ss = {"low"} /\ Rank["low"] \in Nat
        BY <1>2, <3>5, Ranks
      <4>. QED BY <4>1
    <3>. QED BY <3>1, <3>2, <3>3, <3>4, <3>5
  <2>2. Highest(ss) \in ss /\ \A t \in ss : Rank[t] <= Rank[Highest(ss)]
    BY <1>2, <2>1 DEF Highest
  <2>. QED BY <1>2, <2>2, Ranks
<1>. QED BY <1>1, <1>2

LEMMA HighestGrows ==
  ASSUME NEW ss \in SUBSET Grades, NEW tt \in SUBSET Grades, ss \subseteq tt
  PROVE  Rank[Highest(ss)] <= Rank[Highest(tt)]
<1>1. CASE ss = {}
  <2>1. Highest(ss) = "none" /\ Rank[Highest(tt)] \in Nat
    BY <1>1, HighestIsHighest
  <2>. QED BY <2>1, Ranks
<1>2. CASE ss # {}
  BY <1>2, HighestIsHighest
<1>. QED BY <1>1, <1>2

-----------------------------------------------------------------------------
(* The rows have their types and lie under an event of the run.            *)
LedgerTypeOK ==
  /\ inOrder \in BOOLEAN /\ now \in Nat \ {0} /\ created = 1
  /\ shown \in Grades \cup {"none"}
  /\ links \subseteq [event: Events, type: LinkTypes, severity: Severities]
  /\ resolutions \subseteq [event: Events, kind: ResolutionKinds]
  /\ overrides \subseteq [event: Events, old: Severities, new: Severities]

LEMMA RowsAreUnderEvents ==
  ASSUME LedgerTypeOK
  PROVE  /\ now \in Nat /\ 1 \in 1..now
         /\ Opens \in SUBSET (1..now) /\ Closes \in SUBSET (1..now)
         /\ \A l \in links : l.event \in 1..now /\ l.severity \in Grades
         /\ \A o \in overrides : o.event \in 1..now /\ o.new \in Grades /\ o.old \in Grades
         /\ \A r \in resolutions : r.event \in 1..now
<1>1. now \in Nat /\ 1 \in 1..now /\ created \in 1..now /\ Events = 1..now
  BY DEF LedgerTypeOK, Events
<1>2. Severities \subseteq Grades
  BY LedgerAssumption DEF LedgerAssumption, Grades
<1>3. \A l \in links : l.event \in 1..now /\ l.severity \in Grades
  BY <1>1, <1>2 DEF LedgerTypeOK
<1>4. \A o \in overrides : o.event \in 1..now /\ o.new \in Grades /\ o.old \in Grades
  BY <1>1, <1>2 DEF LedgerTypeOK
<1>5. \A r \in resolutions : r.event \in 1..now
  BY <1>1 DEF LedgerTypeOK
<1>6. Opens \in SUBSET (1..now) /\ Closes \in SUBSET (1..now)
  BY <1>1, <1>3, <1>5 DEF Opens, Closes, EventsOf
<1>. QED BY <1>1, <1>3, <1>4, <1>5, <1>6

(* The newest of some rows: there is one unless there is no row at all,    *)
(* and its event is that of the newest row.                                *)
Newest(rows) == {r \in rows : r.event = Latest(EventsOf(rows))}

LEMMA NewestIsLatest ==
  ASSUME NEW n \in Nat, NEW rows, \A r \in rows : r.event \in 1..n
  PROVE  /\ Newest(rows) = {} <=> rows = {}
         /\ Latest(EventsOf(Newest(rows))) = Latest(EventsOf(rows))
         /\ Latest(EventsOf(rows)) \in 0..n
         /\ \A r \in rows : r.event <= Latest(EventsOf(rows))
         /\ rows = {} <=> Latest(EventsOf(rows)) = NoEvent
<1>1. EventsOf(rows) \in SUBSET (1..n)
  BY DEF EventsOf
<1>2. rows = {} <=> EventsOf(rows) = {}
  BY DEF EventsOf
<1>3. /\ Latest(EventsOf(rows)) \in 0..n
      /\ EventsOf(rows) = {} <=> Latest(EventsOf(rows)) = NoEvent
      /\ EventsOf(rows) # {} => Latest(EventsOf(rows)) \in EventsOf(rows)
      /\ \A d \in EventsOf(rows) : d <= Latest(EventsOf(rows))
  BY <1>1, LatestIsLast
<1>4. \A r \in rows : r.event <= Latest(EventsOf(rows))
  BY <1>3 DEF EventsOf
<1>5. CASE rows = {}
  <2>1. Newest(rows) = rows
    BY <1>5 DEF Newest
  <2>. QED BY <1>2, <1>3, <1>4, <1>5, <2>1
<1>6. CASE rows # {}
  <2>1. Latest(EventsOf(rows)) \in EventsOf(rows)
    BY <1>2, <1>3, <1>6
  <2>2. Newest(rows) # {}
    BY <2>1 DEF Newest, EventsOf
  <2>3. EventsOf(Newest(rows)) = {Latest(EventsOf(rows))}
    BY <2>2 DEF Newest, EventsOf
  <2>4. Latest(EventsOf(Newest(rows))) = Latest(EventsOf(rows))
    BY <1>1, <2>1, <2>3, LatestIs
  <2>. QED BY <1>2, <1>3, <1>4, <1>6, <2>2, <2>4
<1>. QED BY <1>5, <1>6

-----------------------------------------------------------------------------
(* The ledger as it stood before event b, read as the views read it.       *)
StartBefore(b) ==
  Earliest({x \in Opens : x < b /\ x > Latest({c \in Closes : c < b})})
OverridesBefore(b) ==
  {o \in overrides : o.event < b /\ StartBefore(b) # NoEvent /\ o.event >= StartBefore(b)}
LastBefore(b) == Newest(OverridesBefore(b))
LinksBefore(b) ==
  {k \in CountedLinks : /\ k.event < b /\ InPeriod(k, StartBefore(b))
                        /\ AfterCut(k, Latest(EventsOf(LastBefore(b))))}
GradesBefore(b) == {l.severity : l \in LinksBefore(b)} \cup {o.new : o \in LastBefore(b)}
EscalationBefore(b) == Highest(GradesBefore(b))

(* The views read the ledger before the event to come.                     *)
LEMMA ViewIsBeforeNext ==
  ASSUME LedgerTypeOK
  PROVE  /\ ViewPeriod = StartBefore(now + 1)
         /\ ViewLastOverride = LastBefore(now + 1)
         /\ ViewEscalation = EscalationBefore(now + 1)
<1>1. /\ \A x \in Opens : x < now + 1
      /\ \A x \in Closes : x < now + 1
      /\ \A o \in overrides : o.event < now + 1
      /\ \A l \in links : l.event < now + 1
  BY RowsAreUnderEvents
<1>2. ViewPeriod = StartBefore(now + 1)
  <2>1. {c \in Closes : c < now + 1} = Closes
    BY <1>1
  <2>2. {x \in Opens : x < now + 1 /\ x > Latest(Closes)} = {e \in Opens : e > Latest(Closes)}
    BY <1>1
  <2>. QED BY <2>1, <2>2 DEF ViewPeriod, StartAmong, StartBefore
<1>3. ViewLastOverride = LastBefore(now + 1)
  <2> DEFINE inPeriod == {o \in overrides : ViewPeriod # NoEvent /\ o.event >= ViewPeriod}
  <2>1. inPeriod = OverridesBefore(now + 1)
    BY <1>1, <1>2 DEF OverridesBefore
  <2>2. ViewLastOverride = Newest(inPeriod)
    BY DEF ViewLastOverride, Newest
  <2>. QED BY <2>1, <2>2 DEF LastBefore
<1>4. ViewEscalation = EscalationBefore(now + 1)
  <2> DEFINE counts == {k \in CountedLinks : /\ InPeriod(k, ViewPeriod)
                                             /\ AfterCut(k, Latest(EventsOf(ViewLastOverride)))}
  <2>1. counts = LinksBefore(now + 1)
    BY <1>1, <1>2, <1>3 DEF LinksBefore, CountedLinks
  <2>2. ViewEscalation = Highest({l.severity : l \in counts} \cup {o.new : o \in ViewLastOverride})
    BY DEF ViewEscalation
  <2>. QED BY <1>3, <2>1, <2>2 DEF EscalationBefore, GradesBefore
<1>. QED BY <1>2, <1>3, <1>4

(* Facts of the period before b.                                           *)
LEMMA StartOpens ==
  ASSUME LedgerTypeOK, NEW b \in Nat
  PROVE  /\ StartBefore(b) \in 0..now
         /\ Latest({c \in Closes : c < b}) \in 0..now
         /\ \A c \in Closes : c < b => c <= Latest({d \in Closes : d < b})
         /\ StartBefore(b) # NoEvent =>
              StartBefore(b) \in Opens /\ StartBefore(b) < b
                /\ StartBefore(b) > Latest({c \in Closes : c < b})
         /\ \A x \in Opens : x < b /\ x > Latest({c \in Closes : c < b}) =>
              StartBefore(b) # NoEvent /\ StartBefore(b) <= x
<1> DEFINE closed == {c \in Closes : c < b}
           openings == {x \in Opens : x < b /\ x > Latest(closed)}
<1>1. closed \in SUBSET (1..now) /\ openings \in SUBSET (1..now) /\ now \in Nat
  BY RowsAreUnderEvents
<1>2. openings \in SUBSET (Nat \ {0})
  BY <1>1
<1>3. StartBefore(b) = Earliest(openings)
  BY DEF StartBefore
<1>4. Latest(closed) \in 0..now /\ \A c \in closed : c <= Latest(closed)
  BY <1>1, LatestIsLast
<1>5. /\ openings = {} <=> Earliest(openings) = NoEvent
      /\ openings # {} => Earliest(openings) \in openings
      /\ \A d \in openings : Earliest(openings) <= d
  BY <1>2, EarliestIsFirst
<1>6. Earliest(openings) \in 0..now
  <2>. HIDE DEF openings
  <2>1. CASE openings = {}
    BY <1>1, <1>5, <2>1 DEF NoEvent
  <2>2. CASE openings # {}
    <3>1. Earliest(openings) \in 1..now
      BY <1>1, <1>5, <2>2
    <3>. QED BY <1>1, <3>1
  <2>. QED BY <2>1, <2>2
<1>. QED BY <1>3, <1>4, <1>5, <1>6

(* The oracle puts an earlier row into the period that runs before b       *)
(* exactly when the view does, although it looks back from the row and the *)
(* view looks back from b: no closing lies between the two.                *)
LEMMA SamePeriodAsView ==
  ASSUME LedgerTypeOK, NEW b \in Nat, StartBefore(b) # NoEvent, NEW e \in 1..now, e < b
  PROVE  OraclePeriodAt(e) = StartBefore(b) <=> e >= StartBefore(b)
<1> DEFINE start == StartBefore(b)
           closedAt == {c \in Closes : c <= e}
           closed == {c \in Closes : c < b}
           openings == {o \in Opens : Latest(closedAt) < o /\ o <= e}
<1>1. /\ start \in Opens /\ start < b /\ start > Latest(closed)
      /\ \A x \in Opens : x < b /\ x > Latest(closed) => start <= x
      /\ \A c \in closed : c <= Latest(closed)
  BY StartOpens
<1>2. closedAt \in SUBSET (1..now) /\ closed \in SUBSET (1..now)
      /\ openings \in SUBSET (Nat \ {0}) /\ now \in Nat
      /\ Opens \in SUBSET (1..now) /\ Closes \in SUBSET (1..now)
  BY RowsAreUnderEvents
<1>3. OraclePeriodAt(e) = Earliest(openings)
  BY DEF OraclePeriodAt
<1>4. Latest(closedAt) \in 0..now /\ Latest(closed) \in 0..now
  BY <1>2, LatestIsLast
<1>5. start \in 1..now
  BY <1>1, <1>2
<1>6. ASSUME e >= start
      PROVE  OraclePeriodAt(e) = start
  <2>1. closedAt = closed
    <3>1. \A c \in closed : c <= e
      BY <1>1, <1>2, <1>4, <1>5, <1>6
    <3>2. \A c \in closedAt : c < b
      BY <1>2
    <3>. QED BY <3>1, <3>2
  <2>2. start \in openings
    BY <1>1, <1>6, <2>1
  <2>3. \A x \in openings : start <= x
    <3>1. \A x \in openings : x \in Opens /\ x < b /\ x > Latest(closed)
      BY <1>2, <1>4, <2>1
    <3>. QED BY <1>1, <3>1
  <2>. HIDE DEF openings, start
  <2>. QED BY <1>2, <1>3, <2>2, <2>3, EarliestIs
<1>7. ASSUME OraclePeriodAt(e) = start
      PROVE  e >= start
  <2>1. Earliest(openings) # NoEvent
    BY <1>3, <1>7
  <2>2. Earliest(openings) \in openings
    <3>. HIDE DEF openings
    <3>. QED BY <1>2, <2>1, EarliestIsFirst
  <2>3. start \in openings
    BY <1>3, <1>7, <2>2
  <2>. QED BY <2>3, <1>2
<1>. QED BY <1>6, <1>7

LEMMA GradesAreGrades ==
  ASSUME LedgerTypeOK, NEW b \in Nat
  PROVE  GradesBefore(b) \in SUBSET Grades
  BY RowsAreUnderEvents
     DEF GradesBefore, LinksBefore, LastBefore, Newest, OverridesBefore, CountedLinks

(* Nothing counts outside a period.                                        *)
LEMMA NothingWithoutPeriod ==
  ASSUME NEW b, StartBefore(b) = NoEvent
  PROVE  EscalationBefore(b) = "none"
<1>1. OverridesBefore(b) = {} /\ LinksBefore(b) = {}
  BY DEF OverridesBefore, LinksBefore, InPeriod
<1>2. GradesBefore(b) = {}
  BY <1>1 DEF GradesBefore, LastBefore, Newest
<1>. QED BY <1>2 DEF EscalationBefore, Highest

(* The view excludes the links up to the last override, the oracle starts  *)
(* after it: the same links count.                                         *)
CountsFrom(b) ==
  IF LastBefore(b) = {} THEN StartBefore(b) ELSE Latest(EventsOf(LastBefore(b))) + 1

LEMMA CutIsFrom ==
  ASSUME LedgerTypeOK, NEW b \in Nat, StartBefore(b) # NoEvent
  PROVE  LinksBefore(b) = {k \in CountedLinks : CountsFrom(b) <= k.event /\ k.event < b}
<1> DEFINE rows == OverridesBefore(b)
           cut == Latest(EventsOf(LastBefore(b)))
           start == StartBefore(b)
<1>1. \A o \in rows : o.event \in 1..now /\ o.event >= start
  BY RowsAreUnderEvents DEF OverridesBefore
<1>2. /\ LastBefore(b) = {} <=> rows = {}
      /\ cut \in 0..now
      /\ \A r \in rows : r.event <= cut
      /\ rows = {} <=> cut = NoEvent
  <2>1. now \in Nat
    BY RowsAreUnderEvents
  <2>. HIDE DEF rows
  <2>2. /\ Newest(rows) = {} <=> rows = {}
        /\ Latest(EventsOf(Newest(rows))) = Latest(EventsOf(rows))
        /\ Latest(EventsOf(rows)) \in 0..now
        /\ \A r \in rows : r.event <= Latest(EventsOf(rows))
        /\ rows = {} <=> Latest(EventsOf(rows)) = NoEvent
    BY <1>1, <2>1, NewestIsLatest
  <2>3. LastBefore(b) = Newest(rows)
    BY DEF LastBefore, rows
  <2>. QED BY <2>2, <2>3
<1>3. start \in 1..now /\ now \in Nat
  BY StartOpens, RowsAreUnderEvents DEF NoEvent
<1>4. \A k \in CountedLinks : k.event \in 1..now
  BY RowsAreUnderEvents DEF CountedLinks
<1>5. LinksBefore(b) = {k \in CountedLinks : k.event < b /\ k.event >= start /\ k.event > cut}
  BY DEF LinksBefore, InPeriod, AfterCut
<1>6. CASE rows = {}
  <2>1. CountsFrom(b) = start /\ cut = 0
    BY <1>2, <1>6 DEF CountsFrom, NoEvent
  <2>2. \A k \in CountedLinks : k.event > cut
    BY <1>4, <2>1
  <2>. QED BY <1>3, <1>4, <1>5, <2>1, <2>2
<1>7. CASE rows # {}
  <2>1. CountsFrom(b) = cut + 1
    BY <1>2, <1>7 DEF CountsFrom
  <2>2. start <= cut
    <3>1. PICK o \in rows : TRUE
      BY <1>7
    <3>2. start <= o.event /\ o.event <= cut /\ o.event \in 1..now
      BY <1>1, <1>2
    <3>. QED BY <1>2, <1>3, <3>2
  <2>. HIDE DEF cut, start, rows
  <2>3. \A k \in CountedLinks : (k.event >= start /\ k.event > cut) <=> cut + 1 <= k.event
    BY <1>2, <1>3, <1>4, <2>2
  <2>. QED BY <1>5, <2>1, <2>3
<1>. QED BY <1>6, <1>7

(* Nothing is assumed here of the order in which rows were written, or of  *)
(* what the oracle accepts: the two derivations agree on any rows that the *)
(* schema admits.                                                          *)
LEMMA OracleReadsAsView ==
  ASSUME LedgerTypeOK
  PROVE  OraclePeriod = ViewPeriod /\ OracleEscalation = ViewEscalation
<1> DEFINE b == now + 1
           last == {o \in InCurrentPeriod : o.event = Latest(EventsOf(InCurrentPeriod))}
           from == IF last = {} THEN OraclePeriod ELSE Latest(EventsOf(last)) + 1
<1>1. OraclePeriod = ViewPeriod
  BY DEF OraclePeriod, ViewPeriod, StartAmong
<1>2. /\ OraclePeriod = StartBefore(b) /\ ViewEscalation = EscalationBefore(b)
      /\ b \in Nat /\ now \in Nat
  BY <1>1, ViewIsBeforeNext, RowsAreUnderEvents
<1>3. OracleEscalation =
        IF OraclePeriod = NoEvent THEN "none"
        ELSE Highest({l.severity : l \in {k \in CountedLinks : k.event >= from}}
                     \cup {o.new : o \in last})
  BY DEF OracleEscalation
<1>4. CASE OraclePeriod = NoEvent
  <2>1. OracleEscalation = "none"
    BY <1>3, <1>4
  <2>2. StartBefore(b) = NoEvent
    BY <1>2, <1>4
  <2>. QED BY <1>1, <1>2, <2>1, <2>2, NothingWithoutPeriod
<1>5. CASE OraclePeriod # NoEvent
  <2>1. StartBefore(b) # NoEvent
    BY <1>2, <1>5
  <2>2. \A o \in overrides : o.event \in 1..now /\ o.event < b
    BY RowsAreUnderEvents
  <2>3. \A o \in overrides : OraclePeriodAt(o.event) = OraclePeriod <=> o.event >= StartBefore(b)
    <3>. HIDE DEF b
    <3>. QED BY <1>2, <2>1, <2>2, SamePeriodAsView
  <2>4. InCurrentPeriod = OverridesBefore(b)
    BY <1>5, <2>1, <2>2, <2>3 DEF InCurrentPeriod, InSomePeriod, OverridesBefore
  <2>5. last = LastBefore(b)
    BY <2>4 DEF LastBefore, Newest
  <2>6. from = CountsFrom(b)
    BY <1>2, <2>5 DEF CountsFrom
  <2>7. {k \in CountedLinks : k.event >= from} = LinksBefore(b)
    <3>1. LinksBefore(b) = {k \in CountedLinks : CountsFrom(b) <= k.event /\ k.event < b}
      BY <1>2, <2>1, CutIsFrom
    <3>2. \A k \in CountedLinks : k.event < b
      BY RowsAreUnderEvents DEF CountedLinks
    <3>3. \A k \in CountedLinks : k.event >= from <=> CountsFrom(b) <= k.event
      BY <2>6
    <3>. QED BY <3>1, <3>2, <3>3
  <2>8. OracleEscalation =
          Highest({l.severity : l \in {k \in CountedLinks : k.event >= from}}
                  \cup {o.new : o \in last})
    BY <1>3, <1>5
  <2>. HIDE DEF from, last, b
  <2>. QED BY <1>1, <1>2, <2>5, <2>7, <2>8 DEF EscalationBefore, GradesBefore
<1>. QED BY <1>1, <1>4, <1>5

-----------------------------------------------------------------------------
(* The oracle recomputes what an override should have found: nothing, when *)
(* the period begins with the event of the override, and else what the     *)
(* view showed before that event.  An event that opens and closes is what  *)
(* the two would read differently.                                         *)
LEMMA ExpectedIsWhatWasShown ==
  ASSUME LedgerTypeOK, OpensAndCloses = {}, NEW o \in InSomePeriod
  PROVE  ExpectedOld(o) \in {"none", EscalationBefore(o.event)}
<1>0. PICK b : b = o.event
  OBVIOUS
<1> DEFINE period == OraclePeriodAt(b)
           closedAt == {c \in Closes : c <= b}
           closed == {c \in Closes : c < b}
           openings == {x \in Opens : Latest(closedAt) < x /\ x <= b}
           from == IF Previous(o) = {} THEN period ELSE Latest(EventsOf(Previous(o))) + 1
           counts == {k \in CountedLinks : from <= k.event /\ k.event < b}
           earlier == {p \in SamePeriod(o) : p.event < b}
<1>1. /\ o \in overrides /\ b \in 1..now /\ b \in Nat /\ now \in Nat
      /\ Opens \in SUBSET (1..now) /\ Closes \in SUBSET (1..now)
      /\ \A p \in overrides : p.event \in 1..now
  BY <1>0, RowsAreUnderEvents DEF InSomePeriod
<1>2. ExpectedOld(o) = Highest({l.severity : l \in counts} \cup {p.new : p \in Previous(o)})
  BY <1>0 DEF ExpectedOld
<1>3. Previous(o) = Newest(earlier)
  BY <1>0 DEF Previous, Newest
<1>4. period = Earliest(openings) /\ period # NoEvent
  BY <1>0 DEF OraclePeriodAt, InSomePeriod
<1>5. openings \in SUBSET (Nat \ {0}) /\ closedAt \in SUBSET (1..now)
  <2>1. openings \subseteq Opens /\ closedAt \subseteq Closes
    OBVIOUS
  <2>. HIDE DEF openings, closedAt
  <2>. QED BY <1>1, <2>1
<1>6. /\ period \in openings /\ \A x \in openings : period <= x
  <2>. HIDE DEF openings, period
  <2>. QED BY <1>4, <1>5, EarliestIsFirst
<1>7. closedAt = closed
  <2>1. b \notin Closes
    <3>1. SUFFICES ASSUME b \in Closes PROVE FALSE
      OBVIOUS
    <3>2. Latest(closedAt) = b
      <4>1. b \in closedAt /\ \A c \in closedAt : c <= b
        BY <1>1, <3>1
      <4>. HIDE DEF closedAt
      <4>. QED BY <1>1, <1>5, <4>1, LatestIs
    <3>3. period \in Opens /\ b < period /\ period <= b
      <4>. HIDE DEF period, closedAt
      <4>. QED BY <1>6, <3>2
    <3>. HIDE DEF period
    <3>. QED BY <1>1, <3>3
  <2>2. \A c \in Closes : c <= b <=> c < b
    BY <1>1, <2>1
  <2>. QED BY <2>2
<1>8. CASE StartBefore(b) = NoEvent
  <2>1. period >= b
    <3>0. period \in Opens
      <4>. HIDE DEF period
      <4>. QED BY <1>6
    <3>1. SUFFICES ASSUME period < b PROVE FALSE
      <4>. HIDE DEF period
      <4>. QED BY <1>1, <3>0
    <3>2. period \in Opens /\ Latest(closed) < period
      <4>. HIDE DEF period, closedAt, closed
      <4>. QED BY <1>6, <1>7
    <3>. HIDE DEF period
    <3>. QED BY <1>1, <1>8, <3>1, <3>2, StartOpens
  <2>2. earlier = {}
    <3>1. SUFFICES ASSUME NEW p \in earlier PROVE FALSE
      OBVIOUS
    <3>2. p \in overrides /\ p.event < b /\ OraclePeriodAt(p.event) = period
      BY <1>0 DEF SamePeriod, InSomePeriod
    <3> DEFINE before == {x \in Opens : Latest({c \in Closes : c <= p.event}) < x /\ x <= p.event}
    <3>3. before \in SUBSET (Nat \ {0})
      <4>1. before \subseteq Opens
        OBVIOUS
      <4>. HIDE DEF before
      <4>. QED BY <1>1, <4>1
    <3>7. Earliest(before) = period
      BY <3>2 DEF OraclePeriodAt
    <3>4. period \in before
      <4>. HIDE DEF before, period
      <4>. QED BY <1>4, <3>3, <3>7, EarliestIsFirst
    <3>5. period <= p.event /\ p.event \in 1..now /\ period \in 1..now
      BY <1>1, <3>2, <3>4
    <3>. QED BY <1>1, <2>1, <3>2, <3>5
  <2>3. Previous(o) = {}
    BY <1>3, <2>2 DEF Newest
  <2>4. counts = {}
    <3>1. from = period
      BY <2>3
    <3>2. \A k \in CountedLinks : k.event \in 1..now
      BY RowsAreUnderEvents DEF CountedLinks
    <3>3. period \in 1..now
      BY <1>1, <1>6
    <3>. QED BY <1>1, <2>1, <3>1, <3>2, <3>3
  <2>5. ExpectedOld(o) = "none"
    <3>. HIDE DEF counts
    <3>. QED BY <1>2, <2>3, <2>4 DEF Highest
  <2>. QED BY <1>0, <2>5
<1>9. CASE StartBefore(b) # NoEvent
  <2> DEFINE start == StartBefore(b)
  <2>1. /\ start \in Opens /\ start < b /\ start > Latest(closed)
        /\ \A x \in Opens : x < b /\ x > Latest(closed) => start <= x
    BY <1>1, <1>9, StartOpens
  <2>2. period = start
    <3>1. start \in openings
      <4>1. Latest(closedAt) < start /\ start <= b
        <5>1. start \in 1..now /\ Latest(closed) \in 0..now
          BY <1>1, <2>1, StartOpens
        <5>. HIDE DEF start, closed, closedAt
        <5>. QED BY <1>1, <1>7, <2>1, <5>1
      <4>. HIDE DEF start, closedAt
      <4>. QED BY <2>1, <4>1
    <3>2. \A x \in openings : start <= x
      <4>1. ASSUME NEW x \in openings
            PROVE  start <= x
        <5>0. x \in Opens /\ x <= b /\ start \in Opens
          BY <2>1
        <5>1. x \in Opens /\ x <= b /\ x \in Nat /\ start \in Nat
          <6>. HIDE DEF start
          <6>. QED BY <1>1, <5>0
        <5>2. x > Latest(closed)
          BY <1>1, <1>5, <1>7, LatestIsLast
        <5>3. CASE x < b
          BY <2>1, <5>1, <5>2, <5>3
        <5>4. CASE x = b
          BY <1>1, <2>1, <5>1, <5>4
        <5>. QED BY <1>1, <5>1, <5>3, <5>4
      <4>. QED BY <4>1
    <3>. HIDE DEF openings, start, period
    <3>. QED BY <1>4, <1>5, <3>1, <3>2, EarliestIs
  <2>3. \A p \in overrides : p.event < b =>
          (OraclePeriodAt(p.event) = start <=> p.event >= start)
    BY <1>1, <1>9, SamePeriodAsView
  <2>4. earlier = OverridesBefore(b)
    BY <1>0, <1>4, <1>9, <2>2, <2>3 DEF SamePeriod, InSomePeriod, OverridesBefore
  <2>5. Previous(o) = LastBefore(b)
    BY <1>3, <2>4 DEF LastBefore
  <2>6. from = CountsFrom(b)
    BY <2>2, <2>5 DEF CountsFrom
  <2>7. counts = LinksBefore(b)
    BY <1>1, <1>9, <2>6, CutIsFrom
  <2>8. ExpectedOld(o) = EscalationBefore(b)
    <3>. HIDE DEF counts
    <3>. QED BY <1>2, <2>5, <2>7 DEF EscalationBefore, GradesBefore
  <2>. QED BY <1>0, <2>8
<1>. QED BY <1>0, <1>8, <1>9

-----------------------------------------------------------------------------
(* The inductive invariant.  Of a writer in order: what it was shown is    *)
(* what the ledger said before the event it writes under, each override    *)
(* states what the ledger said before its own event, or had nothing to     *)
(* state, and the finding has the link it was created with.                *)
ShownIsBefore == inOrder => shown = EscalationBefore(now)
OverridesStateWhatWas ==
  inOrder => \A o \in overrides : EscalationBefore(o.event) \in {"none", o.old}
FirstObserved == inOrder => \E l \in links : l.event = created /\ l.type = "first_seen"

LedgerInv == LedgerTypeOK /\ ShownIsBefore /\ OverridesStateWhatWas /\ FirstObserved

(* Every step appends an event or one row, under an event of the run and,  *)
(* in order, under the newest.                                             *)
NewLink(l) ==
  /\ l \in [event: Events, type: LinkTypes, severity: Severities]
  /\ inOrder => l.event = now
  /\ links' = links \cup {l}
  /\ UNCHANGED <<inOrder, now, shown, created, resolutions, overrides>>
NewResolution(r) ==
  /\ r \in [event: Events, kind: ResolutionKinds]
  /\ inOrder => r.event = now
  /\ resolutions' = resolutions \cup {r}
  /\ UNCHANGED <<inOrder, now, shown, created, links, overrides>>
NewOverride(o) ==
  /\ o \in [event: Events, old: Severities, new: Severities]
  /\ inOrder => o.event = now /\ (shown # "none" => o.old = shown)
  /\ overrides' = overrides \cup {o}
  /\ UNCHANGED <<inOrder, now, shown, created, links, resolutions>>
NewEvent ==
  /\ now' = now + 1 /\ shown' = ViewEscalation
  /\ UNCHANGED <<inOrder, created, links, resolutions, overrides>>

LEMMA StepAppends ==
  ASSUME LedgerTypeOK, [LedgerNext]_ledgerVars
  PROVE  \/ UNCHANGED ledgerVars
         \/ NewEvent
         \/ \E l : NewLink(l)
         \/ \E r : NewResolution(r)
         \/ \E o : NewOverride(o)
<1>1. CASE AppendEvent
  BY <1>1 DEF AppendEvent, NewEvent
<1>2. ASSUME NEW e \in Events, NEW type \in Types, NEW s \in Severities,
             CreateObservationLink(e, type, s)
      PROVE  NewLink([event |-> e, type |-> type, severity |-> s])
  <2>1. type \in LinkTypes
    BY LedgerAssumption DEF LedgerAssumption
  <2>. QED BY <1>2, <2>1 DEF CreateObservationLink, NewLink, Writable
<1>3. ASSUME NEW e \in Events, NEW kind \in ResolutionKinds, CreateResolution(e, kind)
      PROVE  NewResolution([event |-> e, kind |-> kind])
  BY <1>3 DEF CreateResolution, NewResolution, Writable
<1>4. ASSUME NEW e \in Events, NEW old \in Severities, NEW new \in Severities,
             CreateSeverityOverride(e, old, new)
      PROVE  NewOverride([event |-> e, old |-> old, new |-> new])
  BY <1>4 DEF CreateSeverityOverride, NewOverride, Writable
<1>5. CASE ClosePolicy
  <2>1. now \in Events /\ "policy_closed" \in ResolutionKinds
    BY DEF LedgerTypeOK, Events, ResolutionKinds
  <2>2. CreateResolution(now, "policy_closed")
    BY <1>5 DEF ClosePolicy
  <2>. QED BY <1>3, <2>1, <2>2
<1>6. Resolutions \subseteq ResolutionKinds
  BY LedgerAssumption DEF LedgerAssumption
<1>7. \/ UNCHANGED ledgerVars
      \/ AppendEvent
      \/ \E e \in Events, type \in Types, s \in Severities : CreateObservationLink(e, type, s)
      \/ \E e \in Events, kind \in ResolutionKinds : CreateResolution(e, kind)
      \/ \E e \in Events, old \in Severities, new \in Severities :
           CreateSeverityOverride(e, old, new)
      \/ ClosePolicy
  BY <1>6 DEF LedgerNext
<1>. QED BY <1>1, <1>2, <1>3, <1>4, <1>5, <1>7

LEMMA TypeKept ==
  ASSUME LedgerTypeOK, [LedgerNext]_ledgerVars
  PROVE  LedgerTypeOK'
<1>1. CASE UNCHANGED ledgerVars
  BY <1>1 DEF ledgerVars, LedgerTypeOK, Events
<1>2. CASE NewEvent
  <2>1. now' \in Nat \ {0} /\ Events \subseteq Events'
    BY <1>2 DEF NewEvent, LedgerTypeOK, Events
  <2>2. shown' \in Grades \cup {"none"}
    <3>1. GradesBefore(now + 1) \in SUBSET Grades
      BY GradesAreGrades DEF LedgerTypeOK
    <3>2. EscalationBefore(now + 1) \in Grades \cup {"none"}
      BY <3>1, HighestIsHighest DEF EscalationBefore
    <3>. QED BY <1>2, <3>2, ViewIsBeforeNext DEF NewEvent
  <2>3. /\ links' \subseteq [event: Events', type: LinkTypes, severity: Severities]
        /\ resolutions' \subseteq [event: Events', kind: ResolutionKinds]
        /\ overrides' \subseteq [event: Events', old: Severities, new: Severities]
    BY <1>2, <2>1 DEF NewEvent, LedgerTypeOK
  <2>. QED BY <1>2, <2>1, <2>2, <2>3 DEF NewEvent, LedgerTypeOK
<1>3. ASSUME NEW l, NewLink(l)
      PROVE  LedgerTypeOK'
  BY <1>3 DEF NewLink, LedgerTypeOK, Events
<1>4. ASSUME NEW r, NewResolution(r)
      PROVE  LedgerTypeOK'
  BY <1>4 DEF NewResolution, LedgerTypeOK, Events
<1>5. ASSUME NEW o, NewOverride(o)
      PROVE  LedgerTypeOK'
  BY <1>5 DEF NewOverride, LedgerTypeOK, Events
<1>. QED BY <1>1, <1>2, <1>3, <1>4, <1>5, StepAppends

(* Rows added under event b or later do not change what stood before b.    *)
LEMMA PastIsKept ==
  ASSUME LedgerTypeOK, NEW b \in Nat, created' = created,
         links \subseteq links', \A l \in links' \ links : l.event >= b,
         resolutions \subseteq resolutions', \A r \in resolutions' \ resolutions : r.event >= b,
         overrides \subseteq overrides', \A o \in overrides' \ overrides : o.event >= b,
         LedgerTypeOK'
  PROVE  EscalationBefore(b)' = EscalationBefore(b)
<1>1. /\ Opens \in SUBSET (1..now) /\ Closes \in SUBSET (1..now) /\ now \in Nat
      /\ \A l \in links : l.event \in 1..now
      /\ \A o \in overrides : o.event \in 1..now
  BY RowsAreUnderEvents
<1>2. /\ Opens \subseteq Opens' /\ \A x \in Opens' \ Opens : x >= b
      /\ Closes \subseteq Closes' /\ \A x \in Closes' \ Closes : x >= b
  BY DEF Opens, Closes, EventsOf
<1>3. /\ now' \in Nat /\ Opens' \in SUBSET (1..now') /\ Closes' \in SUBSET (1..now')
      /\ \A l \in links' : l.event \in 1..now'
      /\ \A o \in overrides' : o.event \in 1..now'
  <2>1. now' \in Nat /\ created' \in 1..now'
    BY DEF LedgerTypeOK
  <2>2. /\ \A l \in links' : l.event \in 1..now'
        /\ \A o \in overrides' : o.event \in 1..now'
        /\ \A r \in resolutions' : r.event \in 1..now'
    BY DEF LedgerTypeOK, Events
  <2>. QED BY <2>1, <2>2 DEF Opens, Closes, EventsOf
<1>4. {c \in Closes' : c < b} = {c \in Closes : c < b}
  <2>1. \A c \in Closes' : c < b => c \in Closes
    BY <1>2, <1>3
  <2>. QED BY <1>2, <2>1
<1>5. StartBefore(b)' = StartBefore(b)
  <2> DEFINE closed == Latest({c \in Closes : c < b})
  <2>1. \A x \in Opens' : x < b => x \in Opens
    BY <1>2, <1>3
  <2>2. {x \in Opens' : x < b /\ x > closed} = {x \in Opens : x < b /\ x > closed}
    <3>. HIDE DEF closed
    <3>. QED BY <1>2, <2>1
  <2>. QED BY <1>4, <2>2 DEF StartBefore
<1>6. OverridesBefore(b)' = OverridesBefore(b)
  <2>1. \A o \in overrides' : o.event < b => o \in overrides
    BY <1>3
  <2>. QED BY <1>5, <2>1 DEF OverridesBefore
<1>7. LastBefore(b)' = LastBefore(b)
  BY <1>6 DEF LastBefore, Newest, EventsOf
<1>8. LinksBefore(b)' = LinksBefore(b)
  <2>1. \A k \in CountedLinks' : k.event < b => k \in CountedLinks
    BY <1>3 DEF CountedLinks
  <2>2. CountedLinks \subseteq CountedLinks'
    BY DEF CountedLinks
  <2> DEFINE cut == Latest(EventsOf(LastBefore(b)))
  <2>3. cut' = cut
    BY <1>7 DEF EventsOf
  <2>. HIDE DEF cut
  <2>4. /\ LinksBefore(b)' = {k \in CountedLinks' : /\ k.event < b /\ InPeriod(k, StartBefore(b)')
                                                     /\ AfterCut(k, cut')}
        /\ LinksBefore(b) = {k \in CountedLinks : /\ k.event < b /\ InPeriod(k, StartBefore(b))
                                                  /\ AfterCut(k, cut)}
    BY DEF LinksBefore, cut, InPeriod, AfterCut
  <2>. QED BY <1>5, <2>1, <2>2, <2>3, <2>4
<1>. QED BY <1>7, <1>8 DEF EscalationBefore, GradesBefore

LEMMA InitIsHonest == LedgerInit => LedgerInv
<1> SUFFICES ASSUME LedgerInit PROVE LedgerInv
  OBVIOUS
<1>1. LedgerTypeOK
  BY DEF LedgerInit, LedgerTypeOK, Events, LinkTypes
<1>2. EscalationBefore(now) = "none"
  <2>1. {x \in Opens : x < now /\ x > Latest({c \in Closes : c < now})} = {}
    BY <1>1, RowsAreUnderEvents DEF LedgerInit
  <2>2. StartBefore(now) = NoEvent
    BY <2>1 DEF StartBefore, Earliest
  <2>. QED BY <2>2, NothingWithoutPeriod
<1>3. ShownIsBefore /\ OverridesStateWhatWas
  BY <1>2 DEF LedgerInit, ShownIsBefore, OverridesStateWhatWas
<1>4. FirstObserved
  <2>1. SUFFICES ASSUME inOrder PROVE \E l \in links : l.event = created /\ l.type = "first_seen"
    BY DEF FirstObserved
  <2>2. PICK s \in Severities : links = {[event |-> 1, type |-> "first_seen", severity |-> s]}
    BY <2>1 DEF LedgerInit
  <2>. QED BY <2>2 DEF LedgerInit
<1>. QED BY <1>1, <1>3, <1>4 DEF LedgerInv

(* In order the past of every event is settled when the event comes.       *)
LEMMA StepIsHonest ==
  ASSUME LedgerInv, [LedgerNext]_ledgerVars
  PROVE  LedgerInv'
<1>. USE DEF LedgerInv
<1>1. LedgerTypeOK /\ LedgerTypeOK'
  BY TypeKept
<1>2. /\ now \in Nat /\ inOrder' = inOrder /\ created' = created
      /\ links \subseteq links' /\ resolutions \subseteq resolutions'
      /\ overrides \subseteq overrides'
      /\ inOrder => /\ \A l \in links' \ links : l.event = now
                    /\ \A r \in resolutions' \ resolutions : r.event = now
                    /\ \A o \in overrides' \ overrides :
                         o.event = now /\ (shown # "none" => o.old = shown)
  <2>1. now \in Nat
    BY <1>1, RowsAreUnderEvents
  <2>. QED BY <1>1, <2>1, StepAppends
           DEF ledgerVars, NewEvent, NewLink, NewResolution, NewOverride
<1>3. FirstObserved'
  BY <1>2 DEF FirstObserved
<1>4. SUFFICES ASSUME inOrder
               PROVE  ShownIsBefore' /\ OverridesStateWhatWas'
  BY <1>1, <1>2, <1>3 DEF ShownIsBefore, OverridesStateWhatWas
<1>5. ASSUME NEW b \in 0..now
      PROVE  EscalationBefore(b)' = EscalationBefore(b)
  <2>1. /\ b \in Nat /\ \A l \in links' \ links : l.event >= b
        /\ \A r \in resolutions' \ resolutions : r.event >= b
        /\ \A o \in overrides' \ overrides : o.event >= b
    BY <1>2, <1>4
  <2>. QED BY <1>1, <1>2, <2>1, PastIsKept
<1>6. ShownIsBefore'
  <2>1. CASE now' = now /\ shown' = shown
    <3>1. EscalationBefore(now)' = EscalationBefore(now)
      <4>1. now \in 0..now
        BY <1>2
      <4>2. \A b \in 0..now : EscalationBefore(b)' = EscalationBefore(b)
        BY <1>5
      <4>3. PICK b \in 0..now : b = now
        BY <4>1
      <4>4. EscalationBefore(b)' = EscalationBefore(b)
        BY <1>5
      <4>. QED BY <2>1, <4>3, <4>4
           DEF EscalationBefore, GradesBefore, LinksBefore, LastBefore, OverridesBefore,
               StartBefore
    <3>. QED BY <1>4, <2>1, <3>1 DEF ShownIsBefore
  <2>2. CASE NewEvent
    <3>1. shown' = EscalationBefore(now + 1)
      BY <1>1, <2>2, ViewIsBeforeNext DEF NewEvent
    <3>2. EscalationBefore(now)' = EscalationBefore(now + 1)
      BY <2>2
      DEF NewEvent, EscalationBefore, GradesBefore, LinksBefore, LastBefore, Newest,
          OverridesBefore, StartBefore, CountedLinks, EventsOf, Opens, Closes, InPeriod,
          AfterCut
    <3>. QED BY <3>1, <3>2 DEF ShownIsBefore
  <2>. QED BY <1>1, <2>1, <2>2, StepAppends
           DEF ledgerVars, NewLink, NewResolution, NewOverride
<1>7. OverridesStateWhatWas'
  <2>1. ASSUME NEW o \in overrides'
        PROVE  EscalationBefore(o.event)' \in {"none", o.old}
    <3>1. PICK b : b = o.event
      OBVIOUS
    <3>2. b \in 0..now
      <4>1. \A p \in overrides : p.event \in 1..now
        BY <1>1, RowsAreUnderEvents
      <4>2. CASE o \in overrides
        BY <1>2, <3>1, <4>1, <4>2
      <4>3. CASE o \notin overrides
        BY <1>2, <1>4, <3>1, <4>3
      <4>. QED BY <4>2, <4>3
    <3>3. EscalationBefore(b)' = EscalationBefore(b)
      BY <1>5, <3>2
    <3>4. EscalationBefore(b) \in {"none", o.old}
      <4>1. CASE o \in overrides
        BY <1>4, <3>1, <4>1 DEF OverridesStateWhatWas
      <4>2. CASE o \notin overrides
        BY <1>2, <1>4, <3>1, <4>2 DEF ShownIsBefore
      <4>. QED BY <4>1, <4>2
    <3>. QED BY <3>1, <3>3, <3>4
  <2>. QED BY <1>2, <1>4, <2>1 DEF OverridesStateWhatWas
<1>. QED BY <1>6, <1>7

THEOREM LedgerInvariant == LedgerSpec => []LedgerInv
  BY InitIsHonest, StepIsHonest, PTL DEF LedgerSpec

-----------------------------------------------------------------------------
(* Rows keep their types and lie under events of the run.                  *)
THEOREM LedgerTypeCorrect == LedgerSpec => []LedgerTypeOK
<1>1. LedgerInv => LedgerTypeOK
  BY DEF LedgerInv
<1>. QED BY <1>1, LedgerInvariant, PTL

(* Two derivations, one truth: whatever was written, in whatever order,    *)
(* finding_severity and derive_severity_snapshot show the same period and  *)
(* the same escalation severity.                                           *)
THEOREM SnapshotsAgree == LedgerSpec => []SnapshotAgrees
<1>1. LedgerInv => SnapshotAgrees
  BY OracleReadsAsView DEF LedgerInv, SnapshotAgrees
<1>. QED BY <1>1, LedgerInvariant, PTL

(* A writer that takes old_severity from the view is never refused later   *)
(* by derive_severity_snapshot, unless one event opens and closes.         *)
THEOREM HonestWritersAreAccepted == LedgerSpec => []HonestOverrideAccepted
<1>1. ASSUME LedgerInv
      PROVE  HonestOverrideAccepted
  <2>1. SUFFICES ASSUME inOrder, OpensAndCloses = {} PROVE OracleAccepts
    BY DEF HonestOverrideAccepted
  <2>2. ASSUME NEW o \in InSomePeriod
        PROVE  ExpectedOld(o) \in {"none", o.old}
    <3>1. ExpectedOld(o) \in {"none", EscalationBefore(o.event)}
      BY <1>1, <2>1, ExpectedIsWhatWasShown DEF LedgerInv
    <3>2. EscalationBefore(o.event) \in {"none", o.old}
      BY <1>1, <2>1 DEF LedgerInv, OverridesStateWhatWas, InSomePeriod
    <3>. QED BY <3>1, <3>2
  <2>. QED BY <2>1, <2>2 DEF OracleAccepts
<1>. QED BY <1>1, LedgerInvariant, PTL

(* What the view counts when a period runs and an observation opens it.    *)
LEMMA PeriodWithLinkIsGraded ==
  ASSUME LedgerTypeOK, ViewPeriod # NoEvent,
         NEW l \in CountedLinks, l.event >= ViewPeriod
  PROVE  ViewEscalation # "none"
<1>1. ViewPeriod = StartBefore(now + 1) /\ ViewEscalation = EscalationBefore(now + 1)
      /\ now + 1 \in Nat
  BY ViewIsBeforeNext, RowsAreUnderEvents
<1> DEFINE rows == OverridesBefore(now + 1)
           cut == Latest(EventsOf(LastBefore(now + 1)))
<1>2. /\ LastBefore(now + 1) = {} <=> rows = {}
      /\ rows = {} => cut = 0
  <2>1. now \in Nat /\ \A r \in rows : r.event \in 1..now
    BY RowsAreUnderEvents DEF OverridesBefore
  <2>. HIDE DEF rows
  <2>2. /\ Newest(rows) = {} <=> rows = {}
        /\ Latest(EventsOf(Newest(rows))) = Latest(EventsOf(rows))
        /\ rows = {} <=> Latest(EventsOf(rows)) = NoEvent
    BY <2>1, NewestIsLatest
  <2>. QED BY <2>2 DEF LastBefore, rows, NoEvent
<1>3. l.event \in 1..now /\ now \in Nat
  BY RowsAreUnderEvents DEF CountedLinks
<1>4. GradesBefore(now + 1) # {}
  <2>1. CASE rows # {}
    BY <1>2, <2>1 DEF GradesBefore
  <2>2. CASE rows = {}
    <3>1. l.event < now + 1 /\ l.event > 0
      BY <1>3
    <3>2. l \in LinksBefore(now + 1)
      BY <1>1, <1>2, <2>2, <3>1 DEF LinksBefore, InPeriod, AfterCut
    <3>. QED BY <3>2 DEF GradesBefore
  <2>. QED BY <2>1, <2>2
<1>. QED BY <1>1, <1>4, GradesAreGrades, HighestIsHighest DEF EscalationBefore

(* An open finding can be graded, so evaluate_disputes decides every       *)
(* candidate that read_dispute_candidates gives it.                        *)
THEOREM OpenFindingsAreGraded == LedgerSpec => []OpenIsGraded
<1>1. ASSUME LedgerInv
      PROVE  OpenIsGraded
  <2>1. SUFFICES ASSUME inOrder, ViewStatus = "open"
                 PROVE  ViewPeriod # NoEvent /\ ViewEscalation # "none"
    BY DEF OpenIsGraded
  <2>2. LedgerTypeOK /\ FirstObserved
    BY <1>1 DEF LedgerInv
  <2>3. /\ now \in Nat /\ Opens \in SUBSET (1..now) /\ Closes \in SUBSET (1..now)
        /\ \A r \in resolutions : r.event \in 1..now
    BY <2>2, RowsAreUnderEvents
  <2>4. /\ EventsOf(resolutions) \in SUBSET (1..now) /\ Closes \subseteq EventsOf(resolutions)
        /\ LastSettled = Latest(EventsOf(resolutions))
    <3>1. {r \in resolutions : Settles(r)} = resolutions
      BY DEF Settles
    <3>. QED BY <2>3, <3>1 DEF EventsOf, Closes, LastSettled
  <2> DEFINE openings == {e \in Opens : e > Latest(Closes)}
  <2>5. /\ Latest(Closes) \in 0..now /\ LastSettled \in 0..now
        /\ Closes # {} => Latest(Closes) \in Closes
        /\ Closes = {} => Latest(Closes) = 0
        /\ \A c \in Closes : c <= LastSettled
    <3>1. /\ Latest(Closes) \in 0..now
          /\ Closes # {} => Latest(Closes) \in Closes
          /\ Closes = {} => Latest(Closes) = 0
      BY <2>3, LatestIsLast DEF NoEvent
    <3>2. /\ LastSettled \in 0..now
          /\ \A c \in EventsOf(resolutions) : c <= LastSettled
      BY <2>3, <2>4, LatestIsLast
    <3>. QED BY <2>4, <3>1, <3>2
  <2>6. \E e \in Opens : e > LastSettled
    <3>1. CASE LastSettled = NoEvent
      <4>1. created \in Opens /\ created = 1
        BY <2>2 DEF Opens, LedgerTypeOK
      <4>. QED BY <3>1, <4>1 DEF NoEvent
    <3>2. CASE ReopenedSince(LastSettled)
      <4>1. Opens # {}
        BY DEF Opens
      <4>2. Latest(Opens) \in Opens
        BY <2>3, <4>1, LatestIsLast
      <4>. QED BY <3>2, <4>2 DEF ReopenedSince
    <3>. QED BY <2>1, <3>1, <3>2 DEF ViewStatus
  <2>7. PICK e \in Opens : e > LastSettled
    BY <2>6
  <2>8. e > Latest(Closes)
    <3>1. Latest(Closes) <= LastSettled
      <4>1. CASE Closes = {}
        BY <2>5, <4>1
      <4>2. CASE Closes # {}
        BY <2>5, <4>2
      <4>. QED BY <4>1, <4>2
    <3>. QED BY <2>3, <2>5, <2>7, <3>1
  <2>9. openings # {} /\ openings \in SUBSET (Nat \ {0}) /\ ViewPeriod = Earliest(openings)
    <3>1. e \in openings
      BY <2>8
    <3>2. openings \subseteq Opens
      OBVIOUS
    <3>3. ViewPeriod = Earliest(openings)
      BY DEF ViewPeriod, StartAmong
    <3>. HIDE DEF openings
    <3>. QED BY <2>3, <3>1, <3>2, <3>3
  <2>10. ViewPeriod # NoEvent /\ ViewPeriod \in openings
    <3>. HIDE DEF openings
    <3>. QED BY <2>9, EarliestIsFirst
  <2>11. ViewPeriod \in Opens /\ ViewPeriod \in Nat
    BY <2>3, <2>10
  <2>12. \E l \in CountedLinks : l.event = ViewPeriod
    <3>1. CASE ViewPeriod = created
      BY <2>1, <2>2, <3>1 DEF FirstObserved, CountedLinks, Counted
    <3>2. CASE ViewPeriod # created
      BY <2>11, <3>2 DEF Opens, EventsOf, CountedLinks, Counted
    <3>. QED BY <3>1, <3>2
  <2>. QED BY <2>2, <2>10, <2>11, <2>12, PeriodWithLinkIsGraded
<1>. QED BY <1>1, LedgerInvariant, PTL

(* A late row under an older event cannot overturn a later decision: the   *)
(* status reads the newest resolution and the newest opening only.         *)
THEOREM LateRowsLeaveStatus == LedgerSpec => LateRowsKeepStatus
<1>1. ASSUME LedgerTypeOK, [LedgerNext]_ledgerVars,
             NEW r \in resolutions' \ resolutions, r.event < Latest(EventsOf(resolutions))
      PROVE  ViewStatus' = ViewStatus
  <2>1. PICK s : NewResolution(s)
    BY <1>1, StepAppends DEF ledgerVars, NewEvent, NewLink, NewOverride
  <2>2. r = s /\ resolutions' = resolutions \cup {r} /\ created' = created /\ links' = links
    BY <1>1, <2>1 DEF NewResolution
  <2>3. /\ now \in Nat /\ EventsOf(resolutions) \in SUBSET (1..now) /\ r.event \in 1..now
    BY <1>1, <2>1, <2>2, RowsAreUnderEvents DEF EventsOf, NewResolution, Events
  <2>4. EventsOf(resolutions') = EventsOf(resolutions) \cup {r.event}
    BY <2>2 DEF EventsOf
  <2>5. Latest(EventsOf(resolutions')) = Latest(EventsOf(resolutions))
    <3> DEFINE last == Latest(EventsOf(resolutions))
    <3>1. /\ last \in 0..now /\ \A d \in EventsOf(resolutions) : d <= last
          /\ EventsOf(resolutions) = {} <=> last = NoEvent
          /\ EventsOf(resolutions) # {} => last \in EventsOf(resolutions)
      BY <2>3, LatestIsLast
    <3>2. last # 0 /\ r.event <= last
      BY <1>1, <2>3, <3>1
    <3>3. last \in EventsOf(resolutions')
      BY <2>4, <3>1, <3>2 DEF NoEvent
    <3>4. EventsOf(resolutions') \in SUBSET (1..now) /\ \A d \in EventsOf(resolutions') : d <= last
      BY <2>3, <2>4, <3>1, <3>2
    <3>. HIDE DEF last
    <3>5. Latest(EventsOf(resolutions')) = last
      BY <2>3, <3>3, <3>4, LatestIs
    <3>. QED BY <3>5 DEF last
  <2>6. LastSettled = Latest(EventsOf(resolutions)) /\ LastSettled' = Latest(EventsOf(resolutions'))
    <3>1. {q \in resolutions : Settles(q)} = resolutions
          /\ {q \in resolutions' : Settles(q)} = resolutions'
      BY DEF Settles
    <3>. QED BY <3>1 DEF LastSettled, EventsOf, Settles
  <2>7. Opens' = Opens
    BY <2>2 DEF Opens, EventsOf
  <2>. QED BY <2>5, <2>6, <2>7 DEF ViewStatus, ReopenedSince
<1>2. LedgerTypeOK /\ [LedgerNext]_ledgerVars =>
        [\A r \in resolutions' \ resolutions :
           r.event < Latest(EventsOf(resolutions)) => ViewStatus' = ViewStatus]_ledgerVars
  BY <1>1
<1>. QED BY <1>2, LedgerTypeCorrect, PTL DEF LedgerSpec, LateRowsKeepStatus

(* When the closings and the overrides stay, an observation more can only  *)
(* make the period begin earlier and what counts in it more.               *)
LEMMA MoreLinksMoreGrades ==
  ASSUME LedgerTypeOK, LedgerTypeOK', now' = now, Closes' = Closes, overrides' = overrides,
         links \subseteq links', created' = created, ViewPeriod # NoEvent
  PROVE  GradesBefore(now + 1) \subseteq GradesBefore(now + 1)'
<1> DEFINE b == now + 1
<1>1. /\ now \in Nat /\ b \in Nat
      /\ Opens \in SUBSET (1..now) /\ Closes \in SUBSET (1..now)
      /\ \A o \in overrides : o.event \in 1..now
      /\ \A l \in links : l.event \in 1..now
  BY RowsAreUnderEvents
<1>2. PICK start : start = StartBefore(b)
  OBVIOUS
<1>3. PICK earlier : earlier = StartBefore(b)'
  OBVIOUS
<1>4. PICK cut : cut = Latest(EventsOf(LastBefore(b)))
  OBVIOUS
<1>5. PICK cut1 : cut1 = Latest(EventsOf(LastBefore(b)))'
  OBVIOUS
<1>6. Opens' \in SUBSET (1..now) /\ Opens \subseteq Opens'
      /\ \A l \in links' : l.event \in 1..now
  <2>1. Opens \subseteq Opens'
    BY DEF Opens, EventsOf
  <2>2. created' \in 1..now /\ \A l \in links' : l.event \in 1..now
    BY DEF LedgerTypeOK, Events
  <2>. QED BY <2>1, <2>2 DEF Opens, EventsOf
<1>7. start \in 1..now /\ start # NoEvent
  <2>1. start # NoEvent
    BY <1>2, ViewIsBeforeNext
  <2>. QED BY <1>1, <1>2, <2>1, StartOpens DEF NoEvent
<1>8. earlier \in 1..now /\ earlier <= start /\ earlier # NoEvent
  <2> DEFINE closed == Latest({c \in Closes : c < b})
             openings == {x \in Opens' : x < b /\ x > closed}
  <2>1. earlier = Earliest(openings)
    BY <1>3 DEF StartBefore
  <2>2. start \in openings
    BY <1>2, <1>6, <1>7, <1>1, StartOpens
  <2>3. openings \subseteq Opens'
    OBVIOUS
  <2>. HIDE DEF openings
  <2>4. openings \in SUBSET (Nat \ {0})
    BY <1>6, <2>3
  <2>5. earlier \in openings /\ earlier <= start /\ earlier # NoEvent
    BY <2>1, <2>2, <2>4, EarliestIsFirst
  <2>. QED BY <1>6, <2>3, <2>5
<1>9. OverridesBefore(b) = {o \in overrides : o.event >= start}
      /\ OverridesBefore(b)' = {o \in overrides : o.event >= earlier}
  <2>1. \A o \in overrides : o.event < b
    BY <1>1
  <2>. QED BY <1>2, <1>3, <1>7, <1>8, <2>1 DEF OverridesBefore
<1>10. /\ LastBefore(b) = Newest(OverridesBefore(b))
       /\ LastBefore(b)' = Newest(OverridesBefore(b)')
  BY DEF LastBefore, Newest, EventsOf
<1>. HIDE DEF b
<1> DEFINE rows == OverridesBefore(b)
           rows1 == OverridesBefore(b)'
<1>11. /\ cut = Latest(EventsOf(rows)) /\ cut \in 0..now
       /\ \A r \in rows : r.event <= cut
       /\ rows = {} <=> cut = NoEvent
       /\ \A r \in LastBefore(b) : r \in rows /\ r.event = cut
       /\ LastBefore(b) = {} <=> rows = {}
  <2>1. \A r \in rows : r.event \in 1..now
    BY <1>1, <1>9
  <2>. HIDE DEF rows
  <2>2. /\ Newest(rows) = {} <=> rows = {}
        /\ Latest(EventsOf(Newest(rows))) = Latest(EventsOf(rows))
        /\ Latest(EventsOf(rows)) \in 0..now
        /\ \A r \in rows : r.event <= Latest(EventsOf(rows))
        /\ rows = {} <=> Latest(EventsOf(rows)) = NoEvent
    BY <1>1, <2>1, NewestIsLatest
  <2>3. LastBefore(b) = Newest(rows)
    BY <1>10 DEF rows
  <2>. QED BY <1>4, <2>2, <2>3 DEF Newest
<1>12. /\ cut1 = Latest(EventsOf(rows1)) /\ cut1 \in 0..now
       /\ \A r \in rows1 : r.event <= cut1
       /\ rows1 = {} <=> cut1 = NoEvent
       /\ LastBefore(b)' = {r \in rows1 : r.event = cut1}
       /\ LastBefore(b)' = {} <=> rows1 = {}
  <2>1. \A r \in rows1 : r.event \in 1..now
    BY <1>1, <1>9
  <2>. HIDE DEF rows1
  <2>2. /\ Newest(rows1) = {} <=> rows1 = {}
        /\ Latest(EventsOf(Newest(rows1))) = Latest(EventsOf(rows1))
        /\ Latest(EventsOf(rows1)) \in 0..now
        /\ \A r \in rows1 : r.event <= Latest(EventsOf(rows1))
        /\ rows1 = {} <=> Latest(EventsOf(rows1)) = NoEvent
    BY <1>1, <2>1, NewestIsLatest
  <2>3. LastBefore(b)' = Newest(rows1)
    BY <1>10 DEF rows1
  <2>4. cut1 = Latest(EventsOf(Newest(rows1)))
    BY <1>5, <2>3 DEF EventsOf
  <2>. QED BY <2>2, <2>3, <2>4 DEF Newest
<1>13. rows \subseteq rows1
  BY <1>1, <1>7, <1>8, <1>9
<1>14. CASE rows # {}
  <2>1. cut1 = cut /\ LastBefore(b) \subseteq LastBefore(b)'
    <3>1. PICK o \in LastBefore(b) : o \in rows /\ o.event = cut
      BY <1>11, <1>14
    <3>2. PICK q \in LastBefore(b)' : q \in rows1 /\ q.event = cut1
      BY <1>12, <1>13, <1>14
    <3>3. cut <= cut1
      BY <1>12, <1>13, <3>1
    <3>4. start <= cut
      BY <1>9, <3>1
    <3>5. q \in rows
      BY <1>1, <1>7, <1>8, <1>9, <1>11, <1>12, <3>2, <3>3, <3>4
    <3>6. cut1 <= cut
      BY <1>11, <3>2, <3>5
    <3>7. cut1 = cut
      BY <1>11, <1>12, <3>3, <3>6
    <3>. QED BY <1>11, <1>12, <1>13, <3>7
  <2>2. LinksBefore(b) \subseteq LinksBefore(b)'
    <3>1. ASSUME NEW k \in LinksBefore(b)
          PROVE  k \in LinksBefore(b)'
      <4>1. k \in CountedLinks /\ k \in links /\ k.event < b /\ k.event >= start /\ k.event > cut
        BY <1>2, <1>4 DEF LinksBefore, InPeriod, AfterCut, CountedLinks
      <4>2. k \in CountedLinks'
        BY <4>1 DEF CountedLinks
      <4>3. k.event >= earlier
        BY <1>1, <1>7, <1>8, <4>1
      <4>4. b' = b
        BY DEF b
      <4>. QED BY <1>3, <1>5, <1>8, <2>1, <4>1, <4>2, <4>3, <4>4
               DEF LinksBefore, InPeriod, AfterCut
    <3>. QED BY <3>1
  <2>. QED BY <2>1, <2>2 DEF GradesBefore, b
<1>15. CASE rows = {}
  <2>1. cut1 < start
    <3>1. CASE rows1 = {}
      BY <1>7, <1>12, <3>1 DEF NoEvent
    <3>2. CASE rows1 # {}
      <4>1. PICK q \in rows1 : q.event = cut1
        BY <1>12, <3>2
      <4>2. q \in overrides /\ ~(q.event >= start)
        BY <1>9, <1>15, <4>1
      <4>. QED BY <1>1, <1>7, <4>1, <4>2
    <3>. QED BY <3>1, <3>2
  <2>2. LinksBefore(b) \subseteq LinksBefore(b)'
    <3>1. ASSUME NEW k \in LinksBefore(b)
          PROVE  k \in LinksBefore(b)'
      <4>1. k \in CountedLinks /\ k \in links /\ k.event < b /\ k.event >= start
        BY <1>2 DEF LinksBefore, InPeriod, CountedLinks
      <4>2. k \in CountedLinks'
        BY <4>1 DEF CountedLinks
      <4>3. k.event >= earlier /\ k.event > cut1
        BY <1>1, <1>7, <1>8, <1>12, <2>1, <4>1
      <4>4. b' = b
        BY DEF b
      <4>. QED BY <1>3, <1>5, <1>8, <4>1, <4>2, <4>3, <4>4
               DEF LinksBefore, InPeriod, AfterCut
    <3>. QED BY <3>1
  <2>3. LastBefore(b) = {}
    BY <1>11, <1>15
  <2>. QED BY <2>2, <2>3 DEF GradesBefore, b
<1>. QED BY <1>14, <1>15 DEF b

(* What the lemmas about a state say of the next one.                      *)
LEMMA NextViewIsBeforeNext ==
  LedgerTypeOK' =>
    /\ (ViewPeriod = StartBefore(now + 1))'
    /\ (ViewEscalation = EscalationBefore(now + 1))'
    /\ (GradesBefore(now + 1) \in SUBSET Grades)'
<1>1. LedgerTypeOK => /\ ViewPeriod = StartBefore(now + 1)
                      /\ ViewEscalation = EscalationBefore(now + 1)
                      /\ GradesBefore(now + 1) \in SUBSET Grades
  <2>1. LedgerTypeOK => now + 1 \in Nat
    BY RowsAreUnderEvents
  <2>. QED BY <2>1, ViewIsBeforeNext, GradesAreGrades
<1>. QED BY <1>1, PTL

LEMMA NextPeriodWithLinkIsGraded ==
  LedgerTypeOK' /\ ViewPeriod' # NoEvent /\ (\E l \in CountedLinks' : l.event >= ViewPeriod')
    => ViewEscalation' # "none"
<1>1. LedgerTypeOK /\ ViewPeriod # NoEvent /\ (\E l \in CountedLinks : l.event >= ViewPeriod)
        => ViewEscalation # "none"
  BY PeriodWithLinkIsGraded
<1>2. (LedgerTypeOK /\ ViewPeriod # NoEvent /\ (\E l \in CountedLinks : l.event >= ViewPeriod)
        => ViewEscalation # "none")'
  BY <1>1, PTL
<1>. QED BY <1>2

(* Only a closing of the period and an override lower the severity: no     *)
(* link, no other resolution and no late row does.                         *)
THEOREM OnlyOverridesLower == LedgerSpec => OnlyOverrideLowers
<1>1. ASSUME LedgerTypeOK, [LedgerNext]_ledgerVars, Closes' = Closes, overrides' = overrides
      PROVE  Rank[ViewEscalation'] >= Rank[ViewEscalation]
  <2>1. LedgerTypeOK' /\ now \in Nat
    BY <1>1, TypeKept, RowsAreUnderEvents
  <2>2. /\ ViewEscalation = Highest(GradesBefore(now + 1))
        /\ ViewEscalation' = Highest(GradesBefore(now + 1)')
        /\ GradesBefore(now + 1) \in SUBSET Grades
        /\ GradesBefore(now + 1)' \in SUBSET Grades
    <3>1. GradesBefore(now + 1) \in SUBSET Grades /\ ViewEscalation = EscalationBefore(now + 1)
      BY <1>1, <2>1, ViewIsBeforeNext, GradesAreGrades
    <3>2. /\ ViewEscalation' = EscalationBefore(now + 1)'
          /\ GradesBefore(now + 1)' \in SUBSET Grades'
      BY <2>1, NextViewIsBeforeNext
    <3>. QED BY <3>1, <3>2 DEF EscalationBefore, Highest, Grades, Rank
  <2>3. Rank[ViewEscalation] \in Nat /\ Rank[ViewEscalation'] \in Nat
    BY <2>2, HighestIsHighest
  <2>4. CASE NewEvent
    <3>1. ViewEscalation' = ViewEscalation
      BY <2>4
      DEF NewEvent, ViewEscalation, ViewPeriod, ViewLastOverride, CountedLinks, EventsOf,
          StartAmong, Opens, Closes, InPeriod, AfterCut
    <3>. QED BY <2>3, <3>1
  <2>5. CASE now' = now /\ links \subseteq links' /\ created' = created
    <3>1. CASE ViewPeriod = NoEvent
      <4>1. ViewEscalation = "none"
        BY <1>1, <3>1, ViewIsBeforeNext, NothingWithoutPeriod
      <4>. QED BY <2>3, <4>1, Ranks
    <3>2. CASE ViewPeriod # NoEvent
      <4>1. GradesBefore(now + 1) \subseteq GradesBefore(now + 1)'
        BY <1>1, <2>1, <2>5, <3>2, MoreLinksMoreGrades
      <4>2. Rank[ViewEscalation] <= Rank[ViewEscalation']
        BY <2>2, <4>1, HighestGrows
      <4>. QED BY <2>3, <4>2
    <3>. QED BY <3>1, <3>2
  <2>. QED BY <1>1, <2>4, <2>5, StepAppends
           DEF ledgerVars, NewLink, NewResolution, NewOverride
<1>2. LedgerTypeOK /\ [LedgerNext]_ledgerVars =>
        [Closes' = Closes /\ overrides' = overrides
           => Rank[ViewEscalation'] >= Rank[ViewEscalation]]_ledgerVars
  BY <1>1
<1>. QED BY <1>2, LedgerTypeCorrect, PTL DEF LedgerSpec, OnlyOverrideLowers

(* In order, a period begins where none ran, with a reopening under the    *)
(* newest event.                                                           *)
LEMMA PeriodBeginsNow ==
  ASSUME LedgerTypeOK, [LedgerNext]_ledgerVars, inOrder,
         ViewPeriod' \notin {ViewPeriod, NoEvent}
  PROVE  /\ now' = now /\ ViewPeriod' = now
         /\ \E l \in CountedLinks' : l.event = now
<1> DEFINE openings == {e \in Opens : e > Latest(Closes)}
<1>1. /\ now \in Nat \ {0} /\ Opens \in SUBSET (1..now) /\ Closes \in SUBSET (1..now)
      /\ Latest(Closes) \in 0..now
  BY RowsAreUnderEvents, LatestIsLast
<1>2. openings \subseteq Opens /\ ViewPeriod = Earliest(openings)
  BY DEF ViewPeriod, StartAmong
<1>3. ViewPeriod' = Earliest({e \in Opens' : e > Latest(Closes')})
  BY DEF ViewPeriod, StartAmong, Earliest, Latest, NoEvent, Opens, Closes, EventsOf
<1>4. ~(Opens' = Opens /\ Closes' = Closes)
  BY <1>2, <1>3
<1>5. \A r : ~NewResolution(r)
  <2>1. SUFFICES ASSUME NEW r, NewResolution(r) PROVE FALSE
    OBVIOUS
  <2>2. Opens' = Opens /\ Closes' = Closes \cup {now}
    <3>1. Opens' = Opens
      BY <2>1 DEF NewResolution, Opens, EventsOf
    <3>2. r.kind \in Closing
      BY <1>4, <2>1, <3>1 DEF NewResolution, Closes, EventsOf
    <3>. QED BY <2>1, <3>1, <3>2 DEF NewResolution, Closes, EventsOf
  <2>3. Latest(Closes') = now
    <3>1. now \in Closes' /\ Closes' \in SUBSET (1..now) /\ \A c \in Closes' : c <= now
      BY <1>1, <2>2
    <3>. QED BY <1>1, <3>1, LatestIs
  <2>4. {e \in Opens' : e > Latest(Closes')} = {}
    <3>1. \A e \in Opens' : ~(e > now)
      BY <1>1, <2>2
    <3>. QED BY <2>3, <3>1
  <2>. QED BY <1>3, <2>4 DEF Earliest
<1>6. PICK l : NewLink(l)
  BY <1>4, <1>5, StepAppends
     DEF ledgerVars, NewEvent, NewOverride, Opens, Closes, EventsOf
<1>7. /\ Closes' = Closes /\ Opens' = Opens \cup {now} /\ now' = now
      /\ l \in links' /\ l.type = "reopening" /\ l.event = now
  <2>1. Closes' = Closes /\ now' = now /\ l.event = now /\ l \in links'
    BY <1>6 DEF NewLink, Closes, EventsOf
  <2>2. l.type = "reopening"
    BY <1>4, <1>6, <2>1 DEF NewLink, Opens, EventsOf
  <2>. QED BY <1>6, <2>1, <2>2 DEF NewLink, Opens, EventsOf
<1>8. {e \in Opens' : e > Latest(Closes')} \subseteq openings \cup {now}
      /\ openings \subseteq {e \in Opens' : e > Latest(Closes')}
  BY <1>7
<1>9. openings = {}
  <2>1. SUFFICES ASSUME openings # {} PROVE FALSE
    OBVIOUS
  <2> DEFINE openings1 == {e \in Opens' : e > Latest(Closes')}
  <2>2. openings \in SUBSET (Nat \ {0}) /\ openings1 \in SUBSET (Nat \ {0})
    <3>. HIDE DEF openings, openings1
    <3>1. openings \in SUBSET (Nat \ {0})
      BY <1>1, <1>2
    <3>2. openings1 \subseteq openings \cup {now}
      BY <1>8 DEF openings1
    <3>. QED BY <1>1, <3>1, <3>2
  <2>. HIDE DEF openings
  <2>3. ViewPeriod \in openings /\ \A e \in openings : ViewPeriod <= e
    BY <1>2, <2>1, <2>2, EarliestIsFirst
  <2>4. ViewPeriod \in openings1 /\ \A e \in openings1 : ViewPeriod <= e
    <3>1. ViewPeriod \in 1..now
      BY <1>1, <1>2, <2>3
    <3>2. ViewPeriod <= now
      BY <1>1, <3>1
    <3>. QED BY <1>8, <2>3, <3>2
  <2>. HIDE DEF openings1
  <2>5. Earliest(openings1) = ViewPeriod
    BY <2>2, <2>4, EarliestIs
  <2>. QED BY <1>3, <2>5 DEF openings1
<1>10. ViewPeriod' = now
  <2> DEFINE openings1 == {e \in Opens' : e > Latest(Closes')}
  <2>1. openings1 \subseteq {now}
    BY <1>8, <1>9
  <2>2. openings1 = {now}
    <3>. HIDE DEF openings1
    <3>1. openings1 # {}
      BY <1>3 DEF openings1, Earliest
    <3>. QED BY <2>1, <3>1
  <2>3. now \in openings1 /\ openings1 \in SUBSET (Nat \ {0}) /\ \A e \in openings1 : now <= e
    BY <1>1, <2>2
  <2>. HIDE DEF openings1
  <2>4. Earliest(openings1) = now
    BY <2>3, EarliestIs
  <2>. QED BY <1>3, <2>4 DEF openings1
<1>. QED BY <1>7, <1>10 DEF CountedLinks, Counted

(* A new period forgets: its severity comes from the rows of the event     *)
(* that opened it alone.                                                   *)
THEOREM PeriodsForget == LedgerSpec => NewPeriodForgets
<1>1. ASSUME LedgerTypeOK, [LedgerNext]_ledgerVars, inOrder,
             ViewPeriod' \notin {ViewPeriod, NoEvent}
      PROVE  ViewEscalation' \in {l.severity : l \in {k \in links' : k.event = now}}
                                 \cup {o.new : o \in {p \in overrides' : p.event = now}}
  <2>1. /\ now' = now /\ ViewPeriod' = now /\ LedgerTypeOK' /\ now \in Nat
        /\ \E l \in CountedLinks' : l.event = now
    BY <1>1, PeriodBeginsNow, TypeKept, RowsAreUnderEvents
  <2>2. /\ StartBefore(now + 1)' = now
        /\ ViewEscalation' = Highest(GradesBefore(now + 1)')
        /\ GradesBefore(now + 1)' \in SUBSET Grades
    <3>1. /\ ViewPeriod' = StartBefore(now + 1)'
          /\ ViewEscalation' = EscalationBefore(now + 1)'
          /\ GradesBefore(now + 1)' \in SUBSET Grades'
      BY <2>1, NextViewIsBeforeNext
    <3>. QED BY <2>1, <3>1 DEF EscalationBefore, Highest, Grades, Rank
  <2>3. ViewEscalation' \in GradesBefore(now + 1)'
    <3>1. ViewEscalation' # "none"
      <4>1. \E l \in CountedLinks' : l.event >= ViewPeriod'
        BY <2>1
      <4>. QED BY <1>1, <2>1, <4>1, NextPeriodWithLinkIsGraded
    <3>. QED BY <2>2, <3>1, HighestIsHighest
  <2>4. \A k \in LinksBefore(now + 1)' : k \in links' /\ k.event = now
    <3>1. \A k \in LinksBefore(now + 1)' : k \in links' /\ k.event >= now
      BY <2>1, <2>2 DEF LinksBefore, CountedLinks, InPeriod
    <3>2. \A k \in links' : k.event \in 1..now
      BY <2>1 DEF LedgerTypeOK, Events
    <3>. QED BY <2>1, <3>1, <3>2
  <2>5. \A o \in LastBefore(now + 1)' : o \in overrides' /\ o.event = now
    <3>1. \A o \in LastBefore(now + 1)' : o \in overrides' /\ o.event >= now
      BY <2>1, <2>2 DEF LastBefore, Newest, OverridesBefore
    <3>2. \A o \in overrides' : o.event \in 1..now
      BY <2>1 DEF LedgerTypeOK, Events
    <3>. QED BY <2>1, <3>1, <3>2
  <2>6. GradesBefore(now + 1)' =
          {l.severity : l \in LinksBefore(now + 1)'} \cup {o.new : o \in LastBefore(now + 1)'}
    BY DEF GradesBefore
  <2>. QED BY <2>3, <2>4, <2>5, <2>6
<1>2. LedgerTypeOK /\ [LedgerNext]_ledgerVars =>
        [ViewPeriod' \notin {ViewPeriod, NoEvent} /\ inOrder =>
           ViewEscalation' \in {l.severity : l \in {k \in links' : k.event = now}}
                               \cup {o.new : o \in {p \in overrides' : p.event = now}}]_ledgerVars
  BY <1>1
<1>. QED BY <1>2, LedgerTypeCorrect, PTL DEF LedgerSpec, NewPeriodForgets
=============================================================================
