----------------------------- MODULE ServicesProofs -----------------------------
(***************************************************************************)
(* What the small services promise, proved for any loops, logins,          *)
(* accounts, requests, limits and schedules, and for any bounds: the       *)
(* telemetry sessions, the login flow, the pool of session ids, the repair *)
(* cascade, the requests-per-minute counters, the classes of a 429 and the *)
(* warm-up caps.  No two of them share any state.                          *)
(***************************************************************************)
EXTENDS Telemetry, OAuthLogin, SessionIdPool, ThinkingRepair, RpmWindow,
        RateLimitHeaders, WarmCaps, FiniteSetTheorems, WellFoundedInduction,
        SequenceTheorems, TLAPS

-------------------------------------------------------------------------------
(* RateLimitHeaders.                                                       *)

\* A 429 that has been classified has been classified as its headers are.
HeadersInv ==
  /\ answered \in HeaderSets
  /\ verdict \in {Unclassified, ClassifyFromHeaders(answered)}

\* The class of any headers is the right one.
LEMMA EveryClassRight ==
  ASSUME answered \in HeaderSets, verdict = ClassifyFromHeaders(answered)
  PROVE  ClassifiedRight
  <1> USE DEF HeaderSets, WindowHeaders, Moments, Past, Near, Far, Nothing
  <1> DEFINE h5 == answered.h5
             d7 == answered.d7
             full5 == IsWindowExceeded(h5)
             full7 == IsWindowExceeded(d7)
             to5 == ParseResetHeader(h5)
             to7 == ParseResetHeader(d7)
             any == Or(Or(to5, to7), answered.unified)
             told == {h5.reset, d7.reset} \cap {Near, Far}
  <1>1. /\ h5.reset \in {0, 1, 2, 3} /\ d7.reset \in {0, 1, 2, 3}
        /\ to5 = (IF h5.reset = 0 THEN 3 ELSE h5.reset)
        /\ to7 = (IF d7.reset = 0 THEN 3 ELSE d7.reset)
        /\ told = {h5.reset, d7.reset} \cap {1, 2}
    BY DEF ParseResetHeader
  <1>2. /\ any = IF to5 # 3 THEN to5 ELSE IF to7 # 3 THEN to7 ELSE answered.unified
        /\ Or(Or(to7, to5), answered.unified)
             = IF to7 # 3 THEN to7 ELSE IF to5 # 3 THEN to5 ELSE answered.unified
    BY DEF Or
  <1>3. verdict =
          CASE full7 /\ any # 3 ->
                 [class |-> "seven_day", until |-> Or(Or(to7, to5), answered.unified)]
            [] full5 /\ ~ full7 /\ any # 3 -> [class |-> "five_hour", until |-> any]
            [] OTHER ->
                 IF any # 3 \/ answered.retry = "some"
                   THEN [class |-> "burst", until |-> 1]
                   ELSE [class |-> "unreal", until |-> 3]
    BY DEF ClassifyFromHeaders
  <1> HIDE DEF h5, d7, full5, full7, to5, to7, any, told
  <1>0. /\ to5 # 3 <=> h5.reset \in told
        /\ to7 # 3 <=> d7.reset \in told
        /\ to5 # 3 => to5 = h5.reset
        /\ to7 # 3 => to7 = d7.reset
        /\ told = {} <=> to5 = 3 /\ to7 = 3
    <2>1. /\ told = {} <=> h5.reset \notin told /\ d7.reset \notin told
          /\ h5.reset \in told <=> h5.reset \in {1, 2}
          /\ d7.reset \in told <=> d7.reset \in {1, 2}
      BY <1>1
    <2>2. /\ h5.reset \in {1, 2} <=> to5 # 3
          /\ d7.reset \in {1, 2} <=> to7 # 3
          /\ to5 # 3 => to5 = h5.reset
          /\ to7 # 3 => to7 = d7.reset
      BY <1>1
    <2> QED BY <2>1, <2>2
  <1>4. CASE full7 /\ any # 3
    <2>1. verdict = [class |-> "seven_day", until |-> Or(Or(to7, to5), answered.unified)]
      BY <1>3, <1>4
    <2>2. verdict.class = "seven_day" /\ verdict.until = Or(Or(to7, to5), answered.unified)
      BY <2>1
    <2>3. /\ verdict.until \in told \/ (told = {} /\ verdict.until = answered.unified)
          /\ d7.reset \in told => verdict.until = d7.reset
      BY <1>0, <1>2, <2>2
    <2> QED BY <2>2, <2>3 DEF ClassifiedRight, h5, d7, told
  <1>5. CASE full5 /\ ~ full7 /\ any # 3
    <2>1. verdict = [class |-> "five_hour", until |-> any]
      BY <1>3, <1>5
    <2>2. verdict.class = "five_hour" /\ verdict.until = any
      BY <2>1
    <2>3. /\ verdict.until \in told \/ (told = {} /\ verdict.until = answered.unified)
          /\ h5.reset \in told => verdict.until = h5.reset
      BY <1>0, <1>2, <2>2
    <2> QED BY <2>2, <2>3 DEF ClassifiedRight, h5, d7, told
  <1>6. CASE any = 3 \/ ~ (full5 \/ full7)
    <2>1. verdict = IF any # 3 \/ answered.retry = "some"
                      THEN [class |-> "burst", until |-> 1]
                      ELSE [class |-> "unreal", until |-> 3]
      BY <1>3, <1>6
    <2>2. any = 3 => told = {} /\ answered.unified = 3
      BY <1>0, <1>2
    <2> QED BY <1>1, <1>6, <2>1, <2>2 DEF ClassifiedRight, h5, d7, told, full5, full7
  <1> QED BY <1>4, <1>5, <1>6

(***************************************************************************)
(* classify_from_headers: however the headers of a 429 are combined, the   *)
(* cooldown ends when they say, and nothing that says it is a limit is     *)
(* taken for something else.                                               *)
(***************************************************************************)
THEOREM HeadersClassified == HeadersSpec => []ClassifiedRight
  <1>1. HeadersInit => HeadersInv
    BY DEF HeadersInit, HeadersInv
  <1>2. HeadersInv /\ [HeadersNext]_headerVars => HeadersInv'
    BY DEF HeadersInv, HeadersNext, Classify, headerVars
  <1>3. HeadersInv => ClassifiedRight
    <2>1. verdict = Unclassified => ClassifiedRight
      BY DEF Unclassified, ClassifiedRight
    <2> QED BY <2>1, EveryClassRight DEF HeadersInv
  <1> QED BY <1>1, <1>2, <1>3, PTL DEF HeadersSpec
-------------------------------------------------------------------------------
(* OAuthLogin.                                                             *)

Users(id) == {x \in Exchanges : exchange[x].verifier = id}

\* A session has been handed out before it is in the store, in a call, or redeemed;
\* and it is in one of these places only.
LoginTypeOK ==
  /\ pending \subseteq issued
  /\ codes \subseteq issued
  /\ issued \subseteq Logins
  /\ expired \subseteq Logins
  /\ exchange \in [Exchanges -> {Idle} \cup [code : issued, verifier : issued]]
  /\ granted \subseteq [code : issued, verifier : issued]

OnePlace(id) ==
  /\ \A x, y \in Users(id) : x = y
  /\ id \in pending => Users(id) = {} /\ [code |-> id, verifier |-> id] \notin granted

LoginInv == LoginTypeOK /\ \A id \in Logins : OnePlace(id)

LEMMA LoginStep == LoginInv /\ [LoginNext]_loginVars => LoginInv'
  <1> SUFFICES ASSUME LoginInv, [LoginNext]_loginVars
               PROVE  LoginInv'
    OBVIOUS
  <1>0. LoginTypeOK /\ \A id \in Logins : OnePlace(id)
    BY DEF LoginInv
  <1>1. ASSUME NEW id \in Logins, Generate(id) PROVE LoginInv'
    <2>1. LoginTypeOK'
      BY <1>0, <1>1 DEF Generate, LoginTypeOK
    <2>2. Users(id) = {} /\ [code |-> id, verifier |-> id] \notin granted
      BY <1>0, <1>1, LoginAssumption DEF Generate, LoginTypeOK, Users, Idle
    <2>3. ASSUME NEW j \in Logins PROVE OnePlace(j)'
      BY <1>0, <1>1, <2>2 DEF Generate, OnePlace, Users
    <2> QED BY <2>1, <2>3 DEF LoginInv
  <1>2. ASSUME NEW id \in Logins, Authorize(id) \/ Age(id) PROVE LoginInv'
    <2>1. LoginTypeOK'
      BY <1>0, <1>2 DEF Authorize, Age, LoginTypeOK
    <2>2. ASSUME NEW j \in Logins PROVE OnePlace(j)'
      BY <1>0, <1>2 DEF Authorize, Age, OnePlace, Users
    <2> QED BY <2>1, <2>2 DEF LoginInv
  <1>3. ASSUME NEW x \in Exchanges, NEW id \in Logins, NEW authCode \in Logins,
               Begin(x, id, authCode)
        PROVE  LoginInv'
    <2>1. LoginTypeOK'
      BY <1>0, <1>3 DEF Begin, Take, LoginTypeOK
    <2>2. Users(id) = {}
      BY <1>0, <1>3 DEF Begin, Take, OnePlace
    <2>3. /\ exchange[x] = Idle /\ id \in pending /\ pending' = pending \ {id}
          /\ granted' = granted
          /\ \A y \in Exchanges \ {x} : exchange'[y] = exchange[y]
          /\ \/ exchange'[x] = exchange[x]
             \/ exchange'[x].verifier = id
      BY <1>0, <1>3 DEF Begin, Take, LoginTypeOK
    <2>4. ASSUME NEW j \in Logins PROVE OnePlace(j)'
      <3>1. CASE j = id
        <4>1. Users(j)' \subseteq {x}
          BY <2>2, <2>3, <3>1 DEF Users
        <4> QED BY <2>3, <3>1, <4>1 DEF OnePlace
      <3>2. CASE j # id
        <4>1. Users(j)' \subseteq Users(j)
          BY <2>3, <3>2 DEF Users
        <4> QED BY <1>0, <2>3, <4>1 DEF OnePlace
      <3> QED BY <3>1, <3>2
    <2> QED BY <2>1, <2>4 DEF LoginInv
  <1>4. ASSUME NEW x \in Exchanges, Finish(x) PROVE LoginInv'
    <2> DEFINE e == exchange[x]
    <2>1. /\ e # Idle /\ e \in [code : issued, verifier : issued]
          /\ exchange' = [exchange EXCEPT ![x] = Idle]
          /\ \/ /\ e.code = e.verifier
                /\ granted' = granted \cup {e} /\ codes' = codes \ {e.code}
             \/ UNCHANGED <<granted, codes>>
          /\ UNCHANGED <<pending, expired, issued>>
      BY <1>0, <1>4 DEF Finish, LoginTypeOK
    <2>2. LoginTypeOK'
      BY <1>0, <2>1 DEF LoginTypeOK
    <2>3. ASSUME NEW j \in Logins PROVE OnePlace(j)'
      <3>1. Users(j)' = Users(j) \ {x}
        BY <1>0, <2>1, LoginAssumption DEF Users, Idle, LoginTypeOK
      <3>2. e = [code |-> j, verifier |-> j] => x \in Users(j)
        BY DEF Users
      <3> QED BY <1>0, <2>1, <3>1, <3>2 DEF OnePlace
    <2> QED BY <2>2, <2>3 DEF LoginInv
  <1>5. ASSUME UNCHANGED loginVars PROVE LoginInv'
    <2>1. LoginTypeOK'
      BY <1>0, <1>5 DEF loginVars, LoginTypeOK
    <2>2. ASSUME NEW j \in Logins PROVE OnePlace(j)'
      BY <1>0, <1>5 DEF loginVars, OnePlace, Users
    <2> QED BY <2>1, <2>2 DEF LoginInv
  <1> QED BY <1>1, <1>2, <1>3, <1>4, <1>5 DEF LoginNext

THEOREM LoginInvariant == LoginSpec => []LoginInv
  <1>1. LoginInit => LoginInv
    <2> SUFFICES ASSUME LoginInit PROVE LoginInv
      OBVIOUS
    <2>1. LoginTypeOK
      BY DEF LoginInit, LoginTypeOK
    <2>2. ASSUME NEW id \in Logins PROVE OnePlace(id)
      BY LoginAssumption DEF LoginInit, OnePlace, Users, Idle
    <2> QED BY <2>1, <2>2 DEF LoginInv
  <1> QED BY <1>1, LoginStep, PTL DEF LoginSpec

(***************************************************************************)
(* SessionStore::take: a login session serves one exchange, whichever call *)
(* takes it, and is redeemed once.                                         *)
(***************************************************************************)
THEOREM LoginsOnce == LoginSpec => []LoginOnce
  <1>1. LoginInv => LoginOnce
    <2> SUFFICES ASSUME LoginInv, NEW id \in Logins
                 PROVE  /\ Cardinality(Users(id)) <= 1
                        /\ id \in pending =>
                             /\ Users(id) = {}
                             /\ [code |-> id, verifier |-> id] \notin granted
      BY DEF LoginOnce, Users
    <2>1. OnePlace(id)
      BY DEF LoginInv
    <2>2. CASE Users(id) = {}
      BY <2>1, <2>2, FS_EmptySet DEF OnePlace
    <2>3. CASE Users(id) # {}
      <3>1. PICK x : Users(id) = {x}
        BY <2>1, <2>3 DEF OnePlace
      <3>2. Cardinality(Users(id)) = 1
        BY <3>1, FS_Singleton
      <3> QED BY <2>1, <2>3, <3>2 DEF OnePlace
    <2> QED BY <2>2, <2>3
  <1> QED BY <1>1, LoginInvariant, PTL
-------------------------------------------------------------------------------
(* SessionIdPool.                                                          *)

Entries == [id : RealIds \cup {"none"}, over : BOOLEAN]

Questions == [acct : PoolAccounts, id : RealIds, size : Nat]

PoolTypeOK ==
  /\ mode \in [PoolAccounts -> {"single", "pool", "off"}]
  /\ slots \in [PoolAccounts -> Seq(Entries)]
  /\ asking \in [PoolCallers -> {NotAsking} \cup Questions]
  /\ poisoned \in BOOLEAN
  /\ saving \in [PoolAccounts -> SUBSET {"current", "older"}]
  /\ shown \in [PoolAccounts -> {"none", "current", "older"}]

\* A request is for one slot, or for the width of its account.
AskedWithin ==
  \A c \in PoolCallers :
    asking[c] # NotAsking => asking[c].size \in {1, PoolWidth[asking[c].acct]}

PoolInv == PoolTypeOK /\ AskedWithin /\ PanicExplained

\* The slot of an id is one of n.
LEMMA SlotInRange ==
  ASSUME NEW id \in RealIds, NEW n \in {1, 3, 4}
  PROVE  SlotOf(id, n) \in 1..n
  <1>1. HashOf[id] \in Nat
    BY PoolAssumption
  <1> QED BY <1>1 DEF SlotOf

\* What a request finds under the lock, and what becomes of it.
LEMMA Mapped ==
  ASSUME PoolTypeOK, AskedWithin, NEW c \in PoolCallers, MapId(c)
  PROVE  LET a == asking[c].acct IN
         /\ a \in PoolAccounts
         /\ slots' \in [PoolAccounts -> Seq(Entries)]
         /\ \A b \in PoolAccounts \ {a} : slots'[b] = slots[b]
         /\ Len(slots'[a]) # 0
         /\ slots[a] # <<>> => Len(slots'[a]) = Len(slots[a])
         /\ poisoned' => Len(slots'[a]) < PoolWidth[a]
         /\ poisoned' \in BOOLEAN
  <1> DEFINE q == asking[c]
             a == q.acct
             n == q.size
             has == IF slots[a] = <<>> THEN [i \in 1..n |-> Empty] ELSE slots[a]
             i == SlotOf(q.id, n)
             new == [has EXCEPT ![i] = [id |-> q.id, over |-> FALSE]]
  <1>1. /\ q \in Questions /\ n \in {1, PoolWidth[a]} /\ a \in PoolAccounts
        /\ PoolWidth[a] \in {3, 4} /\ q.id \in RealIds
    BY PoolAssumption DEF MapId, PoolTypeOK, AskedWithin, Questions
  <1>2. n \in {1, 3, 4} /\ i \in 1..n
    BY <1>1, SlotInRange
  <1>3. Empty \in Entries
    BY DEF Empty, Entries
  <1>4. /\ has \in Seq(Entries) /\ Len(has) \in Nat \ {0}
        /\ slots[a] = <<>> => Len(has) = n
        /\ slots[a] # <<>> => has = slots[a]
    <2>1. CASE slots[a] = <<>>
      <3> HIDE DEF n
      <3>1. has = [j \in 1..n |-> Empty]
        BY <2>1
      <3>2. n \in Nat \ {0} /\ [j \in 1..n |-> Empty] \in Seq(Entries)
        BY <1>2, <1>3
      <3>3. Len([j \in 1..n |-> Empty]) = n
        BY <3>2
      <3> QED BY <2>1, <3>1, <3>2, <3>3
    <2>2. CASE slots[a] # <<>>
      <3>1. slots[a] \in Seq(Entries)
        BY <1>1 DEF PoolTypeOK
      <3> QED BY <2>2, <3>1, EmptySeq
    <2> QED BY <2>1, <2>2
  <1>5. /\ poisoned' = (i > Len(has))
        /\ \/ slots' = [slots EXCEPT ![a] = has]
           \/ slots' = [slots EXCEPT ![a] = new] /\ i <= Len(has)
    BY DEF MapId
  <1> HIDE DEF has, i, n
  <1>6. /\ i > Len(has) => Len(has) < PoolWidth[a]
    BY <1>1, <1>2, <1>4
  <1>7. \E v \in Seq(Entries) : slots' = [slots EXCEPT ![a] = v] /\ Len(v) = Len(has)
    <2>1. CASE slots' = [slots EXCEPT ![a] = has]
      BY <1>4, <2>1
    <2>2. CASE slots' = [slots EXCEPT ![a] = new] /\ i <= Len(has)
      <3>1. i \in 1..Len(has)
        BY <1>2, <1>4, <2>2, <1>1
      <3>2. [id |-> q.id, over |-> FALSE] \in Entries
        BY <1>1 DEF Entries
      <3>3. new \in Seq(Entries) /\ Len(new) = Len(has)
        BY <1>4, <3>1, <3>2, ExceptSeq
      <3> HIDE DEF new
      <3> QED BY <2>2, <3>3
    <2> QED BY <1>5, <2>1, <2>2
  <1>8. PICK v \in Seq(Entries) : slots' = [slots EXCEPT ![a] = v] /\ Len(v) = Len(has)
    BY <1>7
  <1>9. /\ slots' \in [PoolAccounts -> Seq(Entries)]
        /\ \A b \in PoolAccounts \ {a} : slots'[b] = slots[b]
        /\ slots'[a] = v
    BY <1>1, <1>8 DEF PoolTypeOK
  <1> HIDE DEF a
  <1>10. /\ Len(slots'[a]) # 0
         /\ slots[a] # <<>> => Len(slots'[a]) = Len(slots[a])
         /\ poisoned' => Len(slots'[a]) < PoolWidth[a]
         /\ poisoned' \in BOOLEAN
    <2>1. Len(slots'[a]) = Len(has)
      BY <1>8, <1>9
    <2>2. poisoned' => Len(has) < PoolWidth[a]
      BY <1>5, <1>6, Zenon
    <2>3. Len(has) # 0 /\ (slots[a] # <<>> => Len(has) = Len(slots[a]))
      BY <1>4
    <2>4. poisoned' \in BOOLEAN
      BY <1>5, SMT
    <2> QED BY <2>1, <2>2, <2>3, <2>4
  <1> QED BY <1>1, <1>9, <1>10 DEF a

LEMMA PoolStep == PoolInv /\ [PoolNext]_poolVars => PoolInv'
  <1> SUFFICES ASSUME PoolInv, [PoolNext]_poolVars
               PROVE  PoolInv'
    OBVIOUS
  <1>0. PoolTypeOK /\ AskedWithin /\ PanicExplained
    BY DEF PoolInv
  <1>1. ASSUME NEW a \in PoolAccounts, SetMode(a) PROVE PoolInv'
    BY <1>0, <1>1 DEF SetMode, PoolInv, PoolTypeOK, AskedWithin, PanicExplained
  <1>2. ASSUME NEW a \in PoolAccounts, NEW w \in saving[a], Persist(a, w) PROVE PoolInv'
    BY <1>0, <1>2 DEF Persist, PoolInv, PoolTypeOK, AskedWithin, PanicExplained
  <1>3. ASSUME NEW a \in PoolAccounts, NEW i \in 1..Len(slots[a]), Rotate(a, i)
        PROVE  PoolInv'
    <2> DEFINE turned == [slots[a] EXCEPT ![i].over = TRUE]
    <2>1. slots[a] \in Seq(Entries) /\ slots[a][i] \in Entries
      BY <1>0, ElementOfSeq DEF PoolTypeOK
    <2>2. [slots[a][i] EXCEPT !.over = TRUE] \in Entries
      BY <2>1 DEF Entries
    <2>3. turned \in Seq(Entries) /\ Len(turned) = Len(slots[a])
      BY <2>1, <2>2, ExceptSeq
    <2>4. slots' = [slots EXCEPT ![a] = turned]
      BY <1>3 DEF Rotate
    <2> HIDE DEF turned
    <2>5. /\ slots' \in [PoolAccounts -> Seq(Entries)]
          /\ \A b \in PoolAccounts : Len(slots'[b]) = Len(slots[b])
      BY <1>0, <2>3, <2>4 DEF PoolTypeOK
    <2>6. UNCHANGED <<mode, asking, poisoned, saving, shown>>
      BY <1>3 DEF Rotate
    <2> QED BY <1>0, <2>5, <2>6 DEF PoolInv, PoolTypeOK, AskedWithin, PanicExplained
  <1>4. ASSUME NEW a \in PoolAccounts, NEW c \in PoolCallers, NEW id \in RealIds,
               Ask(c, a, id)
        PROVE  PoolInv'
    <2> DEFINE q == [acct |-> a, id |-> id, size |-> PoolSize(a)]
    <2>1. PoolSize(a) \in {1, PoolWidth[a]} /\ PoolSize(a) \in Nat
      BY PoolAssumption DEF PoolSize
    <2>2. q \in Questions /\ q.size \in {1, PoolWidth[q.acct]}
      BY <2>1 DEF Questions
    <2>3. asking' = [asking EXCEPT ![c] = q]
      BY <1>4 DEF Ask
    <2> HIDE DEF q
    <2>4. AskedWithin' /\ asking' \in [PoolCallers -> {NotAsking} \cup Questions]
      BY <1>0, <2>2, <2>3 DEF AskedWithin, PoolTypeOK
    <2>5. UNCHANGED <<mode, slots, poisoned, saving, shown>>
      BY <1>4 DEF Ask
    <2> QED BY <1>0, <2>4, <2>5 DEF PoolInv, PoolTypeOK, PanicExplained
  <1>5. ASSUME NEW c \in PoolCallers, MapId(c) \/ PanicAgain(c)
        PROVE  AskedWithin' /\ asking' \in [PoolCallers -> {NotAsking} \cup Questions]
    <2>1. asking' = [asking EXCEPT ![c] = NotAsking]
      BY <1>5 DEF MapId, PanicAgain
    <2> QED BY <1>0, <2>1 DEF AskedWithin, PoolTypeOK
  <1>6. ASSUME NEW c \in PoolCallers, MapId(c) PROVE PoolInv'
    <2> DEFINE a == asking[c].acct
    <2>1. /\ a \in PoolAccounts
          /\ slots' \in [PoolAccounts -> Seq(Entries)]
          /\ Len(slots'[a]) # 0
          /\ poisoned' => Len(slots'[a]) < PoolWidth[a]
          /\ poisoned' \in BOOLEAN
      BY <1>0, <1>6, Mapped
    <2>2. /\ mode' = mode
          /\ \/ Save(a)
             \/ UNCHANGED <<saving, shown>>
      BY <1>6 DEF MapId
    <2>3. /\ saving' \in [PoolAccounts -> SUBSET {"current", "older"}]
          /\ shown' \in [PoolAccounts -> {"none", "current", "older"}]
      <3>1. /\ saving \in [PoolAccounts -> SUBSET {"current", "older"}]
            /\ shown \in [PoolAccounts -> {"none", "current", "older"}]
        BY <1>0 DEF PoolTypeOK
      <3>2. CASE Save(a)
        <4>1. \E w \in SUBSET {"current", "older"} : saving' = [saving EXCEPT ![a] = w]
          BY <3>2 DEF Save
        <4>2. \E w \in {"none", "older"} : shown' = [shown EXCEPT ![a] = w]
          BY <3>1, <3>2, <2>1 DEF Save
        <4> QED BY <3>1, <4>1, <4>2
      <3> QED BY <2>2, <3>1, <3>2
    <2>4. PoolTypeOK'
      BY <1>0, <1>5, <1>6, <2>1, <2>2, <2>3 DEF PoolTypeOK
    <2>5. PanicExplained'
      <3>1. Len(slots'[a]) \in Nat
        BY <2>1, LenProperties
      <3>2. PoolWidth[a] \in {3, 4}
        BY <2>1, PoolAssumption
      <3> QED BY <2>1, <3>1, <3>2 DEF PanicExplained
    <2> QED BY <1>5, <1>6, <2>4, <2>5 DEF PoolInv
  <1>7. ASSUME NEW c \in PoolCallers, PanicAgain(c) PROVE PoolInv'
    <2>1. UNCHANGED <<mode, slots, poisoned, saving, shown>>
      BY <1>7 DEF PanicAgain
    <2> QED BY <1>0, <1>5, <1>7, <2>1 DEF PoolInv, PoolTypeOK, PanicExplained
  <1>8. ASSUME UNCHANGED poolVars PROVE PoolInv'
    BY <1>0, <1>8 DEF poolVars, PoolInv, PoolTypeOK, AskedWithin, PanicExplained
  <1> QED BY <1>1, <1>2, <1>3, <1>4, <1>6, <1>7, <1>8 DEF PoolNext

THEOREM PoolInvariant == PoolSpec => []PoolInv
  <1>1. PoolInit => PoolInv
    <2> SUFFICES ASSUME PoolInit PROVE PoolInv
      OBVIOUS
    <2>1. <<>> \in Seq(Entries)
      OBVIOUS
    <2>2. PoolTypeOK
      BY <2>1 DEF PoolInit, PoolTypeOK
    <2> QED BY <2>2 DEF PoolInit, PoolInv, AskedWithin, PanicExplained
  <1> QED BY <1>1, PoolStep, PTL DEF PoolSpec

(***************************************************************************)
(* map_session_id poisons the lock of all accounts only through an account *)
(* that kept fewer slots than it was asked for, after its mode changed.    *)
(***************************************************************************)
THEOREM PanicsExplained == PoolSpec => []PanicExplained
  <1>1. PoolInv => PanicExplained
    BY DEF PoolInv
  <1> QED BY <1>1, PoolInvariant, PTL
-------------------------------------------------------------------------------
(* ThinkingRepair.                                                         *)

\* Any naturals have a smallest one.
LEMMA SmallestThere ==
  ASSUME NEW S, S \subseteq Nat, S # {}
  PROVE  \E m \in S : \A k \in S : m <= k
  <1>1. IsWellFoundedOn(OpToRel(<, Nat), Nat)
    BY NatLessThanWellFounded
  <1>2. PICK m \in S : \A k \in S : <<k, m>> \notin OpToRel(<, Nat)
    BY <1>1, WFMin
  <1>3. \A k \in S : ~(k < m)
    BY <1>2 DEF OpToRel
  <1>4. \A k \in S : m <= k
    <2> SUFFICES ASSUME NEW k \in S PROVE m <= k
      OBVIOUS
    <2>1. m \in Nat /\ k \in Nat /\ ~(k < m)
      BY <1>3
    <2> QED BY <2>1
  <1> QED BY <1>4

\* The values of the recursive function of FlattenSeq, up to n.
Stages(f, seqs, n) ==
  f = [i \in 1..n |-> IF i = 1 THEN seqs[i] ELSE f[i - 1] \o seqs[i]]

\* FlattenSeq is recursive; that its function exists is shown by the smallest n of
\* which it does not.
LEMMA StagesThere ==
  ASSUME NEW seqs, NEW n \in Nat
  PROVE  \E f : Stages(f, seqs, n)
  <1> DEFINE Bad == {m \in Nat : ~ \E f : Stages(f, seqs, m)}
  <1> SUFFICES ASSUME Bad # {} PROVE FALSE
    OBVIOUS
  <1>1. PICK m \in Bad : \A k \in Bad : m <= k
    BY SmallestThere
  <1>2. CASE m = 0
    <2>1. Stages([i \in 1..0 |-> i], seqs, 0)
      BY DEF Stages
    <2> QED BY <1>2, <2>1
  <1>3. CASE m # 0
    <2>1. m \in Nat /\ m - 1 \in Nat /\ m - 1 \notin Bad
      BY <1>1, <1>3
    <2>2. PICK f : Stages(f, seqs, m - 1)
      BY <2>1
    <2> DEFINE new(i) == IF i = 1 THEN seqs[i] ELSE f[i - 1] \o seqs[i]
               g == [i \in 1..m |-> new(i)]
    <2>3. \A i \in 1..(m - 1) : f[i] = new(i)
      BY <2>2 DEF Stages
    <2>4. \A i \in 1..m : g[i] = IF i = 1 THEN seqs[i] ELSE g[i - 1] \o seqs[i]
      <3> SUFFICES ASSUME NEW i \in 1..m
                   PROVE  g[i] = IF i = 1 THEN seqs[i] ELSE g[i - 1] \o seqs[i]
        OBVIOUS
      <3>1. g[i] = new(i)
        OBVIOUS
      <3>2. i # 1 => i - 1 \in 1..(m - 1) /\ i - 1 \in 1..m
        BY <2>1
      <3>3. i # 1 => g[i - 1] = f[i - 1]
        BY <2>3, <3>2
      <3> QED BY <3>1, <3>3
    <2>5. Stages(g, seqs, m)
      <3> HIDE DEF new
      <3>1. g = [i \in 1..m |-> g[i]]
        OBVIOUS
      <3> HIDE DEF g
      <3> QED BY <2>4, <3>1 DEF Stages
    <2> QED BY <1>1, <2>5
  <1> QED BY <1>2, <1>3

\* FlattenSeq puts one piece after the other.
LEMMA Flattened ==
  ASSUME NEW seqs, NEW n \in Nat \ {0}, Len(seqs) = n
  PROVE  \E f : /\ f[1] = seqs[1]
                /\ \A i, j \in 1..n : j = i + 1 => f[j] = f[i] \o seqs[j]
                /\ FlattenSeq(seqs) = f[n]
  <1> DEFINE f == CHOOSE g : Stages(g, seqs, n)
  <1>1. Stages(f, seqs, n)
    BY StagesThere
  <1>2. FlattenSeq(seqs) = f[n]
    BY DEF FlattenSeq, Stages
  <1> HIDE DEF f
  <1> DEFINE at(i) == IF i = 1 THEN seqs[i] ELSE f[i - 1] \o seqs[i]
  <1>3. f = [i \in 1..n |-> at(i)]
    BY <1>1 DEF Stages
  <1> HIDE DEF at
  <1>4. \A i \in 1..n : f[i] = at(i)
    BY <1>3
  <1>5. f[1] = seqs[1]
    BY <1>4 DEF at
  <1>6. ASSUME NEW i \in 1..n, NEW j \in 1..n, j = i + 1
        PROVE  f[j] = f[i] \o seqs[j]
    <2>1. j # 1 /\ j - 1 = i
      BY <1>6
    <2>2. f[j] = f[j - 1] \o seqs[j]
      BY <1>4, <2>1 DEF at
    <2> QED BY <2>1, <2>2
  <1> QED BY <1>2, <1>5, <1>6

\* The blocks of the first n of some kinds.
CountTo(s, n, kinds) == Cardinality({i \in 1..n : s[i] \in kinds})

LEMMA OneMore ==
  ASSUME NEW s, NEW n \in Nat, NEW kinds
  PROVE  /\ CountTo(s, 0, kinds) = 0
         /\ CountTo(s, n, kinds) \in Nat
         /\ CountTo(s, n + 1, kinds) =
              CountTo(s, n, kinds) + (IF s[n + 1] \in kinds THEN 1 ELSE 0)
  <1> DEFINE here == {i \in 1..n : s[i] \in kinds}
             next == {i \in 1..(n + 1) : s[i] \in kinds}
  <1>1. CountTo(s, 0, kinds) = 0
    <2>1. {i \in 1..0 : s[i] \in kinds} = {}
      OBVIOUS
    <2> QED BY <2>1, FS_EmptySet DEF CountTo
  <1>2. IsFiniteSet(here)
    <2>1. IsFiniteSet(1..n) /\ here \in SUBSET (1..n)
      BY FS_Interval
    <2> QED BY <2>1, FS_Subset
  <1>3. next = IF s[n + 1] \in kinds THEN here \cup {n + 1} ELSE here
    OBVIOUS
  <1>4. n + 1 \notin here
    OBVIOUS
  <1> HIDE DEF here, next
  <1>5. Cardinality(here) \in Nat
    BY <1>2, FS_CardinalityType
  <1>6. Cardinality(here \cup {n + 1}) = Cardinality(here) + 1
    BY <1>2, <1>4, FS_AddElement
  <1>7. Cardinality(next) = Cardinality(here) + (IF s[n + 1] \in kinds THEN 1 ELSE 0)
    BY <1>3, <1>5, <1>6
  <1> QED BY <1>1, <1>5, <1>7 DEF CountTo, here, next

\* The blocks that a repair leaves.
KeptKinds(tools) == {"text", "other"} \cup (IF tools THEN {} ELSE {"use", "result"})

\* A repair keeps these kinds of blocks: what takes the place of one is one of them too.
Followed(kinds, tools) ==
  \A b \in Blocks :
    \/ Instead(b, tools) = <<>> /\ b \notin kinds
    \/ \E c \in KeptKinds(tools) : Instead(b, tools) = <<c>> /\ (c \in kinds <=> b \in kinds)

\* What the first n blocks of a message have become.
Rewritten(new, content, n, tools, kinds) ==
  /\ new \in Seq(KeptKinds(tools))
  /\ CountTo(new, Len(new), kinds) = CountTo(content, n, kinds)
  /\ content \in Seq(KeptKinds(tools)) => Len(new) = n /\ \A i \in 1..n : new[i] = content[i]

\* transform_message goes on by a block.
LEMMA NextBlock ==
  ASSUME NEW content \in Seq(Blocks), NEW tools \in BOOLEAN, NEW kinds,
         Followed(kinds, tools),
         NEW n \in Nat, NEW m \in 1..Len(content), m = n + 1,
         NEW new, Rewritten(new, content, n, tools, kinds)
  PROVE  Rewritten(new \o Instead(content[m], tools), content, m, tools, kinds)
  <1> DEFINE K == KeptKinds(tools)
             b == content[m]
  <1>1. Len(content) \in Nat /\ b \in Blocks
    BY LenProperties
  <1>2. new \in Seq(K) /\ Len(new) \in Nat
    BY LenProperties DEF Rewritten
  <1>3. CountTo(content, m, kinds) =
          CountTo(content, n, kinds) + (IF b \in kinds THEN 1 ELSE 0)
    BY OneMore
  <1>4. CountTo(content, n, kinds) \in Nat
    BY OneMore
  <1>5. ASSUME content \in Seq(K) PROVE Instead(b, tools) = <<b>>
    <2>1. b \in K
      BY <1>1, <1>5
    <2> QED BY <2>1 DEF KeptKinds, Instead, Tools
  <1>6. CASE Instead(b, tools) = <<>> /\ b \notin kinds
    <2>1. new \o Instead(b, tools) = new
      BY <1>2, <1>6, ConcatEmptySeq
    <2>2. content \notin Seq(K)
      <3>1. <<b>> # <<>>
        OBVIOUS
      <3> QED BY <1>5, <1>6, <3>1
    <2> QED BY <1>3, <1>4, <1>6, <2>1, <2>2 DEF Rewritten
  <1>7. CASE \E c \in K : Instead(b, tools) = <<c>> /\ (c \in kinds <=> b \in kinds)
    <2>1. PICK c \in K : Instead(b, tools) = <<c>> /\ (c \in kinds <=> b \in kinds)
      BY <1>7
    <2> DEFINE next == new \o <<c>>
    <2>2. next = Append(new, c)
      BY <1>2, <2>1
    <2>3. /\ next \in Seq(K) /\ Len(next) = Len(new) + 1
          /\ \A i \in 1..Len(new) : next[i] = new[i]
          /\ next[Len(new) + 1] = c
      BY <1>2, <2>2, AppendProperties
    <2> HIDE DEF next
    <2>4. CountTo(next, Len(next), kinds) = CountTo(content, m, kinds)
      <3>1. {i \in 1..Len(new) : next[i] \in kinds} = {i \in 1..Len(new) : new[i] \in kinds}
        BY <2>3
      <3>2. CountTo(next, Len(new), kinds) = CountTo(new, Len(new), kinds)
        BY <3>1 DEF CountTo
      <3>3. CountTo(next, Len(new) + 1, kinds) =
              CountTo(next, Len(new), kinds) + (IF next[Len(new) + 1] \in kinds THEN 1 ELSE 0)
        BY <1>2, OneMore
      <3> QED BY <1>3, <2>1, <2>3, <3>2, <3>3 DEF Rewritten
    <2>5. ASSUME content \in Seq(K)
          PROVE  Len(next) = m /\ \A i \in 1..m : next[i] = content[i]
      <3>1. c = b
        <4>1. <<c>>[1] = c /\ <<b>>[1] = b
          OBVIOUS
        <4> QED BY <1>5, <2>1, <2>5, <4>1
      <3>2. Len(new) = n /\ \A i \in 1..n : new[i] = content[i]
        BY <2>5 DEF Rewritten
      <3> QED BY <2>3, <3>1, <3>2
    <2> QED BY <2>1, <2>3, <2>4, <2>5 DEF next, Rewritten
  <1> QED BY <1>1, <1>6, <1>7 DEF Followed

\* What transform_message makes of the blocks, before the placeholder.
LEMMA AllBlocks ==
  ASSUME NEW content \in Seq(Blocks), NEW tools \in BOOLEAN, NEW kinds,
         Followed(kinds, tools)
  PROVE  Rewritten(FlattenSeq([i \in DOMAIN content |-> Instead(content[i], tools)]),
                   content, Len(content), tools, kinds)
  <1> DEFINE K == KeptKinds(tools)
             n == Len(content)
             pieces == [i \in DOMAIN content |-> Instead(content[i], tools)]
  <1>1. n \in Nat /\ DOMAIN content = 1..n /\ content \in [1..n -> Blocks]
    BY LenProperties
  <1>2. Rewritten(<<>>, content, 0, tools, kinds)
    <2>1. <<>> \in Seq(K) /\ Len(<<>>) = 0
      BY EmptySeq
    <2>2. CountTo(<<>>, 0, kinds) = 0 /\ CountTo(content, 0, kinds) = 0
      BY OneMore
    <2> QED BY <2>1, <2>2 DEF Rewritten
  <1>3. \A i \in 1..n : pieces[i] = Instead(content[i], tools)
    BY <1>1
  <1>4. Len(pieces) = n
    <2>1. pieces = [i \in 1..n |-> Instead(content[i], tools)]
      BY <1>1
    <2> QED BY <1>1, <2>1
  <1>5. CASE n = 0
    <2>1. pieces = <<>>
      BY <1>1, <1>5
    <2>2. FlattenSeq(pieces) = <<>>
      BY <1>4, <1>5, <2>1 DEF FlattenSeq
    <2> QED BY <1>2, <1>5, <2>2
  <1>6. CASE n # 0
    <2>0. n \in Nat \ {0} /\ Len(pieces) = n
      BY <1>1, <1>4, <1>6
    <2> HIDE DEF n, pieces
    <2>1. PICK f : /\ f[1] = pieces[1]
                   /\ \A i, j \in 1..n : j = i + 1 => f[j] = f[i] \o pieces[j]
                   /\ FlattenSeq(pieces) = f[n]
      BY <2>0, Flattened
    <2> DEFINE Bad == {i \in 1..n : ~Rewritten(f[i], content, i, tools, kinds)}
    <2>2. 1 \notin Bad
      <3>1. content[1] \in Blocks
        BY <1>1, <1>6
      <3>2. <<>> \o Instead(content[1], tools) = Instead(content[1], tools)
        <4>1. CASE Instead(content[1], tools) = <<>>
          <5>1. <<>> \in Seq(K)
            BY EmptySeq
          <5> QED BY <4>1, <5>1, ConcatEmptySeq
        <4>2. CASE \E c \in K : Instead(content[1], tools) = <<c>>
          <5>1. PICK c \in K : Instead(content[1], tools) = <<c>>
            BY <4>2
          <5>2. <<c>> \in Seq(K)
            OBVIOUS
          <5> QED BY <5>1, <5>2, ConcatEmptySeq
        <4> QED BY <3>1, <4>1, <4>2 DEF Followed
      <3>3. 1 \in 1..n /\ 1 \in 1..Len(content) /\ 0 \in Nat /\ 1 = 0 + 1
        BY <1>1, <1>6 DEF n
      <3>4. Rewritten(<<>> \o Instead(content[1], tools), content, 1, tools, kinds)
        BY <1>2, <3>3, NextBlock
      <3>5. f[1] = Instead(content[1], tools)
        BY <1>3, <2>1, <3>3
      <3> QED BY <3>2, <3>4, <3>5
    <2>3. ASSUME NEW i \in 1..n, NEW j \in 1..n, j = i + 1, i \notin Bad
          PROVE  j \notin Bad
      <3>1. f[j] = f[i] \o Instead(content[j], tools)
        BY <1>3, <2>1, <2>3
      <3>2. i \in Nat /\ j \in 1..Len(content)
        BY <1>1, <2>3 DEF n
      <3>3. Rewritten(f[i] \o Instead(content[j], tools), content, j, tools, kinds)
        BY <2>3, <3>2, NextBlock
      <3> QED BY <3>1, <3>3
    <2>4. Bad \subseteq 1..n
      OBVIOUS
    <2>5. n \notin Bad => Rewritten(f[n], content, n, tools, kinds)
      BY <1>1, <1>6
    <2> HIDE DEF Bad
    <2>6. Bad = {}
      <3> SUFFICES ASSUME Bad # {} PROVE FALSE
        OBVIOUS
      <3>1. Bad \subseteq Nat
        BY <1>1, <2>4
      <3>2. PICK m \in Bad : \A k \in Bad : m <= k
        BY <3>1, SmallestThere
      <3>3. m # 1 /\ m \in 1..n
        BY <2>2, <2>4
      <3>4. m - 1 \in 1..n /\ m = (m - 1) + 1 /\ ~(m <= m - 1)
        BY <1>1, <3>3
      <3>5. m - 1 \notin Bad
        BY <3>2, <3>4
      <3> QED BY <2>3, <3>2, <3>3, <3>4, <3>5
    <2> QED BY <2>1, <2>5, <2>6 DEF n, pieces
  <1> QED BY <1>5, <1>6

\* The count of all blocks of a message.
LEMMA AllCounted ==
  ASSUME NEW content \in Seq(Blocks), NEW kinds
  PROVE  Count(content, kinds) = CountTo(content, Len(content), kinds)
  <1>1. DOMAIN content = 1..Len(content)
    BY LenProperties
  <1> QED BY <1>1 DEF Count, CountTo

(***************************************************************************)
(* transform_message: what is left are blocks of the kinds that a repair   *)
(* keeps, as many as there were of any that it only moves, and a message   *)
(* of such blocks stays as it is.                                          *)
(***************************************************************************)
LEMMA MessageTransformed ==
  ASSUME NEW content \in Seq(Blocks), NEW tools \in BOOLEAN, NEW kinds,
         Followed(kinds, tools)
  PROVE  LET new == TransformMessage(content, tools) IN
         /\ new \in Seq(KeptKinds(tools)) /\ new \in Seq(Blocks)
         /\ "text" \notin kinds => Count(new, kinds) = Count(content, kinds)
         /\ content \in Seq(KeptKinds(tools)) => new = content
         /\ new = <<>> => content = <<>>
  <1> DEFINE K == KeptKinds(tools)
             flat == FlattenSeq([i \in DOMAIN content |-> Instead(content[i], tools)])
             new == TransformMessage(content, tools)
  <1> SUFFICES /\ new \in Seq(K) /\ new \in Seq(Blocks)
               /\ "text" \notin kinds => Count(new, kinds) = Count(content, kinds)
               /\ content \in Seq(K) => new = content
               /\ new = <<>> => content = <<>>
    OBVIOUS
  <1>1. K \subseteq Blocks /\ "text" \in K
    BY DEF KeptKinds, Blocks
  <1>2. Rewritten(flat, content, Len(content), tools, kinds)
    BY AllBlocks
  <1>3. new = IF flat = content THEN content ELSE Filled(flat)
    BY DEF TransformMessage
  <1> HIDE DEF flat, new, K
  <1>4. flat \in Seq(K)
    BY <1>2 DEF Rewritten, K
  <1>5. flat \in Seq(Blocks)
    BY <1>1, <1>4, SeqMonotonic
  <1>6. CountTo(flat, Len(flat), kinds) = CountTo(content, Len(content), kinds)
    BY <1>2 DEF Rewritten
  <1>7. Count(flat, kinds) = Count(content, kinds)
    BY <1>5, <1>6, AllCounted
  <1>8. ASSUME content \in Seq(K) PROVE flat = content
    <2>1. Len(flat) = Len(content) /\ \A i \in 1..Len(content) : flat[i] = content[i]
      BY <1>2, <1>8 DEF Rewritten, K
    <2> QED BY <1>4, <1>8, <2>1, SeqEqual
  <1>9. <<"text">> \in Seq(K) /\ <<"text">> # <<>>
    BY <1>1
  <1>10. CASE flat = content \/ flat # <<>>
    <2>1. new = flat /\ (flat = <<>> => content = <<>>)
      BY <1>3, <1>10 DEF Filled
    <2> QED BY <1>4, <1>5, <1>7, <1>8, <2>1
  <1>11. CASE flat # content /\ flat = <<>>
    <2>1. new = <<"text">>
      BY <1>3, <1>11 DEF Filled
    <2>2. new \in Seq(Blocks)
      BY <1>1, <1>9, <2>1, SeqMonotonic
    <2>3. ASSUME "text" \notin kinds PROVE Count(new, kinds) = Count(flat, kinds)
      <3>1. {i \in DOMAIN <<"text">> : <<"text">>[i] \in kinds} = {}
        BY <2>3
      <3>2. {i \in DOMAIN flat : flat[i] \in kinds} = {}
        BY <1>11
      <3> QED BY <2>1, <3>1, <3>2 DEF Count
    <2>4. new \in Seq(K) /\ new # <<>>
      BY <1>9, <2>1
    <2>5. content \notin Seq(K)
      BY <1>8, <1>11
    <2>6. "text" \notin kinds => Count(new, kinds) = Count(content, kinds)
      BY <1>7, <2>3
    <2> QED BY <2>2, <2>4, <2>5, <2>6
  <1> QED BY <1>10, <1>11

\* The placeholder's fault apart: what each repair keeps, and what the first moves.
LEMMA RepairsKeep ==
  /\ \A tools \in BOOLEAN : Followed({}, tools) /\ Followed({"other"}, tools)
  /\ Followed(Tools, FALSE)
  <1> DEFINE Good(b, tools) ==
               \/ Instead(b, tools) = <<>> /\ b # "other" /\ b \notin Tools
               \/ \E c \in KeptKinds(tools) :
                     /\ Instead(b, tools) = <<c>>
                     /\ c = "other" <=> b = "other"
                     /\ ~tools => (c \in Tools <=> b \in Tools)
  <1>0. ASSUME \A b \in Blocks, tools \in BOOLEAN : Good(b, tools)
        PROVE  /\ \A tools \in BOOLEAN : Followed({}, tools) /\ Followed({"other"}, tools)
               /\ Followed(Tools, FALSE)
    <2>1. \A tools \in BOOLEAN : Followed({}, tools)
      BY <1>0, Zenon DEF Followed
    <2>2. \A tools \in BOOLEAN : Followed({"other"}, tools)
      <3> SUFFICES ASSUME NEW tools \in BOOLEAN, NEW b \in Blocks
                   PROVE  \/ Instead(b, tools) = <<>> /\ b \notin {"other"}
                          \/ \E c \in KeptKinds(tools) :
                                Instead(b, tools) = <<c>> /\ (c \in {"other"} <=> b \in {"other"})
        BY DEF Followed
      <3> QED BY <1>0, Zenon
    <2>3. Followed(Tools, FALSE)
      <3>1. FALSE \in BOOLEAN
        OBVIOUS
      <3> QED BY <1>0, <3>1, Zenon DEF Followed
    <2> QED BY <2>1, <2>2, <2>3
  <1> SUFFICES ASSUME NEW b \in Blocks, NEW tools \in BOOLEAN
               PROVE  Good(b, tools)
    BY <1>0
  <1>1. CASE b \in {"thinking", "untyped"}
    <2>1. Instead(b, tools) = <<"text">>
      BY <1>1 DEF Instead
    <2> QED BY <1>1, <2>1 DEF KeptKinds, Tools
  <1>2. CASE b \in {"empty", "blank", "redacted"}
    <2>1. b \notin {"thinking", "untyped"}
      BY <1>2
    <2>2. b \notin Tools /\ b # "hollow"
      BY <1>2 DEF Tools
    <2>3. Instead(b, tools) = <<>>
      BY <1>2, <2>1, <2>2, Zenon DEF Instead
    <2> QED BY <1>2, <2>3 DEF Tools
  <1>3. CASE b \in Tools /\ tools
    <2>1. Instead(b, tools) = <<"text">>
      BY <1>3 DEF Instead, Tools
    <2> QED BY <1>3, <2>1 DEF KeptKinds, Tools
  <1>4. CASE b = "hollow" /\ ~tools
    <2>1. Instead(b, tools) = <<"result">>
      BY <1>4 DEF Instead, Tools
    <2> QED BY <1>4, <2>1 DEF KeptKinds, Tools
  <1>5. CASE b \in {"use", "result"} /\ ~tools
    <2>1. Instead(b, tools) = <<b>>
      BY <1>5 DEF Instead, Tools
    <2> QED BY <1>5, <2>1 DEF KeptKinds, Tools
  <1>6. CASE b \in {"text", "other"}
    <2>1. Instead(b, tools) = <<b>>
      BY <1>6 DEF Instead, Tools
    <2> QED BY <1>6, <2>1 DEF KeptKinds, Tools
  <1> QED BY <1>1, <1>2, <1>3, <1>4, <1>5, <1>6 DEF Blocks, Tools

\* No block of a message of other kinds is counted.
LEMMA NoneCounted ==
  ASSUME NEW S, NEW content \in Seq(S), NEW kinds, S \cap kinds = {}
  PROVE  Count(content, kinds) = 0
  <1>1. \A i \in DOMAIN content : content[i] \in S
    BY LenProperties
  <1>2. {i \in DOMAIN content : content[i] \in kinds} = {}
    BY <1>1
  <1> QED BY <1>2, FS_EmptySet DEF Count

LEMMA RepairedClean ==
  ASSUME NEW body \in Bodies, NEW tools \in BOOLEAN
  PROVE  LET again == TransformForRetry(body, tools) IN
         /\ ~again.thinking
         /\ again.strategy => body.strategy /\ ~body.thinking
         /\ Count(again.content, Signed \cup {"empty", "hollow"}) = 0
         /\ again.content = <<>> => body.content = <<>>
         /\ Count(again.content, {"other"}) = Count(body.content, {"other"})
         /\ Count(again.content, Tools) = IF tools THEN 0 ELSE Count(body.content, Tools)
         /\ TransformForRetry(again, tools) = again
  <1> DEFINE old == body.content
             new == TransformMessage(old, tools)
             again == TransformForRetry(body, tools)
             K == KeptKinds(tools)
  <1>1. old \in Seq(Blocks)
    <2>1. body.content \in BoundedSeq(Blocks, MaxBlocks)
      BY DEF Bodies
    <2>2. PICK m \in 0..MaxBlocks : body.content \in [1..m -> Blocks]
      BY <2>1 DEF BoundedSeq, SeqOf
    <2> QED BY <2>2, SeqDef, RepairAssumption
  <1>2. again = [thinking |-> FALSE, strategy |-> body.strategy /\ ~body.thinking,
                content |-> new]
    BY DEF TransformForRetry
  <1> HIDE DEF old, new, again, K
  <1>3. /\ new \in Seq(K) /\ new \in Seq(Blocks)
        /\ new = <<>> => old = <<>>
    BY <1>1, RepairsKeep, MessageTransformed DEF new, K
  <1>4. TransformMessage(new, tools) = new
    BY <1>3, RepairsKeep, MessageTransformed DEF K
  <1>5. Count(new, {"other"}) = Count(old, {"other"})
    BY <1>1, RepairsKeep, MessageTransformed DEF new
  <1>6. Count(new, Signed \cup {"empty", "hollow"}) = 0
    <2>1. K \cap (Signed \cup {"empty", "hollow"}) = {}
      BY DEF K, KeptKinds, Signed
    <2> QED BY <1>3, <2>1, NoneCounted
  <1>7. Count(new, Tools) = IF tools THEN 0 ELSE Count(old, Tools)
    <2>1. CASE tools
      <3>1. K \cap Tools = {}
        BY <2>1 DEF K, KeptKinds, Tools
      <3> QED BY <1>3, <2>1, <3>1, NoneCounted
    <2>2. CASE tools = FALSE
      <3>1. "text" \notin Tools
        BY DEF Tools
      <3>2. Followed(Tools, tools)
        BY <2>2, RepairsKeep
      <3> QED BY <1>1, <2>2, <3>1, <3>2, MessageTransformed DEF new
    <2> QED BY <2>1, <2>2
  <1>8. TransformForRetry(again, tools) = again
    <2>1. /\ again.thinking = FALSE /\ again.content = new
          /\ again.strategy = (body.strategy /\ ~body.thinking)
      BY <1>2
    <2>2. TransformForRetry(again, tools) =
            [thinking |-> FALSE, strategy |-> again.strategy /\ ~again.thinking,
             content |-> TransformMessage(again.content, tools)]
      BY DEF TransformForRetry
    <2>3. (again.strategy /\ ~again.thinking) = (body.strategy /\ ~body.thinking)
      BY <2>1
    <2> QED BY <1>2, <1>4, <2>1, <2>2, <2>3
  <1>9. /\ again.thinking = FALSE /\ again.content = new
        /\ again.strategy = (body.strategy /\ ~body.thinking)
    BY <1>2
  <1> QED BY <1>3, <1>5, <1>6, <1>7, <1>8, <1>9 DEF old, again

\* The answers that have come when a stage is reached, one for each send but the last.
RepairShape ==
  /\ answers \in Seq(Answers)
  /\ sends \in Seq({sends[n] : n \in 1..Len(sends)})
  /\ stage \in {"first", "second", "third", "done", "failed"}
  /\ stage \in {"first", "failed"} => Len(answers) = 0 /\ Len(sends) = 1
  /\ stage = "second" => Len(answers) = 1 /\ Len(sends) = 2
  /\ stage = "third" => Len(answers) = 2 /\ Len(sends) = 3
  /\ stage = "done" => Len(answers) \in {1, 2, 3} /\ Len(sends) \in {1, 2, 3}

\* What the client will get is of the last answer.
LastAdopted ==
  /\ headers = Len(answers) /\ source = Len(answers)
  /\ Len(answers) # 0 => code = StatusOf(answers[Len(answers)])

\* The first repair leaves the tool blocks, the second writes them out; both repair
\* what the client sent.
RepairsOfFirst ==
  \A n \in 2..Len(sends) : sends[n] = TransformForRetry(sends[1], n = 3)

\* The first body is the client's.
FromClient == sends[1] \in Bodies

RepairInv == RepairShape /\ LastAdopted /\ FromClient /\ RepairsOfFirst

\* A sequence is one of its own elements.
LEMMA SeqOfItsOwn ==
  ASSUME NEW S, NEW s \in Seq(S)
  PROVE  s \in Seq({s[n] : n \in 1..Len(s)})
  <1>1. Len(s) \in Nat /\ s \in [1..Len(s) -> S]
    BY LenProperties
  <1>2. s \in [1..Len(s) -> {s[n] : n \in 1..Len(s)}]
    BY <1>1
  <1> QED BY <1>1, <1>2, SeqDef

\* An answer comes.
LEMMA Answered ==
  ASSUME answers \in Seq(Answers), NEW answer \in Answers,
         answers' = Append(answers, answer),
         Adopt(Len(answers) + 1, answer)
  PROVE  /\ answers' \in Seq(Answers) /\ Len(answers') = Len(answers) + 1
         /\ LastAdopted'
  <1>1. /\ Append(answers, answer) \in Seq(Answers)
        /\ Len(Append(answers, answer)) = Len(answers) + 1
        /\ Append(answers, answer)[Len(answers) + 1] = answer
    BY AppendProperties
  <1> QED BY <1>1 DEF Adopt, LastAdopted

\* A repair is sent.
LEMMA Resent ==
  ASSUME RepairShape, FromClient, RepairsOfFirst, NEW tools \in BOOLEAN, Resend(tools),
         Len(sends) = IF tools THEN 2 ELSE 1
  PROVE  /\ sends' \in Seq({sends'[n] : n \in 1..Len(sends')})
         /\ Len(sends') = Len(sends) + 1
         /\ FromClient' /\ RepairsOfFirst'
  <1> DEFINE body == TransformForRetry(sends[1], tools)
             S == {sends[n] : n \in 1..Len(sends)} \cup {body}
  <1>1. sends \in Seq({sends[n] : n \in 1..Len(sends)})
    BY DEF RepairShape
  <1>2. sends \in Seq(S) /\ body \in S /\ Len(sends) \in {1, 2}
    BY <1>1, SeqMonotonic
  <1>3. sends' = Append(sends, body)
    BY DEF Resend
  <1> HIDE DEF S, body
  <1>4. /\ sends' \in Seq(S) /\ Len(sends') = Len(sends) + 1
        /\ \A n \in 1..Len(sends) : sends'[n] = sends[n]
        /\ sends'[Len(sends) + 1] = body
    BY <1>2, <1>3, AppendProperties
  <1>5. sends' \in Seq({sends'[n] : n \in 1..Len(sends')})
    BY <1>4, SeqOfItsOwn
  <1>6. RepairsOfFirst'
    <2> SUFFICES ASSUME NEW n \in 2..Len(sends')
                 PROVE  sends'[n] = TransformForRetry(sends'[1], n = 3)
      BY DEF RepairsOfFirst
    <2>1. sends'[1] = sends[1]
      BY <1>2, <1>4
    <2>2. CASE n \in 2..Len(sends)
      BY <1>2, <1>4, <2>1, <2>2 DEF RepairsOfFirst
    <2>3. CASE n = Len(sends) + 1
      <3>1. (n = 3) = tools
        BY <1>2, <2>3
      <3> QED BY <1>4, <2>1, <2>3, <3>1 DEF body
    <2> QED BY <1>2, <1>4, <2>2, <2>3
  <1>7. FromClient'
    BY <1>2, <1>4 DEF FromClient
  <1> QED BY <1>4, <1>5, <1>6, <1>7

StageOf == <<"first", "second", "third">>

LEMMA RepairStep == RepairInv /\ [RepairNext]_repairVars => RepairInv'
  <1> SUFFICES ASSUME RepairInv, [RepairNext]_repairVars
               PROVE  RepairInv'
    OBVIOUS
  <1>0. RepairShape /\ LastAdopted /\ FromClient /\ RepairsOfFirst
    BY DEF RepairInv
  <1>1. ASSUME NEW n \in {1, 2, 3}, NEW answer \in Answers,
               stage = StageOf[n],
               answers' = Append(answers, answer), Adopt(n, answer),
               \/ Stop
               \/ n = 1 /\ Resend(FALSE)
               \/ n = 2 /\ Resend(TRUE)
        PROVE  RepairInv'
    <2>1. /\ Len(answers) + 1 = n /\ Len(sends) = n
          /\ answers \in Seq(Answers)
      <3>1. \/ n = 1 /\ stage = "first"
            \/ n = 2 /\ stage = "second"
            \/ n = 3 /\ stage = "third"
        BY <1>1 DEF StageOf
      <3>2. /\ n = 1 => Len(answers) = 0 /\ Len(sends) = 1
            /\ n = 2 => Len(answers) = 1 /\ Len(sends) = 2
            /\ n = 3 => Len(answers) = 2 /\ Len(sends) = 3
        BY <1>0, <1>1, <3>1 DEF RepairShape, StageOf
      <3>3. answers \in Seq(Answers)
        BY <1>0 DEF RepairShape
      <3>4. Len(answers) + 1 = n
        <4> DEFINE came == Len(answers)
        <4>1. (n = 1 /\ came = 0) \/ (n = 2 /\ came = 1) \/ (n = 3 /\ came = 2)
          BY <3>1, <3>2
        <4> HIDE DEF came
        <4>2. came + 1 = n
          BY <4>1
        <4> QED BY <4>2 DEF came
      <3>5. Len(sends) = n
        BY <3>1, <3>2
      <3> QED BY <3>3, <3>4, <3>5
    <2>2. /\ answers' \in Seq(Answers) /\ Len(answers') = n
          /\ LastAdopted'
      <3> QED BY <1>1, <2>1, Answered
    <2>3. CASE Stop
      <3>1. sends' = sends /\ stage' = "done"
        BY <2>3 DEF Stop
      <3>2. RepairShape'
        BY <1>0, <2>1, <2>2, <3>1 DEF RepairShape
      <3>3. FromClient' /\ RepairsOfFirst'
        BY <1>0, <3>1 DEF FromClient, RepairsOfFirst
      <3> QED BY <2>2, <3>2, <3>3 DEF RepairInv
    <2>4. ASSUME NEW tools \in BOOLEAN, Resend(tools), n = IF tools THEN 2 ELSE 1
          PROVE  RepairInv'
      <3>1. /\ sends' \in Seq({sends'[m] : m \in 1..Len(sends')})
            /\ Len(sends') = n + 1
            /\ FromClient' /\ RepairsOfFirst'
        BY <1>0, <2>1, <2>4, Resent
      <3>2. stage' = IF tools THEN "third" ELSE "second"
        BY <2>4 DEF Resend
      <3>3. RepairShape'
        BY <2>2, <2>4, <3>1, <3>2 DEF RepairShape
      <3> QED BY <2>2, <3>1, <3>3 DEF RepairInv
    <2> QED BY <1>1, <2>3, <2>4
  <1>2. ASSUME NEW answer \in Answers, First(answer) PROVE RepairInv'
    <2>1. stage = "first" /\ answers = <<>>
      BY <1>0, <1>2, EmptySeq DEF First, RepairShape
    <2>2. answers' = Append(answers, answer) /\ Adopt(1, answer)
      BY <1>2, <2>1 DEF First
    <2>3. Stop \/ Resend(FALSE)
      BY <1>2 DEF First
    <2>4. stage = StageOf[1]
      BY <2>1 DEF StageOf
    <2> QED BY <1>1, <2>2, <2>3, <2>4
  <1>3. ASSUME NEW answer \in Answers, Second(answer) PROVE RepairInv'
    <2>1. /\ stage = "second" /\ answers' = Append(answers, answer) /\ Adopt(2, answer)
          /\ Stop \/ Resend(TRUE)
      BY <1>3 DEF Second, AdoptResend
    <2>2. stage = StageOf[2]
      BY <2>1 DEF StageOf
    <2> QED BY <1>1, <2>1, <2>2
  <1>4. ASSUME NEW answer \in Answers, Third(answer) PROVE RepairInv'
    <2>1. /\ stage = "third" /\ answers' = Append(answers, answer) /\ Adopt(3, answer)
          /\ Stop
      BY <1>4 DEF Third, AdoptResend
    <2>2. stage = StageOf[3]
      BY <2>1 DEF StageOf
    <2> QED BY <1>1, <2>1, <2>2
  <1>5. ASSUME Lost PROVE RepairInv'
    BY <1>0, <1>5 DEF Lost, RepairInv, RepairShape, LastAdopted, FromClient,
           RepairsOfFirst
  <1>6. ASSUME UNCHANGED repairVars PROVE RepairInv'
    BY <1>0, <1>6 DEF repairVars, RepairInv, RepairShape, LastAdopted, FromClient,
           RepairsOfFirst
  <1> QED BY <1>2, <1>3, <1>4, <1>5, <1>6 DEF RepairNext

THEOREM RepairInvariant == RepairSpec => []RepairInv
  <1>1. RepairInit => RepairInv
    <2> SUFFICES ASSUME RepairInit PROVE RepairInv
      OBVIOUS
    <2>1. PICK b \in Bodies : sends = <<b>>
      BY DEF RepairInit
    <2>2. Len(sends) = 1 /\ sends \in Seq({sends[n] : n \in 1..Len(sends)})
      BY <2>1
    <2>3. answers \in Seq(Answers) /\ Len(answers) = 0
      BY DEF RepairInit
    <2>4. RepairShape /\ LastAdopted
      BY <2>2, <2>3 DEF RepairInit, RepairShape, LastAdopted
    <2>5. FromClient /\ RepairsOfFirst
      BY <2>1, <2>2 DEF FromClient, RepairsOfFirst
    <2> QED BY <2>4, <2>5 DEF RepairInv
  <1> QED BY <1>1, RepairStep, PTL DEF RepairSpec

(***************************************************************************)
(* The cascade of forward_request: the client gets headers, body and       *)
(* status of the last answer that came, after at most three sends.         *)
(***************************************************************************)
THEOREM AnswersWhole == RepairSpec => []AnswerWhole
  <1>1. RepairInv => AnswerWhole
    <2> SUFFICES ASSUME RepairInv, stage = "done"
                 PROVE  /\ Len(sends) <= 3
                        /\ headers = Len(answers)
                        /\ source = Len(answers)
                        /\ code = StatusOf(Last(answers))
      BY DEF AnswerWhole
    <2>1. Len(sends) \in {1, 2, 3} /\ Len(answers) \in {1, 2, 3}
      BY DEF RepairInv, RepairShape
    <2>2. LastAdopted /\ Last(answers) = answers[Len(answers)]
      BY DEF RepairInv, Last
    <2>3. Len(sends) <= 3 /\ Len(answers) # 0
      <3> DEFINE bodies == Len(sends)
                 came == Len(answers)
      <3>1. bodies \in {1, 2, 3} /\ came \in {1, 2, 3}
        BY <2>1
      <3> HIDE DEF bodies, came
      <3>2. bodies <= 3 /\ came # 0
        BY <3>1
      <3> QED BY <3>2 DEF bodies, came
    <2> QED BY <2>2, <2>3 DEF LastAdopted
  <1> QED BY <1>1, RepairInvariant, PTL

(***************************************************************************)
(* transform_for_retry on whatever message a client sent, of any length:   *)
(* what is sent again can be accepted, keeps what it should, and would be  *)
(* left alone by a further repair.                                         *)
(***************************************************************************)
THEOREM RepairsClean == RepairSpec => []RepairClean
  <1>1. RepairInv => RepairClean
    <2> SUFFICES ASSUME RepairInv, NEW n \in 2..Len(sends)
                 PROVE  LET old == sends[1].content  new == sends[n].content IN
                        /\ ~sends[n].thinking
                        /\ sends[n].strategy => sends[1].strategy /\ ~sends[1].thinking
                        /\ Count(new, Signed \cup {"empty", "hollow"}) = 0
                        /\ new = <<>> => old = <<>>
                        /\ Count(new, {"other"}) = Count(old, {"other"})
                        /\ Count(new, Tools) = IF n = 2 THEN Count(old, Tools) ELSE 0
                        /\ TransformForRetry(sends[n], n = 3) = sends[n]
      BY DEF RepairClean
    <2>1. n \in {2, 3}
      <3> DEFINE bodies == Len(sends)
      <3>1. bodies \in {1, 2, 3} /\ n \in 2..bodies
        BY DEF RepairInv, RepairShape
      <3> HIDE DEF bodies
      <3> QED BY <3>1
    <2>2. sends[1] \in Bodies /\ sends[n] = TransformForRetry(sends[1], n = 3)
      BY DEF RepairInv, FromClient, RepairsOfFirst
    <2>3. (n = 3) \in BOOLEAN
      OBVIOUS
    <2>4. LET again == TransformForRetry(sends[1], n = 3) IN
          /\ ~again.thinking
          /\ again.strategy => sends[1].strategy /\ ~sends[1].thinking
          /\ Count(again.content, Signed \cup {"empty", "hollow"}) = 0
          /\ again.content = <<>> => sends[1].content = <<>>
          /\ Count(again.content, {"other"}) = Count(sends[1].content, {"other"})
          /\ Count(again.content, Tools) =
               IF n = 3 THEN 0 ELSE Count(sends[1].content, Tools)
          /\ TransformForRetry(again, n = 3) = again
      BY <2>2, <2>3, RepairedClean, Zenon
    <2>5. (IF n = 2 THEN Count(sends[1].content, Tools) ELSE 0) =
            IF n = 3 THEN 0 ELSE Count(sends[1].content, Tools)
      BY <2>1
    <2> QED BY <2>2, <2>4, <2>5, Zenon
  <1> QED BY <1>1, RepairInvariant, PTL
-------------------------------------------------------------------------------
(* RpmWindow.                                                              *)

RpmClient == [step : {"off", "reserve", "slot", "send"}, key : Minutes, limit : Nat, counted : BOOLEAN]

RpmTypes ==
  /\ minute \in Minutes
  /\ limit \in RpmLimits
  /\ count \in [Minutes -> Nat]
  /\ client \in [Clients -> RpmClient]
  /\ served \in [Minutes -> Nat]
  /\ wasted \in [Minutes -> Nat]
  /\ free \in BOOLEAN

\* Nobody has a place before the reservation has been answered.
NotYetCounted == \A c \in Clients : client[c].step \in {"off", "reserve"} => ~client[c].counted

\* While there has always been a limit, everybody has read one.
LimitRead ==
  /\ free \/ limit # 0
  /\ \A c \in Clients : client[c].step # "off" =>
       client[c].limit \in RpmLimits /\ (free \/ client[c].limit # 0)

PlacesExplained ==
  \A m \in Minutes : count[m] = served[m] + wasted[m] + Cardinality(Underway(m))

PlacesLimited == free \/ \A m \in Minutes : count[m] <= HighestLimit

RpmInv == RpmTypes /\ NotYetCounted /\ LimitRead /\ PlacesExplained /\ PlacesLimited

\* Two sets that differ by one element at most.
LEMMA ButOne ==
  ASSUME NEW U, NEW V, NEW c, IsFiniteSet(U), IsFiniteSet(V), U \ {c} = V \ {c}
  PROVE  /\ Cardinality(U) \in Nat /\ Cardinality(V) \in Nat
         /\ Cardinality(V) + (IF c \in U THEN 1 ELSE 0)
              = Cardinality(U) + (IF c \in V THEN 1 ELSE 0)
  <1> DEFINE R == U \ {c}
  <1>1. IsFiniteSet(R) /\ Cardinality(R) \in Nat
    BY FS_Subset, FS_CardinalityType
  <1>2. Cardinality(R \cup {c}) = Cardinality(R) + 1
    BY <1>1, FS_AddElement
  <1>3. ASSUME NEW W, W \ {c} = R
        PROVE  Cardinality(W) = Cardinality(R) + (IF c \in W THEN 1 ELSE 0)
    <2>1. CASE c \in W
      <3>1. W = R \cup {c}
        BY <1>3, <2>1
      <3> QED BY <1>2, <2>1, <3>1
    <2>2. CASE c \notin W
      <3>1. W = R
        BY <1>3, <2>2
      <3> QED BY <1>1, <2>2, <3>1
    <2> QED BY <2>1, <2>2
  <1>4. /\ Cardinality(U) = Cardinality(R) + (IF c \in U THEN 1 ELSE 0)
        /\ Cardinality(V) = Cardinality(R) + (IF c \in V THEN 1 ELSE 0)
    BY <1>3
  <1> HIDE DEF R
  <1> QED BY <1>1, <1>4

LEMMA UnderwayFinite == \A m \in Minutes : IsFiniteSet(Underway(m))
  BY RpmAssumption, FS_Subset DEF Underway

Here(c, m) == IF client[c].counted /\ client[c].key = m THEN 1 ELSE 0

\* A step of one request.
LEMMA UnderwayStep ==
  ASSUME NEW c \in Clients, NEW m \in Minutes,
         \A d \in Clients \ {c} : client'[d] = client[d]
  PROVE  /\ Cardinality(Underway(m)) \in Nat /\ Cardinality(Underway(m)') \in Nat
         /\ Cardinality(Underway(m)') + Here(c, m) = Cardinality(Underway(m)) + Here(c, m)'
  <1> DEFINE U == Underway(m)
             V == Underway(m)'
  <1>1. IsFiniteSet(U) /\ IsFiniteSet(V)
    BY RpmAssumption, FS_Subset DEF Underway
  <1>2. U \ {c} = V \ {c}
    BY DEF Underway
  <1>3. /\ Here(c, m) = IF c \in U THEN 1 ELSE 0
        /\ Here(c, m)' = IF c \in V THEN 1 ELSE 0
    BY DEF Here, Underway
  <1> HIDE DEF U, V
  <1>4. /\ Cardinality(U) \in Nat /\ Cardinality(V) \in Nat
        /\ Cardinality(V) + (IF c \in U THEN 1 ELSE 0)
             = Cardinality(U) + (IF c \in V THEN 1 ELSE 0)
    BY <1>1, <1>2, ButOne
  <1> QED BY <1>3, <1>4 DEF U, V

LEMMA HighestIsHighest == HighestLimit \in RpmLimits /\ \A k \in RpmLimits : k <= HighestLimit
  BY RpmAssumption DEF HighestLimit

\* What a request does to the counter of its minute.
LEMMA CountedIn ==
  ASSUME RpmInv, NEW c \in Clients, client[c].step = "reserve", CountIn(c)
  PROVE  /\ count' \in [Minutes -> Nat]
         /\ \A m \in Minutes : count'[m] = count[m] +
              IF m = client[c].key /\ HasRoom(count[client[c].key], client[c].limit)
                THEN 1 ELSE 0
         /\ free \/ \A m \in Minutes : count'[m] <= HighestLimit
  <1> DEFINE key == client[c].key
             lim == client[c].limit
             room == HasRoom(count[key], lim)
  <1>1. /\ key \in Minutes /\ lim \in Nat /\ count \in [Minutes -> Nat]
        /\ lim \in RpmLimits /\ (free \/ lim # 0)
    BY DEF RpmInv, RpmTypes, RpmClient, LimitRead
  <1>2. count' = [count EXCEPT ![key] = IF room THEN count[key] + 1 ELSE count[key]]
    BY DEF CountIn
  <1>3. HighestLimit \in Nat /\ lim <= HighestLimit
    BY <1>1, HighestIsHighest, RpmAssumption
  <1>4. room => lim = 0 \/ count[key] < lim
    BY DEF HasRoom
  <1>5. free \/ \A m \in Minutes : count[m] <= HighestLimit
    BY DEF RpmInv, PlacesLimited
  <1> HIDE DEF key, lim, room
  <1>6. /\ count' \in [Minutes -> Nat]
        /\ \A m \in Minutes : count'[m] = count[m] + IF m = key /\ room THEN 1 ELSE 0
    BY <1>1, <1>2
  <1>7. ASSUME ~free, NEW m \in Minutes PROVE count'[m] <= HighestLimit
    <2>1. CASE m = key /\ room
      BY <1>1, <1>3, <1>4, <1>6, <1>7, <2>1
    <2>2. CASE ~(m = key /\ room)
      BY <1>1, <1>5, <1>6, <1>7, <2>2
    <2> QED BY <2>1, <2>2
  <1> QED BY <1>6, <1>7 DEF key, lim, room

\* A request of which only its own row changes.
LEMMA RowOfRpm ==
  ASSUME RpmInv, NEW c \in Clients, NEW row \in RpmClient,
         client' = [client EXCEPT ![c] = row],
         row.step \in {"off", "reserve"} => ~row.counted,
         row.step # "off" => row.limit \in RpmLimits /\ (free \/ row.limit # 0),
         UNCHANGED <<limit, free>>
  PROVE  /\ client' \in [Clients -> RpmClient]
         /\ client'[c] = row
         /\ NotYetCounted' /\ LimitRead'
         /\ \A d \in Clients \ {c} : client'[d] = client[d]
  <1>1. /\ client \in [Clients -> RpmClient] /\ NotYetCounted /\ LimitRead
    BY DEF RpmInv, RpmTypes
  <1>2. /\ client' \in [Clients -> RpmClient]
        /\ client'[c] = row
        /\ \A d \in Clients \ {c} : client'[d] = client[d]
    BY <1>1
  <1>3. NotYetCounted'
    BY <1>1, <1>2 DEF NotYetCounted
  <1>4. LimitRead'
    BY <1>1, <1>2 DEF LimitRead
  <1> QED BY <1>2, <1>3, <1>4

\* A request whose reservation has been answered.
LEMMA Answering ==
  ASSUME NEW row \in RpmClient, NEW counted \in BOOLEAN
  PROVE  [row EXCEPT !.step = "slot", !.counted = counted]
           = [step |-> "slot", key |-> row.key, limit |-> row.limit, counted |-> counted]
  <1> DEFINE new == [row EXCEPT !.step = "slot", !.counted = counted]
  <1>1. new \in RpmClient
    BY DEF RpmClient
  <1>2. /\ new.step = "slot" /\ new.counted = counted
        /\ new.key = row.key /\ new.limit = row.limit
    BY DEF RpmClient
  <1> HIDE DEF new
  <1>3. new = [step |-> new.step, key |-> new.key, limit |-> new.limit, counted |-> new.counted]
    BY <1>1 DEF RpmClient
  <1>4. new = [step |-> "slot", key |-> row.key, limit |-> row.limit, counted |-> counted]
    BY <1>2, <1>3
  <1> QED BY <1>4 DEF new

\* A request that has its slot.
LEMMA Sending ==
  ASSUME NEW row \in RpmClient
  PROVE  [row EXCEPT !.step = "send"]
           = [step |-> "send", key |-> row.key, limit |-> row.limit, counted |-> row.counted]
  <1> DEFINE new == [row EXCEPT !.step = "send"]
  <1>1. new \in RpmClient
    BY DEF RpmClient
  <1>2. /\ new.step = "send" /\ new.counted = row.counted
        /\ new.key = row.key /\ new.limit = row.limit
    BY DEF RpmClient
  <1> HIDE DEF new
  <1>3. new = [step |-> new.step, key |-> new.key, limit |-> new.limit, counted |-> new.counted]
    BY <1>1 DEF RpmClient
  <1>4. new = [step |-> "send", key |-> row.key, limit |-> row.limit, counted |-> row.counted]
    BY <1>2, <1>3
  <1> QED BY <1>4 DEF new

\* The places of a minute before and after a step that moves one of them.
LEMMA Balance ==
  ASSUME NEW n1 \in Nat, NEW n2 \in Nat, NEW n3 \in Nat,
         NEW o1 \in Nat, NEW o2 \in Nat, NEW o3 \in Nat,
         NEW old \in Nat, NEW new \in Nat, NEW then \in Nat, NEW now \in Nat,
         new + then = old + now, o1 = o2 + o3 + old,
         n1 + o2 + o3 + then = o1 + n2 + n3 + now
  PROVE  n1 = n2 + n3 + new
  OBVIOUS

LEMMA RpmStep == RpmInv /\ [RpmNext]_rpmVars => RpmInv'
  <1> SUFFICES ASSUME RpmInv, [RpmNext]_rpmVars
               PROVE  RpmInv'
    OBVIOUS
  <1>0. /\ RpmTypes /\ NotYetCounted /\ LimitRead /\ PlacesExplained /\ PlacesLimited
        /\ \A k \in RpmLimits : k \in Nat
    BY RpmAssumption DEF RpmInv
  <1>1. ASSUME UNCHANGED <<count, client, served, wasted>>,
               minute' \in Minutes, limit' \in RpmLimits,
               free' \in BOOLEAN, free => free', free' \/ limit' # 0
        PROVE  RpmInv'
    <2>1. RpmTypes'
      BY <1>0, <1>1 DEF RpmTypes
    <2>2. NotYetCounted'
      BY <1>0, <1>1 DEF NotYetCounted
    <2>3. LimitRead'
      BY <1>0, <1>1 DEF LimitRead
    <2>4. PlacesExplained'
      BY <1>0, <1>1 DEF PlacesExplained, Underway
    <2>5. PlacesLimited'
      BY <1>0, <1>1 DEF PlacesLimited, HighestLimit
    <2> QED BY <2>1, <2>2, <2>3, <2>4, <2>5 DEF RpmInv
  <1>2. CASE SetLimit
    <2>1. /\ UNCHANGED <<minute, count, client, served, wasted>>
          /\ limit' \in RpmLimits /\ minute \in Minutes
      BY <1>0, <1>2 DEF SetLimit, RpmTypes
    <2>2. free' = (free \/ limit' = 0)
      BY <1>2 DEF SetLimit
    <2>3. free' \in BOOLEAN
      BY <2>2
    <2>4. (free => free') /\ (free' \/ limit' # 0)
      BY <2>2, <2>3
    <2> QED BY <1>1, <2>1, <2>3, <2>4
  <1>3. CASE NextMinute
    <2>1. minute' \in Minutes
      BY <1>0, <1>3, RpmAssumption DEF NextMinute, RpmTypes, Minutes
    <2> QED BY <1>0, <1>1, <1>3, <2>1 DEF NextMinute, RpmTypes, LimitRead
  <1>4. CASE UNCHANGED rpmVars
    BY <1>0, <1>1, <1>4 DEF rpmVars, RpmTypes, LimitRead
  <1>5. ASSUME NEW c \in Clients, NEW row \in RpmClient,
               client' = [client EXCEPT ![c] = row],
               row.step \in {"off", "reserve"} => ~row.counted,
               row.step # "off" => row.limit \in RpmLimits /\ (free \/ row.limit # 0),
               UNCHANGED <<minute, limit, free>>,
               count' \in [Minutes -> Nat], served' \in [Minutes -> Nat],
               wasted' \in [Minutes -> Nat],
               free \/ \A m \in Minutes : count'[m] <= HighestLimit,
               \A m \in Minutes :
                 count'[m] + served[m] + wasted[m] + Here(c, m)
                   = count[m] + served'[m] + wasted'[m]
                       + (IF row.counted /\ row.key = m THEN 1 ELSE 0)
        PROVE  RpmInv'
    <2>1. /\ client' \in [Clients -> RpmClient]
          /\ client'[c] = row
          /\ NotYetCounted' /\ LimitRead'
          /\ \A d \in Clients \ {c} : client'[d] = client[d]
      BY <1>5, RowOfRpm
    <2>2. RpmTypes'
      BY <1>0, <1>5, <2>1 DEF RpmTypes
    <2>3. ASSUME NEW m \in Minutes
          PROVE  count'[m] = served'[m] + wasted'[m] + Cardinality(Underway(m)')
      <3> DEFINE old == Cardinality(Underway(m))
                 new == Cardinality(Underway(m)')
                 then == Here(c, m)
                 now == IF row.counted /\ row.key = m THEN 1 ELSE 0
      <3>1. old \in Nat /\ new \in Nat /\ new + then = old + now
        BY <2>1, UnderwayStep DEF Here
      <3>2. count[m] = served[m] + wasted[m] + old
        BY <1>0 DEF PlacesExplained
      <3>3. count'[m] + served[m] + wasted[m] + then
              = count[m] + served'[m] + wasted'[m] + now
        BY <1>5
      <3>4. /\ then \in {0, 1} /\ now \in {0, 1}
            /\ count[m] \in Nat /\ served[m] \in Nat /\ wasted[m] \in Nat
            /\ count'[m] \in Nat /\ served'[m] \in Nat /\ wasted'[m] \in Nat
        BY <1>0, <2>2 DEF RpmTypes, Here
      <3> DEFINE n1 == count'[m]
                 n2 == served'[m]
                 n3 == wasted'[m]
                 o1 == count[m]
                 o2 == served[m]
                 o3 == wasted[m]
      <3>5. /\ n1 \in Nat /\ n2 \in Nat /\ n3 \in Nat
            /\ o1 \in Nat /\ o2 \in Nat /\ o3 \in Nat
            /\ o1 = o2 + o3 + old
            /\ n1 + o2 + o3 + then = o1 + n2 + n3 + now
        BY <3>2, <3>3, <3>4
      <3> HIDE DEF old, new, then, now, n1, n2, n3, o1, o2, o3
      <3>6. n1 = n2 + n3 + new
        <4>1. then \in Nat /\ now \in Nat
          BY <3>4
        <4> QED BY <3>1, <3>5, <4>1, Balance
      <3> QED BY <3>6 DEF new, n1, n2, n3
    <2>4. PlacesExplained'
      BY <2>3 DEF PlacesExplained
    <2>5. PlacesLimited'
      BY <1>5 DEF PlacesLimited, HighestLimit
    <2> QED BY <2>1, <2>2, <2>4, <2>5 DEF RpmInv
  <1>6. \A c \in Clients : /\ client[c] \in RpmClient
                           /\ client[c] = [step |-> client[c].step, key |-> client[c].key,
                                limit |-> client[c].limit, counted |-> client[c].counted]
                           /\ Away \in RpmClient
    BY <1>0, RpmAssumption DEF RpmTypes, RpmClient, Away, Minutes
  <1>7. ASSUME NEW c \in Clients, ReadKey(c) PROVE RpmInv'
    <2> DEFINE new == [step |-> "reserve", key |-> minute, limit |-> limit, counted |-> FALSE]
    <2>1. new \in RpmClient
      BY <1>0 DEF RpmTypes, RpmClient
    <2>2. /\ client' = [client EXCEPT ![c] = new]
          /\ UNCHANGED <<minute, limit, count, served, wasted, free>>
          /\ client[c] = Away
      BY <1>7 DEF ReadKey
    <2>3. new.step = "reserve" /\ new.limit = limit /\ ~new.counted
      OBVIOUS
    <2>4. \A m \in Minutes : Here(c, m) = 0
      BY <2>2 DEF Here, Away
    <2>5. /\ count \in [Minutes -> Nat] /\ served \in [Minutes -> Nat]
          /\ wasted \in [Minutes -> Nat] /\ limit \in RpmLimits /\ (free \/ limit # 0)
          /\ free \/ \A m \in Minutes : count[m] <= HighestLimit
      BY <1>0 DEF RpmTypes, LimitRead, PlacesLimited
    <2> HIDE DEF new
    <2> QED BY <1>5, <2>1, <2>2, <2>3, <2>4, <2>5
  <1>8. ASSUME NEW c \in Clients, NEW ok \in BOOLEAN, NEW ran \in BOOLEAN, NEW r \in RpmClient,
               client[c].step = "reserve",
               ok = HasRoom(count[client[c].key], client[c].limit),
               client' = [client EXCEPT ![c] = r],
               \/ r = Away /\ ran /\ ~ok
               \/ r = [step |-> "slot", key |-> client[c].key,
                       limit |-> client[c].limit, counted |-> ran /\ ok],
               IF ran THEN CountIn(c) ELSE UNCHANGED count,
               UNCHANGED <<minute, limit, served, wasted, free>>
        PROVE  RpmInv'
    <2>1. /\ count \in [Minutes -> Nat] /\ served \in [Minutes -> Nat]
          /\ wasted \in [Minutes -> Nat]
          /\ free \/ \A m \in Minutes : count[m] <= HighestLimit
          /\ client[c].key \in Minutes /\ ~client[c].counted
          /\ client[c].limit \in RpmLimits /\ (free \/ client[c].limit # 0)
      BY <1>0, <1>6, <1>8
         DEF RpmTypes, PlacesLimited, RpmClient, NotYetCounted, LimitRead
    <2>2. \A m \in Minutes : Here(c, m) = 0
      BY <2>1 DEF Here
    <2>3. /\ r.step \in {"off", "reserve"} => ~r.counted
          /\ r.step # "off" => r.limit \in RpmLimits /\ (free \/ r.limit # 0)
          /\ r.counted <=> ran /\ ok
          /\ r.counted => r.key = client[c].key
      BY <1>8, <2>1 DEF Away
    <2>4. /\ count' \in [Minutes -> Nat]
          /\ free \/ \A m \in Minutes : count'[m] <= HighestLimit
          /\ \A m \in Minutes : count'[m] = count[m] +
               IF r.counted /\ r.key = m THEN 1 ELSE 0
      <3>1. CASE ran
        <4>1. /\ count' \in [Minutes -> Nat]
              /\ \A m \in Minutes : count'[m] = count[m] +
                   IF m = client[c].key /\ HasRoom(count[client[c].key], client[c].limit)
                     THEN 1 ELSE 0
              /\ free \/ \A m \in Minutes : count'[m] <= HighestLimit
          BY <1>8, <3>1, CountedIn
        <4>2. ok <=> HasRoom(count[client[c].key], client[c].limit)
          BY <1>8
        <4>3. ASSUME NEW m \in Minutes
              PROVE  (m = client[c].key /\ HasRoom(count[client[c].key], client[c].limit))
                       <=> (r.counted /\ r.key = m)
          BY <2>3, <3>1, <4>2
        <4> QED BY <4>1, <4>3
      <3>2. CASE ~ran
        BY <1>8, <2>1, <2>3, <3>2
      <3> QED BY <3>1, <3>2
    <2>5. ASSUME NEW m \in Minutes
          PROVE  count'[m] + served[m] + wasted[m] + Here(c, m)
                   = count[m] + served'[m] + wasted'[m]
                       + (IF r.counted /\ r.key = m THEN 1 ELSE 0)
      <3> DEFINE one == IF r.counted /\ r.key = m THEN 1 ELSE 0
      <3>1. count'[m] = count[m] + one /\ one \in Nat
        BY <2>4
      <3>2. served'[m] = served[m] /\ wasted'[m] = wasted[m] /\ Here(c, m) = 0
        BY <1>8, <2>2
      <3>3. count[m] \in Nat /\ served[m] \in Nat /\ wasted[m] \in Nat
        BY <2>1
      <3> HIDE DEF one
      <3>4. count'[m] + served[m] + wasted[m] + Here(c, m)
              = count[m] + served'[m] + wasted'[m] + one
        BY <3>1, <3>2, <3>3
      <3> QED BY <3>4 DEF one
    <2> QED BY <1>5, <1>8, <2>1, <2>3, <2>4, <2>5
  <1>9. ASSUME NEW c \in Clients, Reserve(c) PROVE RpmInv'
    <2> DEFINE ok == HasRoom(count[client[c].key], client[c].limit)
               r == IF ok THEN [step |-> "slot", key |-> client[c].key,
                                limit |-> client[c].limit, counted |-> TRUE]
                    ELSE Away
    <2>1. /\ client[c].step = "reserve"
          /\ CountIn(c)
          /\ client' = [client EXCEPT ![c] = r]
          /\ UNCHANGED <<minute, limit, served, wasted, free>>
      <3>1. [client[c] EXCEPT !.step = "slot", !.counted = TRUE]
              = [step |-> "slot", key |-> client[c].key,
                 limit |-> client[c].limit, counted |-> TRUE]
        BY <1>6, Answering
      <3> QED BY <1>9, <3>1 DEF Reserve
    <2>2. ok \in BOOLEAN
      BY DEF HasRoom
    <2>3. r \in RpmClient
      BY <1>6 DEF RpmClient
    <2>4. \/ r = Away /\ TRUE /\ ~ok
          \/ r = [step |-> "slot", key |-> client[c].key,
                  limit |-> client[c].limit, counted |-> TRUE /\ ok]
      BY <2>2
    <2> HIDE DEF r
    <2> QED BY <1>8, <2>1, <2>2, <2>3, <2>4
  <1>10. ASSUME NEW c \in Clients, FailOpen(c) PROVE RpmInv'
    <2> DEFINE ok == HasRoom(count[client[c].key], client[c].limit)
    <2>1. PICK ran \in BOOLEAN :
            /\ client' = [client EXCEPT ![c].step = "slot", ![c].counted = ran /\ ok]
            /\ IF ran THEN CountIn(c) ELSE UNCHANGED count
      BY <1>10 DEF FailOpen
    <2> DEFINE r == [step |-> "slot", key |-> client[c].key,
                     limit |-> client[c].limit, counted |-> ran /\ ok]
    <2>2. client' = [client EXCEPT ![c] = r]
      <3>1. [client[c] EXCEPT !.step = "slot", !.counted = ran /\ ok] = r
        BY <1>6, Answering DEF HasRoom
      <3>2. client \in [Clients -> RpmClient]
        BY <1>0 DEF RpmTypes
      <3>3. client' = [client EXCEPT ![c] =
                [client[c] EXCEPT !.step = "slot", !.counted = ran /\ ok]]
        BY <2>1, <3>2
      <3> QED BY <3>1, <3>3
    <2>3. /\ client[c].step = "reserve"
          /\ UNCHANGED <<minute, limit, served, wasted, free>>
      BY <1>10 DEF FailOpen
    <2>4. ok \in BOOLEAN /\ r \in RpmClient
      BY <1>6 DEF HasRoom, RpmClient
    <2> QED BY <1>8, <2>1, <2>2, <2>3, <2>4
  <1>11. ASSUME NEW c \in Clients,
                Forward(c) \/ RefuseSlot(c) \/ TokenFails(c) \/ Vanish(c)
         PROVE  RpmInv'
    <2>1. /\ client' = [client EXCEPT ![c] = Away]
          /\ UNCHANGED <<minute, limit, count, free>>
          /\ \/ served' = Tally(served, c) /\ UNCHANGED wasted
             \/ wasted' = Tally(wasted, c) /\ UNCHANGED served
      BY <1>11 DEF Forward, RefuseSlot, TokenFails, Vanish, Waste
    <2>2. /\ Away \in RpmClient /\ Away.step = "off" /\ ~Away.counted
      BY <1>6 DEF Away
    <2>3. ASSUME NEW f \in [Minutes -> Nat]
          PROVE  /\ Tally(f, c) \in [Minutes -> Nat]
                 /\ \A m \in Minutes : Tally(f, c)[m] = f[m] + Here(c, m)
      <3> DEFINE key == client[c].key
                 one == IF client[c].counted THEN 1 ELSE 0
      <3>1. key \in Minutes /\ one \in Nat
        BY <1>6 DEF RpmClient
      <3>2. Tally(f, c) = [f EXCEPT ![key] = f[key] + one]
        BY DEF Tally
      <3>3. \A m \in Minutes : Here(c, m) = IF m = key THEN one ELSE 0
        BY DEF Here
      <3> HIDE DEF key, one
      <3>4. /\ Tally(f, c) \in [Minutes -> Nat]
            /\ \A m \in Minutes : Tally(f, c)[m] = IF m = key THEN f[m] + one ELSE f[m]
        BY <3>1, <3>2
      <3> QED BY <3>1, <3>3, <3>4
    <2>4. /\ count \in [Minutes -> Nat] /\ served \in [Minutes -> Nat]
          /\ wasted \in [Minutes -> Nat]
          /\ free \/ \A m \in Minutes : count[m] <= HighestLimit
      BY <1>0 DEF RpmTypes, PlacesLimited
    <2>5. /\ served' \in [Minutes -> Nat] /\ wasted' \in [Minutes -> Nat]
          /\ \A m \in Minutes :
               served'[m] + wasted'[m] = served[m] + wasted[m] + Here(c, m)
      <3>1. \A m \in Minutes : Here(c, m) \in Nat
        BY DEF Here
      <3> QED BY <2>1, <2>3, <2>4, <3>1
    <2>6. ASSUME NEW m \in Minutes
          PROVE  count'[m] + served[m] + wasted[m] + Here(c, m)
                   = count[m] + served'[m] + wasted'[m]
                       + (IF Away.counted /\ Away.key = m THEN 1 ELSE 0)
      <3>1. /\ count[m] \in Nat /\ served[m] \in Nat /\ wasted[m] \in Nat
            /\ served'[m] \in Nat /\ wasted'[m] \in Nat /\ Here(c, m) \in {0, 1}
        BY <2>4, <2>5 DEF Here
      <3>2. served'[m] + wasted'[m] = served[m] + wasted[m] + Here(c, m)
        BY <2>5
      <3>3. count'[m] = count[m] /\ ~Away.counted
        BY <2>1, <2>2
      <3> QED BY <3>1, <3>2, <3>3
    <2> QED BY <1>5, <2>1, <2>2, <2>4, <2>5, <2>6
  <1>12. ASSUME NEW c \in Clients, TakeSlot(c) PROVE RpmInv'
    <2> DEFINE r == [step |-> "send", key |-> client[c].key, limit |-> client[c].limit,
                     counted |-> client[c].counted]
    <2>1. client' = [client EXCEPT ![c] = r]
      <3>1. [client[c] EXCEPT !.step = "send"] = r
        BY <1>6, Sending
      <3>2. client \in [Clients -> RpmClient]
        BY <1>0 DEF RpmTypes
      <3>3. client' = [client EXCEPT ![c] = [client[c] EXCEPT !.step = "send"]]
        BY <1>12, <3>2 DEF TakeSlot
      <3> QED BY <3>1, <3>3
    <2>2. /\ client[c].step = "slot"
          /\ UNCHANGED <<minute, limit, count, served, wasted, free>>
      BY <1>12 DEF TakeSlot
    <2>3. /\ r \in RpmClient /\ r.step = "send"
          /\ r.limit \in RpmLimits /\ (free \/ r.limit # 0)
          /\ r.counted = client[c].counted /\ r.key = client[c].key
      BY <1>0, <1>6, <2>2 DEF RpmClient, LimitRead
    <2>4. /\ count \in [Minutes -> Nat] /\ served \in [Minutes -> Nat]
          /\ wasted \in [Minutes -> Nat]
          /\ free \/ \A m \in Minutes : count[m] <= HighestLimit
      BY <1>0 DEF RpmTypes, PlacesLimited
    <2> HIDE DEF r
    <2>5. \A m \in Minutes : Here(c, m) = IF r.counted /\ r.key = m THEN 1 ELSE 0
      BY <2>3 DEF Here
    <2> QED BY <1>5, <2>1, <2>2, <2>3, <2>4, <2>5
  <1>13. ASSUME NEW c \in Clients, VanishReserving(c) PROVE RpmInv'
    <2> DEFINE key == client[c].key
               room == HasRoom(count[key], client[c].limit)
    <2>1. /\ client' = [client EXCEPT ![c] = Away]
          /\ client[c].step = "reserve" /\ key \in Minutes
          /\ UNCHANGED <<minute, limit, served, free>>
          /\ Away \in RpmClient /\ Away.step = "off" /\ ~Away.counted
      BY <1>6, <1>13 DEF VanishReserving, RpmClient, Away
    <2>2. /\ count \in [Minutes -> Nat] /\ served \in [Minutes -> Nat]
          /\ wasted \in [Minutes -> Nat]
          /\ free \/ \A m \in Minutes : count[m] <= HighestLimit
      BY <1>0 DEF RpmTypes, PlacesLimited
    <2>3. PICK one \in {0, 1} :
            /\ \A m \in Minutes : count'[m] = count[m] + IF m = key THEN one ELSE 0
            /\ \A m \in Minutes : wasted'[m] = wasted[m] + IF m = key THEN one ELSE 0
            /\ count' \in [Minutes -> Nat] /\ wasted' \in [Minutes -> Nat]
            /\ free \/ \A m \in Minutes : count'[m] <= HighestLimit
      <3>1. CASE room /\ CountIn(c) /\ wasted' = [wasted EXCEPT ![key] = @ + 1]
        <4>1. /\ count' \in [Minutes -> Nat]
              /\ \A m \in Minutes : count'[m] = count[m] + IF m = key /\ room THEN 1 ELSE 0
              /\ free \/ \A m \in Minutes : count'[m] <= HighestLimit
          BY <2>1, <3>1, CountedIn
        <4>2. /\ wasted' \in [Minutes -> Nat]
              /\ \A m \in Minutes : wasted'[m] = wasted[m] + IF m = key THEN 1 ELSE 0
          <5> HIDE DEF key
          <5> QED BY <2>1, <2>2, <3>1
        <4>3. \A m \in Minutes : count'[m] = count[m] + IF m = key THEN 1 ELSE 0
          <5> HIDE DEF key, room
          <5> QED BY <3>1, <4>1
        <4> QED BY <4>1, <4>2, <4>3
      <3>2. CASE UNCHANGED <<count, wasted>>
        <4> HIDE DEF key
        <4>1. /\ \A m \in Minutes : count'[m] = count[m] + IF m = key THEN 0 ELSE 0
              /\ \A m \in Minutes : wasted'[m] = wasted[m] + IF m = key THEN 0 ELSE 0
          BY <2>2, <3>2
        <4> QED BY <2>2, <3>2, <4>1
      <3> QED BY <1>13, <3>1, <3>2 DEF VanishReserving
    <2>4. \A m \in Minutes : Here(c, m) = 0
      BY <1>0, <2>1 DEF Here, NotYetCounted
    <2>5. ASSUME NEW m \in Minutes
          PROVE  count'[m] + served[m] + wasted[m] + Here(c, m)
                   = count[m] + served'[m] + wasted'[m]
                       + (IF Away.counted /\ Away.key = m THEN 1 ELSE 0)
      <3> DEFINE mine == IF m = key THEN one ELSE 0
      <3>1. count'[m] = count[m] + mine /\ wasted'[m] = wasted[m] + mine /\ mine \in {0, 1}
        BY <2>3
      <3>2. Here(c, m) = 0 /\ served'[m] = served[m] /\ ~Away.counted
        BY <2>1, <2>4
      <3>3. count[m] \in Nat /\ served[m] \in Nat /\ wasted[m] \in Nat
        BY <2>2
      <3> HIDE DEF mine
      <3> QED BY <3>1, <3>2, <3>3
    <2> QED BY <1>5, <2>1, <2>2, <2>3, <2>5
  <1> QED
    BY <1>2, <1>3, <1>4, <1>7, <1>9, <1>10, <1>11, <1>12, <1>13 DEF RpmNext

THEOREM RpmInvariant == RpmSpec => []RpmInv
  <1>1. RpmInit => RpmInv
    <2> SUFFICES ASSUME RpmInit PROVE RpmInv
      OBVIOUS
    <2>1. 0 \in Minutes /\ limit \in RpmLimits /\ limit \in Nat
      BY RpmAssumption DEF RpmInit, Minutes
    <2>2. RpmTypes
      <3>1. client \in [Clients -> RpmClient]
        BY <2>1 DEF RpmInit, Away, RpmClient
      <3>2. free \in BOOLEAN
        BY DEF RpmInit
      <3> QED BY <2>1, <3>1, <3>2 DEF RpmInit, RpmTypes
    <2>3. NotYetCounted /\ LimitRead
      <3>1. free \/ limit # 0
        BY DEF RpmInit
      <3> QED BY <3>1 DEF RpmInit, NotYetCounted, LimitRead, Away
    <2>4. PlacesExplained
      <3>1. \A m \in Minutes : Underway(m) = {}
        BY DEF RpmInit, Underway, Away
      <3> QED BY <3>1, FS_EmptySet DEF RpmInit, PlacesExplained
    <2>5. PlacesLimited
      <3>1. HighestLimit \in Nat
        BY HighestIsHighest, RpmAssumption
      <3> QED BY <3>1 DEF RpmInit, PlacesLimited
    <2> QED BY <2>2, <2>3, <2>4, <2>5 DEF RpmInv
  <1> QED BY <1>1, RpmStep, PTL DEF RpmSpec

(***************************************************************************)
(* reserve_rpm and its use: the counter of a minute is what requests with  *)
(* its key have used, are using or have lost on their way upstream, and no *)
(* minute has more than the highest limit, for any number of requests and  *)
(* any limits, whenever the clock turns, a client leaves or the cache or   *)
(* the token fails.                                                        *)
(***************************************************************************)
THEOREM MinutesExplained == RpmSpec => []RpmExplained
  <1>1. RpmInv => RpmExplained
    BY DEF RpmInv, PlacesExplained, PlacesLimited, RpmExplained
  <1> QED BY <1>1, RpmInvariant, PTL
-------------------------------------------------------------------------------
(* Telemetry.                                                              *)

LoopRows == [step : LoopSteps, carry : 0..MaxSends]

TelemetryTypes ==
  /\ session \in [there : BOOLEAN, sends : 0..MaxSends, due : BOOLEAN]
  /\ loop \in [Loops -> LoopRows]
  /\ stored \in Nat /\ sent \in Nat /\ own \in Nat /\ closed \in Nat /\ missed \in Nat
  /\ sent <= MaxSends

\* A loop owes one send after it, and those of its session at its end.
CarryFits ==
  \A l \in Loops : /\ loop[l].step \in {"off", "tick", "send"} => loop[l].carry = 0
                   /\ loop[l].step = "count" => loop[l].carry = 1

DrivenByOne ==
  /\ session.there <=> Driving # {}
  /\ \A k, l \in Driving : k = l

\* The session counts a send just before it is sent.
SessionCounts ==
  /\ own <= sent
  /\ ~session.there => session.sends = 0 /\ own = 0
  /\ \A l \in Loops :
       /\ loop[l].step \in {"tick", "count"} => session.sends = own
       /\ loop[l].step = "send" => session.sends = own + 1 /\ sent < MaxSends

TelemetryInv ==
  TelemetryTypes /\ CarryFits /\ DrivenByOne /\ SessionCounts /\ SendsCounted

\* One loop that owes n sends, beside what others owe.
LEMMA OwesBeside ==
  ASSUME NEW l, NEW n \in Nat, NEW R, IsFiniteSet(R), \A p \in R : p[1] # l
  PROVE  /\ IsFiniteSet(R \cup ({l} \X (1..n)))
         /\ Cardinality(R) \in Nat
         /\ Cardinality(R \cup ({l} \X (1..n))) = Cardinality(R) + n
  <1> DEFINE P == {l} \X (1..n)
  <1>1. IsFiniteSet(1..n) /\ Cardinality(1..n) = n
    BY FS_Interval
  <1>2. IsFiniteSet({l}) /\ Cardinality({l}) = 1
    BY FS_Singleton
  <1>3. IsFiniteSet(P) /\ Cardinality(P) = Cardinality({l}) * Cardinality(1..n)
    BY <1>1, <1>2, FS_Product
  <1>4. Cardinality(P) = n
    BY <1>1, <1>2, <1>3
  <1>5. R \cap P = {}
    OBVIOUS
  <1> HIDE DEF P
  <1>6. Cardinality(R \cap P) = 0 /\ Cardinality(R) \in Nat
    BY <1>5, FS_EmptySet, FS_CardinalityType
  <1>7. /\ IsFiniteSet(R \cup P)
        /\ Cardinality(R \cup P) = Cardinality(R) + Cardinality(P) - Cardinality(R \cap P)
    BY <1>3, FS_Union
  <1>8. IsFiniteSet(R \cup P) /\ Cardinality(R) \in Nat /\ Cardinality(R \cup P) = Cardinality(R) + n
    BY <1>4, <1>6, <1>7
  <1> QED BY <1>8 DEF P

\* What the loops other than l owe.
OwedByOthers(l) == {p \in OwedSends : p[1] # l}

OwedSplit ==
  \A l \in Loops : /\ Cardinality(OwedByOthers(l)) \in Nat
                   /\ Owed = Cardinality(OwedByOthers(l)) + loop[l].carry

LEMMA OwedSplits == loop \in [Loops -> LoopRows] => OwedSplit
  <1> SUFFICES ASSUME loop \in [Loops -> LoopRows], NEW l \in Loops
               PROVE  /\ Cardinality(OwedByOthers(l)) \in Nat
                      /\ Owed = Cardinality(OwedByOthers(l)) + loop[l].carry
    BY DEF OwedSplit
  <1> DEFINE R == OwedByOthers(l)
             n == loop[l].carry
  <1>1. IsFiniteSet(Loops \X (1..MaxSends))
    <2>1. IsFiniteSet(Loops) /\ IsFiniteSet(1..MaxSends)
      BY TelemetryAssumption, FS_Interval
    <2> QED BY <2>1, FS_Product
  <1>2. IsFiniteSet(OwedSends)
    BY <1>1, FS_Subset DEF OwedSends
  <1>3. IsFiniteSet(R) /\ \A p \in R : p[1] # l
    BY <1>2, FS_Subset DEF OwedByOthers
  <1>4. n \in Nat /\ n <= MaxSends /\ MaxSends \in Nat
    BY TelemetryAssumption DEF LoopRows
  <1>5. OwedSends = R \cup ({l} \X (1..n))
    <2>1. ASSUME NEW p PROVE p \in OwedSends <=> p \in R \cup ({l} \X (1..n))
      <3>1. CASE p \in Loops \X (1..MaxSends)
        <4>1. p = <<p[1], p[2]>> /\ p[2] \in 1..MaxSends
          BY <3>1
        <4>2. p \in {l} \X (1..n) <=> p[1] = l /\ p[2] \in 1..n
          BY <4>1
        <4>3. p[2] \in 1..n <=> p[2] <= n
          BY <1>4, <4>1
        <4>4. p \in OwedSends <=> p[2] <= loop[p[1]].carry
          BY <3>1 DEF OwedSends
        <4> QED BY <4>2, <4>3, <4>4 DEF OwedByOthers
      <3>2. CASE p \notin Loops \X (1..MaxSends)
        <4>1. p \notin {l} \X (1..n)
          <5> SUFFICES ASSUME p \in {l} \X (1..n) PROVE FALSE
            OBVIOUS
          <5>1. p = <<p[1], p[2]>> /\ p[1] \in Loops /\ p[2] \in 1..n
            OBVIOUS
          <5>2. p[2] \in 1..MaxSends
            BY <1>4, <5>1
          <5> QED BY <3>2, <5>1, <5>2
        <4> QED BY <3>2, <4>1 DEF OwedByOthers, OwedSends
      <3> QED BY <3>1, <3>2
    <2> QED BY <2>1
  <1> HIDE DEF R, n
  <1>6. /\ Cardinality(R) \in Nat
        /\ Cardinality(R \cup ({l} \X (1..n))) = Cardinality(R) + n
    BY <1>3, <1>4, OwesBeside
  <1>7. Owed = Cardinality(R) + n
    BY <1>5, <1>6 DEF Owed
  <1> QED BY <1>6, <1>7 DEF R, n

\* A loop that changes its debt changes that of all the loops as much.
LEMMA OwedStep ==
  ASSUME loop \in [Loops -> LoopRows], NEW l \in Loops, NEW row \in LoopRows,
         loop' = [loop EXCEPT ![l] = row]
  PROVE  /\ loop' \in [Loops -> LoopRows]
         /\ Owed \in Nat /\ Owed' \in Nat
         /\ Owed' + loop[l].carry = Owed + row.carry
  <1>1. /\ loop' \in [Loops -> LoopRows]
        /\ loop'[l] = row
        /\ \A k \in Loops : k # l => loop'[k] = loop[k]
    OBVIOUS
  <1>2. OwedByOthers(l)' = OwedByOthers(l)
    <2>1. ASSUME NEW p \in Loops \X (1..MaxSends), p[1] # l
          PROVE  loop'[p[1]] = loop[p[1]]
      BY <1>1, <2>1
    <2> QED BY <2>1 DEF OwedByOthers, OwedSends
  <1>3. /\ Cardinality(OwedByOthers(l)) \in Nat
        /\ Owed = Cardinality(OwedByOthers(l)) + loop[l].carry
    BY OwedSplits DEF OwedSplit
  <1>4. Owed' = Cardinality(OwedByOthers(l)') + loop'[l].carry
    <2>1. (loop \in [Loops -> LoopRows] => OwedSplit)'
      BY OwedSplits, PTL
    <2> QED BY <1>1, <2>1 DEF OwedSplit
  <1>5. /\ loop[l].carry \in Nat /\ row.carry \in Nat
    BY TelemetryAssumption DEF LoopRows
  <1> DEFINE C == Cardinality(OwedByOthers(l))
  <1>6. C \in Nat /\ Owed = C + loop[l].carry /\ Owed' = C + row.carry
    BY <1>1, <1>2, <1>3, <1>4
  <1> HIDE DEF C
  <1>7. /\ Owed \in Nat /\ Owed' \in Nat
        /\ Owed' + loop[l].carry = Owed + row.carry
    BY <1>5, <1>6
  <1> QED BY <1>1, <1>7

LEMMA TelemetryStep == TelemetryInv /\ [TelemetryNext]_telemetryVars => TelemetryInv'
  <1> SUFFICES ASSUME TelemetryInv, [TelemetryNext]_telemetryVars
               PROVE  TelemetryInv'
    OBVIOUS
  <1>0. TelemetryTypes /\ CarryFits /\ DrivenByOne /\ SessionCounts /\ SendsCounted
    BY DEF TelemetryInv
  <1>s. ASSUME NEW k \in Loops
        PROVE  loop[k] \in LoopRows /\ loop[k].carry \in Nat
    BY <1>0, TelemetryAssumption DEF TelemetryTypes, LoopRows
  <1>1. ASSUME UNCHANGED <<loop, stored, sent, own, closed, missed>>,
               session' \in [there : BOOLEAN, sends : 0..MaxSends, due : BOOLEAN],
               session'.there = session.there, session'.sends = session.sends
        PROVE  TelemetryInv'
    <2>1. TelemetryTypes'
      BY <1>0, <1>1 DEF TelemetryTypes
    <2>2. CarryFits'
      BY <1>0, <1>1 DEF CarryFits
    <2>3. DrivenByOne'
      BY <1>0, <1>1 DEF DrivenByOne, Driving
    <2>4. SessionCounts'
      BY <1>0, <1>1 DEF SessionCounts
    <2>5. SendsCounted'
      BY <1>0, <1>1 DEF SendsCounted, Owed, OwedSends
    <2> QED BY <2>1, <2>2, <2>3, <2>4, <2>5 DEF TelemetryInv
  <1>2. ASSUME NEW v \in Visitors, ResolveToken(v) PROVE TelemetryInv'
    BY <1>0, <1>1, <1>2 DEF ResolveToken, TelemetryTypes
  <1>3. CASE Due
    <2>1. session' = [session EXCEPT !.due = TRUE]
          /\ UNCHANGED <<loop, stored, sent, own, closed, missed>>
      BY <1>3 DEF Due
    <2> QED BY <1>0, <1>1, <2>1 DEF TelemetryTypes
  <1>4. CASE UNCHANGED telemetryVars
    BY <1>0, <1>1, <1>4 DEF telemetryVars, TelemetryTypes
  <1>5. ASSUME NEW l \in Loops, NEW row \in LoopRows, loop' = [loop EXCEPT ![l] = row],
               session' \in [there : BOOLEAN, sends : 0..MaxSends, due : BOOLEAN],
               stored' \in Nat, sent' \in Nat, own' \in Nat, closed' \in Nat, missed' \in Nat,
               sent' <= MaxSends,
               row.step \in {"off", "tick", "send"} => row.carry = 0,
               row.step = "count" => row.carry = 1,
               \A k \in Loops \ {l} : k \notin Driving,
               session'.there <=> row.step \in {"tick", "send", "count"},
               own' <= sent',
               ~session'.there => session'.sends = 0 /\ own' = 0,
               row.step \in {"tick", "count"} => session'.sends = own',
               row.step = "send" => session'.sends = own' + 1 /\ sent' < MaxSends,
               stored' + missed' + row.carry + sent + closed
                 = stored + missed + loop[l].carry + sent' + closed'
        PROVE  TelemetryInv'
    <2>1. /\ loop' \in [Loops -> LoopRows]
          /\ Owed \in Nat /\ Owed' \in Nat
          /\ Owed' + loop[l].carry = Owed + row.carry
      BY <1>0, <1>5, OwedStep DEF TelemetryTypes
    <2>2. loop'[l] = row /\ \A k \in Loops \ {l} : loop'[k] = loop[k]
      BY <1>0, <1>5 DEF TelemetryTypes
    <2>3. TelemetryTypes'
      BY <1>5, <2>1 DEF TelemetryTypes
    <2>4. CarryFits'
      BY <1>0, <1>5, <2>2 DEF CarryFits
    <2>5. \A k \in Loops : k \in Driving' <=> k = l /\ session'.there
      BY <1>5, <2>2 DEF Driving
    <2>6. DrivenByOne'
      <3>1. Driving' \subseteq Loops
        BY DEF Driving
      <3> QED BY <1>5, <2>5, <3>1 DEF DrivenByOne
    <2>7. SessionCounts'
      <3>1. ASSUME NEW k \in Loops
            PROVE  /\ loop'[k].step \in {"tick", "count"} => session'.sends = own'
                   /\ loop'[k].step = "send" => session'.sends = own' + 1 /\ sent' < MaxSends
        <4>1. CASE k = l
          BY <1>5, <2>2, <4>1
        <4>2. CASE k # l
          BY <1>5, <2>2, <4>2 DEF Driving
        <4> QED BY <4>1, <4>2
      <3> QED BY <1>5, <3>1 DEF SessionCounts
    <2>8. SendsCounted'
      <3>1. stored + missed + Owed = sent + closed
        BY <1>0 DEF SendsCounted
      <3>2. /\ stored \in Nat /\ missed \in Nat /\ sent \in Nat /\ closed \in Nat
            /\ row.carry \in Nat /\ loop[l].carry \in Nat
        BY <1>0, <1>s, TelemetryAssumption DEF TelemetryTypes, LoopRows
      <3> DEFINE was == loop[l].carry
                 is == row.carry
      <3>3. /\ was \in Nat /\ is \in Nat
            /\ Owed' + was = Owed + is
            /\ stored' + missed' + is + sent + closed = stored + missed + was + sent' + closed'
        BY <1>5, <2>1, <3>2
      <3> HIDE DEF was, is
      <3>4. stored' + missed' + Owed' = sent' + closed'
        BY <1>5, <2>1, <3>1, <3>2, <3>3
      <3> QED BY <3>4 DEF SendsCounted
    <2> QED BY <2>3, <2>4, <2>6, <2>7, <2>8 DEF TelemetryInv
  <1>6. ASSUME NEW l \in Loops, Open(l), ~session.there,
               UNCHANGED <<stored, sent, own, closed, missed>>
        PROVE  TelemetryInv'
    <2> DEFINE row == [step |-> "tick", carry |-> 0]
    <2>1. /\ loop[l].step = "off" /\ loop[l].carry = 0
          /\ loop' = [loop EXCEPT ![l] = row]
          /\ session' = [there |-> TRUE, sends |-> 0, due |-> FALSE]
      BY <1>0, <1>6 DEF Open, SetLoop, NoSession, CarryFits
    <2>2. row \in LoopRows /\ 0 \in 0..MaxSends
      BY TelemetryAssumption DEF LoopRows, LoopSteps
    <2>3. own = 0 /\ own <= sent /\ Driving = {}
      BY <1>0, <1>6 DEF SessionCounts, DrivenByOne
    <2>4. row.step = "tick" /\ row.carry = 0
      OBVIOUS
    <2>5. session' \in [there : BOOLEAN, sends : 0..MaxSends, due : BOOLEAN]
      BY <2>1, <2>2
    <2>6. /\ stored \in Nat /\ sent \in Nat /\ own \in Nat /\ closed \in Nat /\ missed \in Nat
          /\ sent <= MaxSends
      BY <1>0 DEF TelemetryTypes
    <2>7. session'.there /\ session'.sends = 0
      BY <2>1
    <2> HIDE DEF row
    <2>8. stored' + missed' + row.carry + sent + closed
            = stored + missed + loop[l].carry + sent' + closed'
      BY <1>6, <2>1, <2>4, <2>6
    <2> QED BY <1>5, <1>6, <2>1, <2>2, <2>3, <2>4, <2>5, <2>6, <2>7, <2>8
  <1>7. ASSUME NEW v \in Visitors, Activate(v) PROVE TelemetryInv'
    <2>1. PICK l \in Loops : OpenOrRenew(l)
      BY <1>7 DEF Activate
    <2>2. UNCHANGED <<stored, sent, own, closed, missed>>
      BY <1>7 DEF Activate
    <2>3. CASE session.there
      <3>1. session' = [session EXCEPT !.due = FALSE] /\ UNCHANGED loop
        BY <2>1, <2>3 DEF OpenOrRenew, Renew
      <3> QED BY <1>0, <1>1, <2>2, <3>1 DEF TelemetryTypes
    <2>4. CASE ~session.there
      BY <1>6, <2>1, <2>2, <2>4 DEF OpenOrRenew
    <2> QED BY <2>3, <2>4
  \* A loop that drives is the only one, and the session is there.
  <1>8. ASSUME NEW l \in Loops, loop[l].step \in {"tick", "send", "count"}
        PROVE  /\ session.there
               /\ \A k \in Loops \ {l} : k \notin Driving
    BY <1>0, <1>8 DEF DrivenByOne, Driving
  <1>9. ASSUME NEW l \in Loops, Close(l) PROVE TelemetryInv'
    <2> DEFINE row == [step |-> IF own > 0 THEN "close" ELSE "off", carry |-> own]
    <2>1. /\ loop[l].step = "tick"
          /\ session' = [there |-> FALSE, sends |-> 0, due |-> FALSE]
          /\ own' = 0 /\ closed' = closed + own
          /\ loop' = [loop EXCEPT ![l] =
               [step |-> IF session.sends > 0 THEN "close" ELSE "off", carry |-> session.sends]]
          /\ UNCHANGED <<stored, sent, missed>>
      BY <1>9 DEF Close, SetLoop, NoSession
    <2>2. session.sends = own /\ loop[l].carry = 0 /\ session.sends \in 0..MaxSends
      BY <1>0, <2>1 DEF SessionCounts, CarryFits, TelemetryTypes
    <2>3. loop' = [loop EXCEPT ![l] = row]
      BY <2>1, <2>2
    <2>4. row \in LoopRows /\ 0 \in 0..MaxSends
      BY <2>2, TelemetryAssumption DEF LoopRows, LoopSteps
    <2>5. /\ stored \in Nat /\ sent \in Nat /\ own \in Nat /\ closed \in Nat /\ missed \in Nat
          /\ sent <= MaxSends
      BY <1>0 DEF TelemetryTypes
    <2>6. /\ row.step \in {"off", "close"} /\ row.carry = own
          /\ row.step = "off" => own = 0
      BY <2>5
    <2>7. session' \in [there : BOOLEAN, sends : 0..MaxSends, due : BOOLEAN]
      BY <2>1, <2>4
    <2>8. ~session'.there /\ session'.sends = 0
      BY <2>1
    <2> HIDE DEF row
    <2>9. /\ stored' + missed' + row.carry + sent + closed
               = stored + missed + loop[l].carry + sent' + closed'
          /\ closed' \in Nat /\ own' \in Nat /\ own' <= sent'
      BY <2>1, <2>2, <2>5, <2>6
    <2> QED BY <1>5, <1>8, <2>1, <2>3, <2>4, <2>5, <2>6, <2>7, <2>8, <2>9
  <1>10. ASSUME NEW l \in Loops, SendDue(l) PROVE TelemetryInv'
    <2> DEFINE row == [step |-> "send", carry |-> 0]
    <2>1. /\ loop[l].step = "tick" /\ sent < MaxSends
          /\ session' = [session EXCEPT !.sends = session.sends + 1]
          /\ loop' = [loop EXCEPT ![l] = row]
          /\ UNCHANGED <<stored, sent, own, closed, missed>>
      BY <1>10 DEF SendDue, SetLoop
    <2>2. /\ session.sends = own /\ loop[l].carry = 0 /\ own <= sent
          /\ session \in [there : BOOLEAN, sends : 0..MaxSends, due : BOOLEAN]
      BY <1>0, <2>1 DEF SessionCounts, CarryFits, TelemetryTypes
    <2>3. /\ stored \in Nat /\ sent \in Nat /\ own \in Nat /\ closed \in Nat /\ missed \in Nat
          /\ sent <= MaxSends
      BY <1>0 DEF TelemetryTypes
    <2>4. row \in LoopRows /\ row.step = "send" /\ row.carry = 0
      BY TelemetryAssumption DEF LoopRows, LoopSteps
    <2>5. session.sends + 1 \in 0..MaxSends
      BY <2>1, <2>2, <2>3, TelemetryAssumption
    <2>6. /\ session' \in [there : BOOLEAN, sends : 0..MaxSends, due : BOOLEAN]
          /\ session'.there = session.there
          /\ session'.sends = own + 1
      BY <2>1, <2>2, <2>5
    <2> HIDE DEF row
    <2>7. stored' + missed' + row.carry + sent + closed
            = stored + missed + loop[l].carry + sent' + closed'
      BY <2>1, <2>2, <2>3, <2>4
    <2> QED BY <1>5, <1>8, <2>1, <2>2, <2>3, <2>4, <2>6, <2>7
  <1>11. ASSUME NEW l \in Loops, Deliver(l) PROVE TelemetryInv'
    <2> DEFINE row == [step |-> "count", carry |-> 1]
    <2>1. /\ loop[l].step = "send"
          /\ loop' = [loop EXCEPT ![l] = row]
          /\ sent' = sent + 1 /\ own' = own + 1
          /\ UNCHANGED <<session, stored, closed, missed>>
      BY <1>11 DEF Deliver, SetLoop
    <2>2. /\ session.sends = own + 1 /\ sent < MaxSends /\ loop[l].carry = 0 /\ own <= sent
          /\ session \in [there : BOOLEAN, sends : 0..MaxSends, due : BOOLEAN]
      BY <1>0, <2>1 DEF SessionCounts, CarryFits, TelemetryTypes
    <2>3. /\ stored \in Nat /\ sent \in Nat /\ own \in Nat /\ closed \in Nat /\ missed \in Nat
          /\ MaxSends \in Nat
      BY <1>0, TelemetryAssumption DEF TelemetryTypes
    <2>4. row \in LoopRows /\ row.step = "count" /\ row.carry = 1
      <3>1. 1 \in 0..MaxSends
        BY <2>2, <2>3
      <3> QED BY <3>1 DEF LoopRows, LoopSteps
    <2> HIDE DEF row
    <2>5. /\ stored' + missed' + row.carry + sent + closed
               = stored + missed + loop[l].carry + sent' + closed'
          /\ sent' \in Nat /\ own' \in Nat /\ own' <= sent' /\ sent' <= MaxSends
      BY <2>1, <2>2, <2>3, <2>4
    <2> QED BY <1>5, <1>8, <2>1, <2>2, <2>3, <2>4, <2>5
  <1>12. ASSUME NEW l \in Loops, Increment(l) PROVE TelemetryInv'
    <2> DEFINE row == [step |-> IF loop[l].step = "count" THEN "tick" ELSE "off", carry |-> 0]
               was == loop[l].carry
    <2>1. /\ loop[l].step \in {"count", "close"}
          /\ loop' = [loop EXCEPT ![l] = row]
          /\ \/ stored' = stored + was /\ missed' = missed
             \/ missed' = missed + was /\ stored' = stored
          /\ UNCHANGED <<session, sent, own, closed>>
      BY <1>12 DEF Increment, SetLoop
    <2>2. /\ stored \in Nat /\ sent \in Nat /\ own \in Nat /\ closed \in Nat /\ missed \in Nat
          /\ sent <= MaxSends /\ was \in Nat
          /\ session \in [there : BOOLEAN, sends : 0..MaxSends, due : BOOLEAN]
          /\ own <= sent
          /\ ~session.there => session.sends = 0 /\ own = 0
      BY <1>0, <1>s DEF TelemetryTypes, SessionCounts
    <2>3. row \in LoopRows /\ row.carry = 0
      BY TelemetryAssumption DEF LoopRows, LoopSteps
    <2>4. CASE loop[l].step = "count"
      <3>1. row.step = "tick" /\ session.there /\ session.sends = own
        BY <1>0, <1>8, <2>4 DEF SessionCounts
      <3> HIDE DEF row, was
      <3>2. /\ stored' + missed' + row.carry + sent + closed
                 = stored + missed + was + sent' + closed'
            /\ stored' \in Nat /\ missed' \in Nat
        BY <2>1, <2>2, <2>3
      <3>3. \A k \in Loops \ {l} : k \notin Driving
        BY <1>8, <2>4
      <3> QED BY <1>5, <2>1, <2>2, <2>3, <3>1, <3>2, <3>3 DEF was
    <2>5. CASE loop[l].step = "close"
      <3>1. row.step = "off"
        BY <2>5
      <3> HIDE DEF row, was
      <3>2. /\ stored' + missed' + row.carry + sent + closed
                 = stored + missed + was + sent' + closed'
            /\ stored' \in Nat /\ missed' \in Nat
        BY <2>1, <2>2, <2>3
      <3>3. /\ loop \in [Loops -> LoopRows]
            /\ l \notin Driving
        BY <1>0, <2>5 DEF TelemetryTypes, Driving
      <3>4. /\ loop' \in [Loops -> LoopRows]
            /\ Owed \in Nat /\ Owed' \in Nat
            /\ Owed' + was = Owed
        <4>1. /\ loop' \in [Loops -> LoopRows]
              /\ Owed \in Nat /\ Owed' \in Nat
              /\ Owed' + loop[l].carry = Owed + row.carry
          BY <2>1, <2>3, <3>3, OwedStep
        <4>2. Owed + row.carry = Owed
          BY <2>3, <4>1
        <4> QED BY <4>1, <4>2 DEF was
      <3>5. loop'[l] = row /\ \A k \in Loops \ {l} : loop'[k] = loop[k]
        BY <2>1, <3>3
      <3>6. TelemetryTypes'
        BY <1>0, <2>1, <3>2, <3>4 DEF TelemetryTypes
      <3>7. CarryFits'
        BY <1>0, <2>3, <3>1, <3>5 DEF CarryFits
      <3>8. Driving' = Driving
        BY <3>1, <3>3, <3>5 DEF Driving
      <3>9. DrivenByOne'
        BY <1>0, <2>1, <3>8 DEF DrivenByOne
      <3>10. SessionCounts'
        BY <1>0, <2>1, <3>1, <3>5 DEF SessionCounts
      <3>11. SendsCounted'
        <4>1. stored + missed + Owed = sent + closed
          BY <1>0 DEF SendsCounted
        <4> DEFINE before == Owed
                   after == Owed'
        <4>2. /\ before \in Nat /\ after \in Nat /\ after + was = before
              /\ stored + missed + before = sent + closed
          BY <3>4, <4>1
        <4> HIDE DEF before, after
        <4>3. stored' + missed' + after = sent' + closed'
          <5>1. /\ stored \in Nat /\ missed \in Nat /\ was \in Nat
                /\ sent' = sent /\ closed' = closed
            BY <2>1, <2>2
          <5>2. CASE stored' = stored + was /\ missed' = missed
            BY <4>2, <5>1, <5>2
          <5>3. CASE missed' = missed + was /\ stored' = stored
            BY <4>2, <5>1, <5>3
          <5> QED BY <2>1, <5>2, <5>3
        <4> QED BY <4>3 DEF SendsCounted, after
      <3> QED BY <3>6, <3>7, <3>9, <3>10, <3>11 DEF TelemetryInv
    <2> QED BY <2>1, <2>4, <2>5
  <1>13. CASE Crash
    <2>1. /\ session' = [there |-> FALSE, sends |-> 0, due |-> FALSE]
          /\ loop' = [l \in Loops |-> Off]
          /\ missed' = missed + Owed
          /\ own' = 0
          /\ UNCHANGED <<stored, sent, closed>>
      BY <1>13 DEF Crash, NoSession
    <2>2. Off \in LoopRows /\ 0 \in 0..MaxSends
      BY TelemetryAssumption DEF LoopRows, LoopSteps, Off
    <2>3. Owed \in Nat
      <3>1. IsFiniteSet(Loops) /\ IsFiniteSet(1..MaxSends)
        BY TelemetryAssumption, FS_Interval
      <3>2. IsFiniteSet(Loops \X (1..MaxSends))
        BY <3>1, FS_Product
      <3>3. IsFiniteSet(OwedSends)
        BY <3>2, FS_Subset DEF OwedSends
      <3> QED BY <3>3, FS_CardinalityType DEF Owed
    <2>4. TelemetryTypes'
      <3>1. session' \in [there : BOOLEAN, sends : 0..MaxSends, due : BOOLEAN]
        BY <2>1, <2>2
      <3> QED BY <1>0, <2>1, <2>2, <2>3, <3>1 DEF TelemetryTypes
    <2>5. CarryFits'
      BY <2>1 DEF CarryFits, Off
    <2>6. Driving' = {} /\ ~session'.there
      BY <2>1 DEF Driving, Off
    <2>7. DrivenByOne'
      BY <2>6 DEF DrivenByOne
    <2>8. SessionCounts'
      BY <1>0, <2>1 DEF SessionCounts, Off, TelemetryTypes
    <2>9. Owed' = 0
      <3>1. \A p \in Loops \X (1..MaxSends) : ~(p[2] <= loop'[p[1]].carry)
        BY <2>1 DEF Off
      <3>2. OwedSends' = {}
        BY <3>1 DEF OwedSends
      <3> QED BY <3>2, FS_EmptySet DEF Owed
    <2>10. SendsCounted'
      BY <1>0, <2>1, <2>3, <2>9 DEF SendsCounted, TelemetryTypes
    <2> QED BY <2>4, <2>5, <2>7, <2>8, <2>10 DEF TelemetryInv
  <1> QED BY <1>2, <1>3, <1>4, <1>7, <1>9, <1>10, <1>11, <1>12, <1>13 DEF TelemetryNext

THEOREM TelemetryInvariant == TelemetrySpec => []TelemetryInv
  <1>1. TelemetryInit => TelemetryInv
    <2> SUFFICES ASSUME TelemetryInit PROVE TelemetryInv
      OBVIOUS
    <2>1. Off \in LoopRows /\ 0 \in 0..MaxSends
      BY TelemetryAssumption DEF LoopRows, LoopSteps, Off
    <2>2. TelemetryTypes
      <3>1. session \in [there : BOOLEAN, sends : 0..MaxSends, due : BOOLEAN]
        BY <2>1 DEF TelemetryInit, NoSession
      <3> QED BY <2>1, <3>1, TelemetryAssumption DEF TelemetryInit, TelemetryTypes
    <2>3. CarryFits
      BY DEF TelemetryInit, CarryFits, Off
    <2>4. DrivenByOne
      BY DEF TelemetryInit, DrivenByOne, Driving, Off, NoSession
    <2>5. SessionCounts
      BY DEF TelemetryInit, SessionCounts, Off, NoSession
    <2>6. SendsCounted
      <3>1. \A p \in Loops \X (1..MaxSends) : ~(p[2] <= loop[p[1]].carry)
        BY DEF TelemetryInit, Off
      <3>2. OwedSends = {}
        BY <3>1 DEF OwedSends
      <3> QED BY <3>2, FS_EmptySet DEF TelemetryInit, SendsCounted, Owed
    <2> QED BY <2>2, <2>3, <2>4, <2>5, <2>6 DEF TelemetryInv
  <1> QED BY <1>1, TelemetryStep, PTL DEF TelemetrySpec

(***************************************************************************)
(* telemetry_loop and activate_session: a session that is open has exactly *)
(* one loop that drives it, and one that is not has none, for any number   *)
(* of activations, futures, sends and restarts.                            *)
(***************************************************************************)
THEOREM OneLoop == TelemetrySpec => []LoopAlone
  <1>1. TelemetryInv => LoopAlone
    <2> SUFFICES ASSUME TelemetryInv PROVE LoopAlone
      OBVIOUS
    <2>1. DrivenByOne
      BY DEF TelemetryInv
    <2>2. CASE session.there
      <3>1. PICK l \in Driving : TRUE
        BY <2>1, <2>2 DEF DrivenByOne
      <3>2. Driving = {l}
        BY <2>1, <3>1 DEF DrivenByOne
      <3>3. Cardinality(Driving) = 1
        BY <3>2, FS_Singleton
      <3> QED BY <2>2, <3>3 DEF LoopAlone
    <2>3. CASE ~session.there
      <3>1. Driving = {}
        BY <2>1, <2>3 DEF DrivenByOne
      <3> QED BY <2>3, <3>1, FS_EmptySet DEF LoopAlone
    <2> QED BY <2>2, <2>3
  <1> QED BY <1>1, TelemetryInvariant, PTL

(***************************************************************************)
(* increment_telemetry_count: what is written, lost or still owed is what  *)
(* was sent, once when it is sent and once more when its session expires,  *)
(* in any order of sends, expiries, failed writes and restarts.            *)
(***************************************************************************)
THEOREM EverySendCounted == TelemetrySpec => []SendsCounted
  <1>1. TelemetryInv => SendsCounted
    BY DEF TelemetryInv
  <1> QED BY <1>1, TelemetryInvariant, PTL
-------------------------------------------------------------------------------
(* WarmCaps.                                                               *)

Tiers == [h : Int, max : Int]

\* The tiers that a stable sort by age puts before tier i of s, and i itself.
UpTo(s, i) == {j \in DOMAIN s : s[j].h < s[i].h \/ (s[j].h = s[i].h /\ j <= i)}

Sorted(s) == \A i, j \in DOMAIN s : i <= j => s[i].h <= s[j].h

\* The ranks of a schedule of n tiers are the numbers from 1 to n, in its order.
LEMMA RankOrders ==
  ASSUME NEW s \in Seq(Tiers)
  PROVE  /\ DOMAIN s = 1..Len(s) /\ Len(s) \in Nat
         /\ \A i \in DOMAIN s : Rank(s, i) \in DOMAIN s /\ s[i] \in Tiers
         /\ \A i, k \in DOMAIN s : Rank(s, i) = Rank(s, k) => i = k
         /\ \A i, k \in DOMAIN s : Rank(s, i) <= Rank(s, k) => s[i].h <= s[k].h
  <1> DEFINE n == Len(s)
             D == 1..n
  <1>1. n \in Nat /\ DOMAIN s = D /\ \A i \in D : s[i] \in Tiers /\ s[i].h \in Int
    <2>1. n \in Nat /\ DOMAIN s = D
      BY LenProperties
    <2>2. \A i \in D : s[i] \in Tiers
      BY ElementOfSeq
    <2> QED BY <2>1, <2>2 DEF Tiers
  <1> HIDE DEF n
  <1>2. IsFiniteSet(D) /\ Cardinality(D) = n
    BY <1>1, FS_Interval
  <1>3. ASSUME NEW i \in D
        PROVE  /\ IsFiniteSet(UpTo(s, i)) /\ i \in UpTo(s, i)
               /\ Rank(s, i) = Cardinality(UpTo(s, i))
               /\ Rank(s, i) \in D
    <2>1. UpTo(s, i) \in SUBSET D /\ i \in UpTo(s, i)
      BY <1>1 DEF UpTo
    <2>2. /\ IsFiniteSet(UpTo(s, i)) /\ Cardinality(UpTo(s, i)) <= n
          /\ Cardinality(UpTo(s, i)) \in Nat
      BY <1>2, <2>1, FS_Subset, FS_CardinalityType
    <2>3. Cardinality(UpTo(s, i)) # 0
      BY <2>1, <2>2, FS_EmptySet
    <2>4. Rank(s, i) = Cardinality(UpTo(s, i))
      BY DEF Rank, UpTo
    <2> QED BY <1>1, <2>1, <2>2, <2>3, <2>4
  <1>4. ASSUME NEW i \in D, NEW k \in D, i # k,
               s[i].h < s[k].h \/ (s[i].h = s[k].h /\ i <= k)
        PROVE  Rank(s, i) < Rank(s, k)
    <2>1. UpTo(s, i) \subseteq UpTo(s, k)
      <3> SUFFICES ASSUME NEW j \in UpTo(s, i) PROVE j \in UpTo(s, k)
        OBVIOUS
      <3>1. j \in D /\ s[j].h \in Int /\ s[i].h \in Int /\ s[k].h \in Int
        BY <1>1 DEF UpTo
      <3>2. s[j].h < s[i].h \/ (s[j].h = s[i].h /\ j <= i)
        BY DEF UpTo
      <3>3. s[j].h < s[k].h \/ (s[j].h = s[k].h /\ j <= k)
        BY <1>1, <1>4, <3>1, <3>2
      <3> QED BY <1>1, <3>1, <3>3 DEF UpTo
    <2>2. k \in UpTo(s, k) /\ k \notin UpTo(s, i)
      <3>1. s[i].h \in Int /\ s[k].h \in Int
        BY <1>1
      <3>2. ~(s[k].h < s[i].h \/ (s[k].h = s[i].h /\ k <= i))
        BY <1>1, <1>4, <3>1
      <3> QED BY <1>3, <3>2 DEF UpTo
    <2>3. UpTo(s, i) # UpTo(s, k)
      BY <2>2
    <2>4. /\ Cardinality(UpTo(s, i)) <= Cardinality(UpTo(s, k))
          /\ Cardinality(UpTo(s, i)) # Cardinality(UpTo(s, k))
      BY <1>3, <2>1, <2>3, FS_Subset
    <2>5. Rank(s, i) \in Nat /\ Rank(s, k) \in Nat
      BY <1>1, <1>3
    <2> QED BY <1>3, <2>4, <2>5
  <1>5. ASSUME NEW i \in D, NEW k \in D, i # k
        PROVE  Rank(s, i) # Rank(s, k) /\ (Rank(s, i) <= Rank(s, k) => s[i].h <= s[k].h)
    <2>1. s[i].h \in Int /\ s[k].h \in Int /\ Rank(s, i) \in Nat /\ Rank(s, k) \in Nat
      BY <1>1, <1>3
    <2>2. CASE s[i].h < s[k].h \/ (s[i].h = s[k].h /\ i <= k)
      <3>1. Rank(s, i) < Rank(s, k)
        BY <1>4, <1>5, <2>2
      <3> QED BY <2>1, <2>2, <3>1
    <2>3. CASE ~(s[i].h < s[k].h \/ (s[i].h = s[k].h /\ i <= k))
      <3>1. s[k].h < s[i].h \/ (s[k].h = s[i].h /\ k <= i)
        BY <1>1, <2>1, <2>3
      <3>2. Rank(s, k) < Rank(s, i)
        BY <1>4, <1>5, <3>1
      <3> QED BY <2>1, <3>2
    <2> QED BY <2>2, <2>3
  <1>6. \A i \in D : s[i].h <= s[i].h
    BY <1>1
  <1> HIDE DEF n, D
  <1>7. /\ \A i, k \in D : Rank(s, i) = Rank(s, k) => i = k
        /\ \A i, k \in D : Rank(s, i) <= Rank(s, k) => s[i].h <= s[k].h
    BY <1>5, <1>6
  <1> QED BY <1>1, <1>3, <1>7 DEF n, D

\* Every rank is given.
LEMMA EveryRank ==
  ASSUME NEW s \in Seq(Tiers), NEW r \in DOMAIN s
  PROVE  \E i \in DOMAIN s : Rank(s, i) = r
  <1> DEFINE D == DOMAIN s
             f == [i \in D |-> Rank(s, i)]
  <1>1. IsFiniteSet(D)
    <2>1. D = 1..Len(s) /\ Len(s) \in Nat
      BY RankOrders
    <2> QED BY <2>1, FS_Interval
  <1>2. f \in Injection(D, D)
    <2>1. /\ \A i \in D : Rank(s, i) \in D
          /\ \A i, k \in D : Rank(s, i) = Rank(s, k) => i = k
      BY RankOrders
    <2> QED BY <2>1 DEF Injection, IsInjective
  <1>3. f \in Surjection(D, D)
    BY <1>1, <1>2, FS_Injection
  <1> QED BY <1>3 DEF Surjection

\* parse: a schedule has as many tiers as it was given, and they are in order.
LEMMA ParseSorts ==
  ASSUME NEW s \in Seq(Tiers)
  PROVE  Parsed(s) \in Seq(Tiers) /\ Len(Parsed(s)) = Len(s) /\ Sorted(Parsed(s))
  <1> DEFINE at(r) == CHOOSE i \in DOMAIN s : Rank(s, i) = r
  <1>1. \A r \in DOMAIN s : at(r) \in DOMAIN s /\ Rank(s, at(r)) = r
    BY EveryRank
  <1>2. Parsed(s) = [r \in DOMAIN s |-> s[at(r)]]
    BY DEF Parsed
  <1> HIDE DEF at
  <1>3. DOMAIN s = 1..Len(s) /\ Len(s) \in Nat /\ \A i \in DOMAIN s : s[i] \in Tiers
    BY RankOrders
  <1>4. Parsed(s) \in [1..Len(s) -> Tiers]
    BY <1>1, <1>2, <1>3
  <1>5. Parsed(s) \in Seq(Tiers) /\ Len(Parsed(s)) = Len(s)
    BY <1>3, <1>4, SeqDef, LenProperties
  <1>6. Sorted(Parsed(s))
    <2> SUFFICES ASSUME NEW i \in DOMAIN s, NEW j \in DOMAIN s, i <= j
                 PROVE  Parsed(s)[i].h <= Parsed(s)[j].h
      BY <1>2 DEF Sorted
    <2>1. s[at(i)].h <= s[at(j)].h
      BY <1>1, RankOrders
    <2> QED BY <1>2, <2>1
  <1> QED BY <1>5, <1>6

\* A schedule that is in order is not changed by parsing it again.
LEMMA ParseKeeps ==
  ASSUME NEW s \in Seq(Tiers), Sorted(s)
  PROVE  Parsed(s) = s
  <1>1. DOMAIN s = 1..Len(s) /\ Len(s) \in Nat /\ \A i \in DOMAIN s : s[i] \in Tiers
    BY RankOrders
  <1>2. ASSUME NEW i \in DOMAIN s PROVE Rank(s, i) = i
    <2>1. UpTo(s, i) = 1..i
      <3>1. ASSUME NEW j \in 1..Len(s)
            PROVE  s[j].h < s[i].h \/ (s[j].h = s[i].h /\ j <= i) <=> j <= i
        <4>1. s[j].h \in Int /\ s[i].h \in Int /\ i \in 1..Len(s)
          BY <1>1 DEF Tiers
        <4>2. (i <= j => s[i].h <= s[j].h) /\ (j <= i => s[j].h <= s[i].h)
          BY <1>1 DEF Sorted
        <4> QED BY <4>1, <4>2
      <3>2. UpTo(s, i) = {j \in 1..Len(s) : j <= i}
        BY <1>1, <3>1 DEF UpTo
      <3> QED BY <1>1, <3>2
    <2>2. Cardinality(1..i) = i
      BY <1>1, FS_Interval
    <2> QED BY <2>1, <2>2 DEF Rank, UpTo
  <1> DEFINE at(r) == CHOOSE i \in DOMAIN s : Rank(s, i) = r
  <1>3. \A r \in DOMAIN s : at(r) = r
    BY <1>2
  <1>4. Parsed(s) = [r \in DOMAIN s |-> s[r]]
    <2>1. Parsed(s) = [r \in DOMAIN s |-> s[at(r)]]
      BY DEF Parsed
    <2> HIDE DEF at
    <2> QED BY <1>3, <2>1
  <1>5. s \in [1..Len(s) -> Tiers]
    BY <1>1, LenProperties
  <1> QED BY <1>4, <1>5

Schedule == {s \in Seq(Tiers) : Sorted(s)}

Configs == [enabled : BOOLEAN, tiers : Schedule]

CapsTypes ==
  /\ saved \in Configs
  /\ running \in Configs
  /\ update \in [Admins -> [at : {"idle", "saving"}, copy : Configs,
                            todo : SUBSET {"enabled", "tiers"}]]
  /\ mixed \in BOOLEAN

\* What is saved of the tiers is those of a configuration, or none and the default.
SavedTiers(config, s) ==
  config.tiers = s.tiers \/ (s.tiers = <<>> /\ config.tiers = DefaultTiers)

IdleTidy == \A u \in Admins : update[u].at = "idle" => update[u] = NoUpdate

UpdatesApart == ~mixed => \A u, v \in UnderWay : u = v

\* Between updates what is saved is running.
SavedRuns ==
  ~mixed /\ UnderWay = {} => running.enabled = saved.enabled /\ SavedTiers(running, saved)

\* During one, its copy is saved but for what it has still to save.
CopySaved ==
  ~mixed => \A u \in UnderWay :
    /\ "enabled" \notin update[u].todo => update[u].copy.enabled = saved.enabled
    /\ "tiers" \notin update[u].todo => SavedTiers(update[u].copy, saved)

CapsInv == CapsTypes /\ IdleTidy /\ UpdatesApart /\ SavedRuns /\ CopySaved

LEMMA DefaultSchedule == DefaultTiers \in Schedule /\ DefaultTiers # <<>>
  <1>1. /\ DefaultTiers \in Seq(Tiers) /\ Len(DefaultTiers) = 2
        /\ DefaultTiers[1].h = 1 /\ DefaultTiers[2].h = 2
    BY DEF DefaultTiers, Tiers
  <1>2. DOMAIN DefaultTiers = {1, 2}
    <2>1. DOMAIN DefaultTiers = 1..2
      BY <1>1, LenProperties
    <2> QED BY <2>1
  <1>3. Sorted(DefaultTiers)
    BY <1>1, <1>2 DEF Sorted
  <1>4. DefaultTiers # <<>>
    BY DEF DefaultTiers
  <1> QED BY <1>1, <1>3, <1>4 DEF Schedule

LEMMA EmptySchedule == <<>> \in Schedule
  BY EmptySeq DEF Schedule, Sorted

\* load: what is loaded is what was saved, or the default.
LEMMA LoadKeeps ==
  ASSUME NEW s \in Configs
  PROVE  /\ Loaded(s) \in Configs /\ Loaded(s).enabled = s.enabled
         /\ s.tiers # <<>> => Loaded(s) = s
         /\ s.tiers = <<>> => Loaded(s).tiers = DefaultTiers
  <1>1. /\ s = [enabled |-> s.enabled, tiers |-> s.tiers]
        /\ s.enabled \in BOOLEAN /\ s.tiers \in Schedule
    BY DEF Configs
  <1>2. Parsed(s.tiers) = s.tiers
    BY <1>1, ParseKeeps DEF Schedule
  <1>3. Loaded(s) = [enabled |-> s.enabled,
                     tiers |-> IF s.tiers = <<>> THEN DefaultTiers ELSE s.tiers]
    BY <1>2 DEF Loaded
  <1>4. Loaded(s) \in Configs
    BY <1>1, <1>3, DefaultSchedule DEF Configs
  <1> QED BY <1>1, <1>3, <1>4

LEMMA CapsStep == CapsInv /\ [CapsNext]_capVars => CapsInv'
  <1> SUFFICES ASSUME CapsInv, [CapsNext]_capVars
               PROVE  CapsInv'
    OBVIOUS
  <1>0. CapsTypes /\ IdleTidy /\ UpdatesApart /\ SavedRuns /\ CopySaved
    BY DEF CapsInv
  <1> DEFINE Rows == [at : {"idle", "saving"}, copy : Configs,
                      todo : SUBSET {"enabled", "tiers"}]
  <1>n. /\ NoUpdate \in Rows /\ NoUpdate.at = "idle" /\ NoUpdate.todo = {}
    BY EmptySchedule DEF NoUpdate, Configs
  <1>r. ASSUME NEW u \in Admins
        PROVE  /\ update[u] \in Rows
               /\ u \in UnderWay <=> update[u].at = "saving"
               /\ update[u].todo # {} => u \in UnderWay
    BY <1>0, <1>n DEF CapsTypes, UnderWay, IdleTidy
  <1>1. ASSUME NEW u \in Admins, NEW fields \in SUBSET {"enabled", "tiers"},
               NEW on \in BOOLEAN, NEW s \in Schedules, BeginUpdate(u, fields, on, s)
        PROVE  CapsInv'
    <2> DEFINE copy == [enabled |-> IF "enabled" \in fields THEN on ELSE running.enabled,
                        tiers |-> IF "tiers" \in fields THEN Parsed(s) ELSE running.tiers]
               row == [at |-> "saving", todo |-> fields, copy |-> copy]
    <2>1. /\ u \notin UnderWay
          /\ update' = [update EXCEPT ![u] = row]
          /\ mixed' = (mixed \/ UnderWay # {})
          /\ UNCHANGED <<saved, running>>
      BY <1>1 DEF BeginUpdate
    <2>2. copy \in Configs
      <3>1. Parsed(s) \in Schedule
        BY CapsAssumption, ParseSorts DEF Schedule, Tiers
      <3> QED BY <1>0, <3>1 DEF CapsTypes, Configs
    <2>3. /\ "enabled" \notin fields => copy.enabled = running.enabled
          /\ "tiers" \notin fields => copy.tiers = running.tiers
      OBVIOUS
    <2> HIDE DEF copy
    <2>4. row \in Rows /\ row.at = "saving" /\ row.copy = copy /\ row.todo = fields
      BY <2>2
    <2> HIDE DEF row
    <2>5. /\ update' \in [Admins -> Rows] /\ update'[u] = row
          /\ \A v \in Admins \ {u} : update'[v] = update[v]
      BY <1>0, <2>1, <2>4 DEF CapsTypes
    <2>6. UnderWay' = UnderWay \cup {u}
      BY <2>4, <2>5 DEF UnderWay
    <2>7. mixed' \in BOOLEAN /\ (~mixed' => ~mixed /\ UnderWay = {})
      BY <2>1
    <2>8. CapsTypes'
      BY <1>0, <2>1, <2>5, <2>7 DEF CapsTypes
    <2>9. IdleTidy'
      BY <1>0, <2>4, <2>5 DEF IdleTidy
    <2>10. UpdatesApart'
      BY <2>6, <2>7 DEF UpdatesApart
    <2>11. SavedRuns'
      BY <2>6 DEF SavedRuns
    <2>12. CopySaved'
      <3> SUFFICES ASSUME ~mixed', NEW v \in UnderWay'
                   PROVE  /\ "enabled" \notin update'[v].todo =>
                               update'[v].copy.enabled = saved'.enabled
                          /\ "tiers" \notin update'[v].todo => SavedTiers(update'[v].copy, saved')
        BY DEF CopySaved
      <3>1. v = u /\ running.enabled = saved.enabled /\ SavedTiers(running, saved)
        BY <1>0, <2>6, <2>7 DEF SavedRuns
      <3> QED BY <2>1, <2>3, <2>4, <2>5, <3>1 DEF SavedTiers
    <2> QED BY <2>8, <2>9, <2>10, <2>11, <2>12 DEF CapsInv
  <1>2. ASSUME NEW u \in Admins, SaveField(u) PROVE CapsInv'
    <2> DEFINE f == NextField(u)
               copy == update[u].copy
               rest == update[u].todo \ {f}
               row == [at |-> update[u].at, copy |-> copy, todo |-> rest]
    <2>1. /\ update[u].todo # {}
          /\ saved' = [saved EXCEPT ![f] = copy[f]]
          /\ update' = [update EXCEPT ![u].todo = rest]
          /\ UNCHANGED <<running, mixed>>
      BY <1>2 DEF SaveField
    <2>2. /\ u \in UnderWay /\ update[u].at = "saving" /\ copy \in Configs
          /\ update[u].todo \in SUBSET {"enabled", "tiers"}
      BY <1>r, <2>1
    <2>3. /\ f \in update[u].todo
          /\ f = "enabled" \/ (f = "tiers" /\ "enabled" \notin update[u].todo)
      BY <2>1, <2>2 DEF NextField
    <2>4. /\ saved = [enabled |-> saved.enabled, tiers |-> saved.tiers]
          /\ saved \in Configs
      BY <1>0 DEF CapsTypes, Configs
    <2>5. /\ f = "enabled" => saved' = [enabled |-> copy.enabled, tiers |-> saved.tiers]
          /\ f = "tiers" => saved' = [enabled |-> saved.enabled, tiers |-> copy.tiers]
      <3> HIDE DEF f, copy
      <3> QED BY <2>1, <2>4
    <2> HIDE DEF f
    <2>6. update' = [update EXCEPT ![u] = row]
      <3>1. update[u] \in Rows
        BY <1>r
      <3>2. update[u] = [at |-> update[u].at, copy |-> copy, todo |-> update[u].todo]
        BY <3>1
      <3>3. [update[u] EXCEPT !.todo = rest] = row
        BY <3>2
      <3>4. update \in [Admins -> Rows]
        BY <1>0 DEF CapsTypes
      <3> QED BY <2>1, <3>3, <3>4
    <2>7. row \in Rows /\ row.at = "saving" /\ row.copy = copy /\ row.todo = rest
      BY <2>2
    <2> HIDE DEF row, rest, copy
    <2>8. /\ update' \in [Admins -> Rows] /\ update'[u] = row
          /\ \A v \in Admins \ {u} : update'[v] = update[v]
      BY <1>0, <2>6, <2>7 DEF CapsTypes
    <2>9. UnderWay' = UnderWay
      BY <2>2, <2>7, <2>8 DEF UnderWay
    <2>10. saved' \in Configs
      BY <2>2, <2>3, <2>4, <2>5 DEF Configs
    <2>11. CapsTypes'
      BY <1>0, <2>1, <2>8, <2>10 DEF CapsTypes
    <2>12. IdleTidy'
      BY <1>0, <2>7, <2>8 DEF IdleTidy
    <2>13. UpdatesApart'
      BY <1>0, <2>1, <2>9 DEF UpdatesApart
    <2>14. SavedRuns'
      BY <2>2, <2>9 DEF SavedRuns
    <2>15. CopySaved'
      <3> SUFFICES ASSUME ~mixed', NEW v \in UnderWay'
                   PROVE  /\ "enabled" \notin update'[v].todo =>
                               update'[v].copy.enabled = saved'.enabled
                          /\ "tiers" \notin update'[v].todo => SavedTiers(update'[v].copy, saved')
        BY DEF CopySaved
      <3>1. /\ v = u
            /\ "enabled" \notin update[u].todo => copy.enabled = saved.enabled
            /\ "tiers" \notin update[u].todo => SavedTiers(copy, saved)
        BY <1>0, <2>1, <2>2, <2>9 DEF UpdatesApart, CopySaved, copy
      <3>2. /\ update'[v].copy = copy
            /\ \A g \in {"enabled", "tiers"} :
                 g \notin update'[v].todo => g = f \/ g \notin update[u].todo
        BY <2>7, <2>8, <3>1 DEF rest
      <3>3. CASE f = "enabled"
        <4>1. saved'.enabled = copy.enabled /\ saved'.tiers = saved.tiers
          BY <2>5, <3>3
        <4> QED BY <3>1, <3>2, <3>3, <4>1 DEF SavedTiers
      <3>4. CASE f = "tiers"
        <4>1. saved'.enabled = saved.enabled /\ saved'.tiers = copy.tiers
          BY <2>5, <3>4
        <4> QED BY <3>1, <3>2, <3>4, <4>1 DEF SavedTiers
      <3> QED BY <2>3, <3>3, <3>4
    <2> QED BY <2>11, <2>12, <2>13, <2>14, <2>15 DEF CapsInv
  <1>3. ASSUME NEW u \in Admins, SetRunning(u) \/ BreakOff(u) PROVE CapsInv'
    <2>1. /\ u \in UnderWay
          /\ update' = [update EXCEPT ![u] = NoUpdate]
          /\ UNCHANGED saved
          /\ \/ running' = update[u].copy /\ mixed' = mixed /\ update[u].todo = {}
             \/ running' = running /\ mixed' = TRUE
      BY <1>3 DEF SetRunning, BreakOff
    <2>2. /\ update' \in [Admins -> Rows] /\ update'[u] = NoUpdate
          /\ \A v \in Admins \ {u} : update'[v] = update[v]
      BY <1>0, <1>n, <2>1 DEF CapsTypes
    <2>3. UnderWay' = UnderWay \ {u}
      BY <1>n, <2>2 DEF UnderWay
    <2>4. CapsTypes'
      <3>1. running' \in Configs /\ mixed' \in BOOLEAN
        BY <1>0, <1>r, <2>1 DEF CapsTypes
      <3> QED BY <1>0, <2>1, <2>2, <3>1 DEF CapsTypes
    <2>5. IdleTidy'
      BY <1>0, <2>2 DEF IdleTidy
    <2>6. UpdatesApart'
      BY <1>0, <2>1, <2>3 DEF UpdatesApart
    <2>7. ~mixed' => UnderWay' = {}
      BY <1>0, <2>1, <2>3 DEF UpdatesApart
    <2>8. SavedRuns'
      <3>1. ASSUME ~mixed'
            PROVE  running'.enabled = saved'.enabled /\ SavedTiers(running', saved')
        <4>1. ~mixed /\ running' = update[u].copy /\ update[u].todo = {}
          BY <2>1, <3>1
        <4>2. update[u].copy.enabled = saved.enabled /\ SavedTiers(update[u].copy, saved)
          BY <1>0, <2>1, <4>1 DEF CopySaved
        <4> QED BY <2>1, <4>1, <4>2 DEF SavedTiers
      <3> QED BY <3>1 DEF SavedRuns
    <2>9. CopySaved'
      BY <2>7 DEF CopySaved
    <2> QED BY <2>4, <2>5, <2>6, <2>8, <2>9 DEF CapsInv
  <1>4. CASE Reload
    <2>1. /\ running' = Loaded(saved)
          /\ update' = [u \in Admins |-> NoUpdate]
          /\ mixed' = FALSE /\ UNCHANGED saved
      BY <1>4 DEF Reload
    <2>2. /\ Loaded(saved) \in Configs /\ Loaded(saved).enabled = saved.enabled
          /\ saved.tiers # <<>> => Loaded(saved) = saved
          /\ saved.tiers = <<>> => Loaded(saved).tiers = DefaultTiers
      BY <1>0, LoadKeeps DEF CapsTypes
    <2>3. UnderWay' = {}
      BY <1>n, <2>1 DEF UnderWay
    <2>4. CapsTypes'
      BY <1>0, <1>n, <2>1, <2>2 DEF CapsTypes
    <2>5. IdleTidy' /\ UpdatesApart' /\ CopySaved'
      BY <2>1, <2>3 DEF IdleTidy, UpdatesApart, CopySaved
    <2>6. SavedRuns'
      BY <2>1, <2>2 DEF SavedRuns, SavedTiers
    <2> QED BY <2>4, <2>5, <2>6 DEF CapsInv
  <1>5. ASSUME UNCHANGED capVars PROVE CapsInv'
    BY <1>0, <1>5 DEF capVars, CapsInv, CapsTypes, IdleTidy, UpdatesApart, SavedRuns,
         CopySaved, SavedTiers, UnderWay
  <1> QED BY <1>1, <1>2, <1>3, <1>4, <1>5 DEF CapsNext

THEOREM CapsInvariant == CapsSpec => []CapsInv
  <1>1. CapsInit => CapsInv
    <2> SUFFICES ASSUME CapsInit PROVE CapsInv
      OBVIOUS
    <2>1. /\ saved = [enabled |-> TRUE, tiers |-> <<>>] /\ saved \in Configs
          /\ running = Loaded(saved) /\ mixed = FALSE
          /\ update = [u \in Admins |-> NoUpdate]
      BY EmptySchedule DEF CapsInit, Configs
    <2>2. /\ running \in Configs /\ running.enabled = saved.enabled
          /\ running.tiers = DefaultTiers
      BY <2>1, LoadKeeps
    <2>3. NoUpdate \in [at : {"idle", "saving"}, copy : Configs,
                        todo : SUBSET {"enabled", "tiers"}]
      BY EmptySchedule DEF NoUpdate, Configs
    <2>4. CapsTypes
      BY <2>1, <2>2, <2>3 DEF CapsTypes
    <2>5. UnderWay = {} /\ IdleTidy
      BY <2>1 DEF UnderWay, IdleTidy, NoUpdate
    <2>6. SavedRuns
      BY <2>1, <2>2 DEF SavedRuns, SavedTiers
    <2> QED BY <2>4, <2>5, <2>6 DEF CapsInv, UpdatesApart, CopySaved
  <1> QED BY <1>1, CapsStep, PTL DEF CapsSpec

\* The cap of an age is none, or that of a first-ending tier above it.
LEMMA CapOfAge ==
  ASSUME NEW config \in Configs, NEW age \in Nat
  PROVE  /\ CapForAge(config, age) \in Int
         /\ ~config.enabled \/ TiersOf(config.tiers, age) = {} => CapForAge(config, age) = 0
         /\ config.enabled /\ TiersOf(config.tiers, age) # {} =>
              \E t \in TiersOf(config.tiers, age) : CapForAge(config, age) = t.max
  <1> DEFINE s == config.tiers
             within == {i \in DOMAIN s : age < s[i].h}
             least == CHOOSE i \in within : \A j \in within : i <= j
             first == TiersOf(s, age)
  <1>1. /\ config.enabled \in BOOLEAN /\ s \in Seq(Tiers) /\ Sorted(s)
    BY DEF Configs, Schedule
  <1>2. /\ DOMAIN s = 1..Len(s) /\ Len(s) \in Nat
        /\ \A i \in DOMAIN s : s[i] \in Tiers /\ s[i].h \in Int /\ s[i].max \in Int
    BY <1>1, RankOrders DEF Tiers
  <1>3. CapForAge(config, age) = IF ~config.enabled \/ within = {} THEN 0 ELSE s[least].max
    BY DEF CapForAge
  <1>4. first = {t \in {s[i] : i \in within} : \A o \in {s[i] : i \in within} : t.h <= o.h}
    <2>1. {t \in ToSet(s) : age < t.h} = {s[i] : i \in within}
      BY DEF ToSet
    <2> QED BY <2>1 DEF TiersOf
  <1>5. within = {} => first = {}
    BY <1>4
  <1>6. ASSUME within # {}
        PROVE  least \in DOMAIN s /\ s[least] \in first
    <2>1. within \subseteq Nat
      BY <1>2
    <2>2. least \in within /\ \A j \in within : least <= j
      BY <1>6, <2>1, SmallestThere
    <2>3. \A j \in within : s[least].h <= s[j].h
      BY <1>1, <2>2 DEF Sorted
    <2> HIDE DEF least
    <2> QED BY <1>4, <2>2, <2>3
  <1> HIDE DEF s, within, least, first
  <1> QED BY <1>1, <1>2, <1>3, <1>5, <1>6 DEF s, first

\* The least of two limits, of which zero is none.
LEMMA LeastLimit ==
  ASSUME NEW ownMax \in Nat, NEW cap \in Int
  PROVE  /\ Within(WarmEffectiveMax(ownMax, cap), ownMax)
         /\ Within(WarmEffectiveMax(ownMax, cap), cap)
         /\ cap = 0 => WarmEffectiveMax(ownMax, cap) = ownMax
  <1>1. WarmEffectiveMax(ownMax, cap) =
          IF ownMax = 0 THEN cap
          ELSE IF cap = 0 THEN ownMax ELSE IF ownMax < cap THEN ownMax ELSE cap
    BY DEF WarmEffectiveMax
  <1> QED BY <1>1 DEF Within

(***************************************************************************)
(* warm_effective_max and update_settings: between updates the schedule    *)
(* that was saved is obeyed, in whatever order its tiers were written, and *)
(* a restart changes nothing, for any administrators and schedules; but    *)
(* for overlapping updates, broken ones and empty schedules.               *)
(***************************************************************************)
THEOREM CapsObeyed == CapsSpec => []CapsTight
  <1>1. CapsInv => CapsTight
    <2> SUFFICES ASSUME CapsInv, ~mixed, UnderWay = {}, saved.tiers # <<>>
                 PROVE  /\ \A age, ownMax \in 0..MaxHours :
                             LET n == WarmEffectiveMax(ownMax, CapForAge(running, age))
                                 first == TiersOf(saved.tiers, age)
                             IN  /\ Within(n, ownMax)
                                 /\ saved.enabled /\ first # {} => \E t \in first : Within(n, t.max)
                                 /\ (~saved.enabled \/ first = {}) => n = ownMax
                        /\ running = Loaded(saved)
      <3>1. CapsInv /\ ~mixed /\ UnderWay = {} =>
              running.enabled = saved.enabled /\ SavedTiers(running, saved)
        BY DEF CapsInv, SavedRuns
      <3> QED BY <3>1 DEF CapsTight, SavedTiers
    <2>1. running.enabled = saved.enabled /\ running.tiers = saved.tiers
      BY DEF CapsInv, SavedRuns, SavedTiers
    <2>2. saved \in Configs /\ running \in Configs
      BY DEF CapsInv, CapsTypes
    <2>3. running = saved /\ Loaded(saved) = saved
      <3>1. /\ running = [enabled |-> running.enabled, tiers |-> running.tiers]
            /\ saved = [enabled |-> saved.enabled, tiers |-> saved.tiers]
        BY <2>2 DEF Configs
      <3> QED BY <2>1, <2>2, <3>1, LoadKeeps
    <2>4. ASSUME NEW age \in 0..MaxHours, NEW ownMax \in 0..MaxHours
          PROVE  LET n == WarmEffectiveMax(ownMax, CapForAge(running, age))
                     first == TiersOf(saved.tiers, age)
                 IN  /\ Within(n, ownMax)
                     /\ saved.enabled /\ first # {} => \E t \in first : Within(n, t.max)
                     /\ (~saved.enabled \/ first = {}) => n = ownMax
      <3> DEFINE cap == CapForAge(running, age)
                 n == WarmEffectiveMax(ownMax, cap)
                 first == TiersOf(saved.tiers, age)
      <3>1. age \in Nat /\ ownMax \in Nat
        BY CapsAssumption
      <3>2. /\ cap \in Int
            /\ ~saved.enabled \/ first = {} => cap = 0
            /\ saved.enabled /\ first # {} => \E t \in first : cap = t.max
        BY <2>2, <2>3, <3>1, CapOfAge
      <3> HIDE DEF cap, first
      <3>3. Within(n, ownMax) /\ Within(n, cap) /\ (cap = 0 => n = ownMax)
        BY <3>1, <3>2, LeastLimit
      <3> HIDE DEF n
      <3>4. /\ Within(n, ownMax)
            /\ saved.enabled /\ first # {} => \E t \in first : Within(n, t.max)
            /\ (~saved.enabled \/ first = {}) => n = ownMax
        BY <3>2, <3>3
      <3> QED BY <3>4 DEF n, first, cap
    <2> QED BY <2>3, <2>4
  <1> QED BY <1>1, CapsInvariant, PTL
-------------------------------------------------------------------------------
===============================================================================
