------------------------------ MODULE DrawProofs ------------------------------
(***************************************************************************)
(* Proofs about CommitteeDraw: whatever the tickets, the roster and the    *)
(* rule, the draw and its replacements seat the varied panel that          *)
(* JuryPanel promises.                                                     *)
(***************************************************************************)
EXTENDS CommitteeDraw, TLAPS, SequenceTheorems, FiniteSetTheorems

-----------------------------------------------------------------------------
(* Sequences and numbers                                                   *)

\* What JuryPanel calls by these names is the same here.
LEMMA SameWords ==
    /\ \A S : Panel!Cardinality(S) = Cardinality(S)
    /\ \A s, j : Panel!RemoveAt(s, j) = RemoveAt(s, j)
    /\ \A s : Panel!ToSet(s) = ToSet(s)
BY DEF Panel!Cardinality, Cardinality, Panel!RemoveAt, RemoveAt, Panel!ToSet, ToSet

\* A sequence without its j-th element.
LEMMA RemoveAtElements ==
    ASSUME NEW T, NEW s \in Seq(T), NEW j \in 1 .. Len(s)
    PROVE  /\ RemoveAt(s, j) \in Seq(T) /\ Len(RemoveAt(s, j)) = Len(s) - 1
           /\ \A k \in 1 .. Len(s) - 1 :
                RemoveAt(s, j)[k] = IF k < j THEN s[k] ELSE s[k + 1]
<1> DEFINE a == SubSeq(s, 1, j - 1)
           b == SubSeq(s, j + 1, Len(s))
<1>1. Len(s) \in Nat /\ \A k \in 1 .. Len(s) : s[k] \in T
  BY LenProperties
<1>2. /\ a \in Seq(T) /\ Len(a) = j - 1 /\ \A k \in 1 .. j - 1 : a[k] = s[k]
  BY <1>1
<1>3. /\ b \in Seq(T) /\ Len(b) = Len(s) - j
      /\ \A k \in 1 .. Len(s) - j : b[k] = s[j + k]
  BY <1>1
<1>4. RemoveAt(s, j) = a \o b
  BY DEF RemoveAt
<1> HIDE DEF a, b
<1>5. /\ a \o b \in Seq(T) /\ Len(a \o b) = Len(s) - 1
      /\ \A k \in 1 .. Len(s) - 1 : (a \o b)[k] = IF k <= j - 1 THEN a[k] ELSE b[k - (j - 1)]
  <2>1. Len(a) + Len(b) = Len(s) - 1
    BY <1>1, <1>2, <1>3
  <2>2. /\ a \o b \in Seq(T) /\ Len(a \o b) = Len(a) + Len(b)
        /\ \A k \in 1 .. Len(a) + Len(b) :
             (a \o b)[k] = IF k <= Len(a) THEN a[k] ELSE b[k - Len(a)]
    BY <1>2, <1>3, ConcatProperties
  <2> QED BY <1>2, <2>1, <2>2
<1>6. ASSUME NEW k \in 1 .. Len(s) - 1
      PROVE  (a \o b)[k] = IF k < j THEN s[k] ELSE s[k + 1]
  <2>1. CASE k < j
    BY <1>1, <1>2, <1>5, <2>1
  <2>2. CASE ~(k < j)
    <3>1. k - (j - 1) \in 1 .. Len(s) - j /\ j + (k - (j - 1)) = k + 1
      BY <1>1, <2>2
    <3> QED BY <1>1, <1>3, <1>5, <2>2, <3>1
  <2> QED BY <2>1, <2>2
<1> QED BY <1>4, <1>5, <1>6

\* As many values as places, if no two places have the same.
LEMMA DistinctValues ==
    ASSUME NEW n \in Nat, NEW s, DOMAIN s = 1 .. n,
           \A i, j \in 1 .. n : s[i] = s[j] => i = j
    PROVE  Cardinality({s[i] : i \in 1 .. n}) = n
<1> DEFINE V == {s[i] : i \in 1 .. n}
           f == [i \in 1 .. n |-> s[i]]
<1>1. f \in [1 .. n -> V] /\ (\A i, j \in 1 .. n : f[i] = f[j] => i = j)
      /\ \A v \in V : \E i \in 1 .. n : f[i] = v
  OBVIOUS
<1>2. f \in Bijection(1 .. n, V)
  <2> HIDE DEF f, V
  <2> QED BY <1>1 DEF Bijection, Injection, Surjection, IsInjective
<1>3. IsFiniteSet(1 .. n) /\ Cardinality(1 .. n) = n
  <2>1. 1 \in Int /\ n \in Int
    OBVIOUS
  <2> QED BY <2>1, FS_Interval
<1>4. ExistsBijection(1 .. n, V)
  <2> HIDE DEF f, V
  <2> QED BY <1>2 DEF ExistsBijection
<1> HIDE DEF V
<1> QED BY <1>3, <1>4, FS_Bijection DEF V

\* How often a value occurs among the first n of s.
Occurrences(s, v) == Cardinality({i \in DOMAIN s : s[i] = v})

\* One more element makes its value occur once more.
LEMMA OneMoreOccurrence ==
    ASSUME NEW n \in Nat, NEW s, DOMAIN s = 1 .. n, NEW t, DOMAIN t = 1 .. n + 1,
           \A i \in 1 .. n : t[i] = s[i], NEW v
    PROVE  /\ Occurrences(s, v) \in Nat
           /\ Occurrences(t, v) = Occurrences(s, v) + IF t[n + 1] = v THEN 1 ELSE 0
<1> DEFINE old == {i \in DOMAIN s : s[i] = v}
           new == {i \in DOMAIN t : t[i] = v}
<1>1. IsFiniteSet(old) /\ Cardinality(old) \in Nat
  <2>1. 1 \in Int /\ n \in Int
    OBVIOUS
  <2>2. IsFiniteSet(1 .. n)
    BY <2>1, FS_Interval
  <2>3. old \subseteq 1 .. n
    OBVIOUS
  <2> QED BY <2>2, <2>3, FS_Subset, FS_CardinalityType
<1>2. new = IF t[n + 1] = v THEN old \cup {n + 1} ELSE old
  OBVIOUS
<1>3. n + 1 \notin old
  OBVIOUS
<1> HIDE DEF old, new
<1>4. Cardinality(new) = Cardinality(old) + IF t[n + 1] = v THEN 1 ELSE 0
  <2>1. CASE t[n + 1] = v
    <3>1. Cardinality(old \cup {n + 1}) = Cardinality(old) + 1
      BY <1>1, <1>3, FS_AddElement
    <3> QED BY <1>2, <2>1, <3>1
  <2>2. CASE t[n + 1] # v
    BY <1>1, <1>2, <2>2
  <2> QED BY <2>1, <2>2
<1> QED BY <1>1, <1>4 DEF Occurrences, old, new

\* The counts of the draw are of this kind.
LEMMA CountsAreOccurrences ==
    ASSUME NEW s, NEW v
    PROVE  /\ CountModel(s, v) = Occurrences(Each(s, ModelNow), v)
           /\ CountRole(s, v) = Occurrences(Each(s, RoleNow), v)
BY DEF CountModel, CountRole, Occurrences, Each

\* A seat that is added counts for its own model and role only.
LEMMA CountsOfAppend ==
    ASSUME NEW s \in Seq(Profiles), NEW p \in Profiles, NEW v
    PROVE  /\ CountModel(s, v) \in Nat /\ CountRole(s, v) \in Nat
           /\ CountModel(Append(s, p), v)
                = CountModel(s, v) + IF ModelNow(p) = v THEN 1 ELSE 0
           /\ CountRole(Append(s, p), v)
                = CountRole(s, v) + IF RoleNow(p) = v THEN 1 ELSE 0
<1> DEFINE n == Len(s)
           t == Append(s, p)
<1>1. /\ n \in Nat /\ DOMAIN s = 1 .. n /\ DOMAIN t = 1 .. n + 1
      /\ \A i \in 1 .. n : t[i] = s[i]
      /\ t[n + 1] = p
  <2>1. t \in Seq(Profiles)
    BY AppendProperties
  <2> QED BY <2>1, AppendProperties, LenProperties
<1> HIDE DEF n, t
<1>2. /\ DOMAIN Each(s, ModelNow) = 1 .. n /\ DOMAIN Each(t, ModelNow) = 1 .. n + 1
      /\ \A i \in 1 .. n : Each(t, ModelNow)[i] = Each(s, ModelNow)[i]
      /\ Each(t, ModelNow)[n + 1] = ModelNow(p)
  BY <1>1 DEF Each
<1>3. /\ DOMAIN Each(s, RoleNow) = 1 .. n /\ DOMAIN Each(t, RoleNow) = 1 .. n + 1
      /\ \A i \in 1 .. n : Each(t, RoleNow)[i] = Each(s, RoleNow)[i]
      /\ Each(t, RoleNow)[n + 1] = RoleNow(p)
  BY <1>1 DEF Each
<1>4. PICK ms, mt, rs, rt : /\ ms = Each(s, ModelNow) /\ mt = Each(t, ModelNow)
                            /\ rs = Each(s, RoleNow) /\ rt = Each(t, RoleNow)
  OBVIOUS
<1>5. /\ Occurrences(ms, v) \in Nat
      /\ Occurrences(mt, v) = Occurrences(ms, v) + IF mt[n + 1] = v THEN 1 ELSE 0
  BY <1>1, <1>2, <1>4, OneMoreOccurrence
<1>6. /\ Occurrences(rs, v) \in Nat
      /\ Occurrences(rt, v) = Occurrences(rs, v) + IF rt[n + 1] = v THEN 1 ELSE 0
  BY <1>1, <1>3, <1>4, OneMoreOccurrence
<1> QED BY <1>2, <1>3, <1>4, <1>5, <1>6, CountsAreOccurrences DEF t

-----------------------------------------------------------------------------
(* The inductive invariant                                                 *)

AllOwners == {Owner[p] : p \in Profiles}
AllPayouts == {Payout[p] : p \in Profiles}
NewModels == {c[2] : c \in ManifestChanges}
NewRoles == {c[3] : c \in ManifestChanges}
FirstModels == UNION {{r[p].model : p \in Profiles} : r \in Rosters}
FirstRoles == UNION {{r[p].role : p \in Profiles} : r \in Rosters}
AllModels == FirstModels \cup NewModels
AllRoles == FirstRoles \cup NewRoles
Records == [model : AllModels, role : AllRoles, active : BOOLEAN]
Rules == [required : {2, 3}, perModel : {2, 3}]
Draws == [stage : {"NONE", "SEATS", "RESERVES", "ABORTED"}, selected : Seq(Profiles),
          reserves : Seq(Profiles), attempts : 0 .. MaxDraws,
          stalls : 0 .. RestartAfterStalls - 1]
Committees ==
    [profiles : Seq(Profiles), owners : Seq(AllOwners), models : Seq(AllModels),
     roles : Seq(AllRoles), payouts : Seq(AllPayouts),
     reserveProfiles : Seq(Profiles), reserveOwners : Seq(AllOwners),
     reserveModels : Seq(AllModels), reserveRoles : Seq(AllRoles),
     reservePayouts : Seq(AllPayouts), diversity : Rules]

\* The parallel vectors have one length for the seats and one for the reserves.
Parallel(c) ==
    /\ {Len(c.owners), Len(c.models), Len(c.roles), Len(c.payouts)} = {Len(c.profiles)}
    /\ {Len(c.reserveOwners), Len(c.reserveModels), Len(c.reserveRoles), Len(c.reservePayouts)}
          = {Len(c.reserveProfiles)}

\* The sets the variables take their values from.
Typed ==
    /\ roster \in [Profiles -> Records]
    /\ rule \in Rules
    /\ draw \in Draws
    /\ committee \in Committees /\ Parallel(committee)
    /\ declined \subseteq DOMAIN committee.profiles
    /\ changes \in 0 .. MaxChanges /\ declines \in 0 .. MaxDeclines

MayBeDrawn(p) == roster[p].active /\ ~AgentConflictsWithClaim(p)

\* What the seats of a draw have been checked for, one by one.
SeatsFit(selected) ==
    /\ Len(selected) <= CommitteeSize
    /\ \A i \in DOMAIN selected :
          /\ MayBeDrawn(selected[i])
          /\ CountModel(selected, ModelNow(selected[i])) <= rule.perModel
          /\ CountRole(selected, RoleNow(selected[i])) <= MaxPerRole
    /\ \A i, j \in DOMAIN selected : Owner[selected[i]] = Owner[selected[j]] => i = j

\* And its reserves.
ReservesFit(selected, reserves) ==
    /\ Len(reserves) <= ReserveCount
    /\ \A j \in DOMAIN reserves :
          /\ MayBeDrawn(reserves[j])
          /\ RoleNow(reserves[j]) \in {Skeptic, Source}
          /\ \A i \in DOMAIN selected : Owner[selected[i]] # Owner[reserves[j]]
    /\ \A j, k \in DOMAIN reserves :
          \/ Owner[reserves[j]] = Owner[reserves[k]]
          \/ RoleNow(reserves[j]) = RoleNow(reserves[k])
          => j = k

\* While a draw runs nothing else moves, so what was checked stays true.
DrawIsSound ==
    /\ draw.stage \in {"SEATS", "RESERVES"} =>
          committee = NoCommittee /\ SeatsFit(draw.selected)
    /\ draw.stage = "SEATS" => draw.reserves = <<>>
    /\ draw.stage = "RESERVES" =>
          SelectedDiversityValid(draw.selected) /\ ReservesFit(draw.selected, draw.reserves)

\* Seats and reserves sign with different keys, so any reserve may take any seat.
KeysDiffer(c) ==
    /\ \A i, j \in DOMAIN c.owners : c.owners[i] = c.owners[j] => i = j
    /\ \A i, j \in DOMAIN c.reserveOwners : c.reserveOwners[i] = c.reserveOwners[j] => i = j
    /\ \A i \in DOMAIN c.owners, j \in DOMAIN c.reserveOwners : c.owners[i] # c.reserveOwners[j]

DrawInv ==
    /\ Typed
    /\ DrawIsSound
    /\ committee = NoCommittee \/ (Len(committee.profiles) = CommitteeSize /\ KeysDiffer(committee))

-----------------------------------------------------------------------------
(* One ticket                                                              *)

\* A sequence that is typed.
LEMMA SequenceFacts ==
    ASSUME NEW T, NEW s \in Seq(T)
    PROVE  /\ Len(s) \in Nat /\ DOMAIN s = 1 .. Len(s) /\ \A i \in DOMAIN s : s[i] \in T
BY LenProperties

\* A seat that fits is added.
LEMMA SeatsFitAppend ==
    ASSUME NEW s \in Seq(Profiles), NEW p \in Profiles, rule \in Rules, SeatsFit(s),
           Len(s) < CommitteeSize, ~AgentConflictsWithClaim(p), CanAddSelected(s, p)
    PROVE  SeatsFit(Append(s, p))
<1> DEFINE n == Len(s)
           t == Append(s, p)
<1>1. /\ t \in Seq(Profiles) /\ n \in Nat /\ DOMAIN s = 1 .. n /\ DOMAIN t = 1 .. n + 1
      /\ Len(t) = n + 1 /\ (\A i \in 1 .. n : t[i] = s[i] /\ s[i] \in Profiles) /\ t[n + 1] = p
  <2>1. t \in Seq(Profiles)
    BY AppendProperties
  <2> QED BY <2>1, AppendProperties, SequenceFacts
<1>2. /\ roster[p].active /\ CountModel(s, ModelNow(p)) < rule.perModel
      /\ CountRole(s, RoleNow(p)) < MaxPerRole
      /\ \A i \in 1 .. n : Owner[s[i]] # Owner[p]
  BY <1>1 DEF CanAddSelected, ValuesOf, OwnerNow
<1>3. rule.perModel \in Nat /\ MaxPerRole \in Nat /\ CommitteeSize \in Nat
  BY SizesAssumption DEF Rules
<1>4. \A v : /\ CountModel(s, v) \in Nat /\ CountRole(s, v) \in Nat
             /\ CountModel(t, v) = CountModel(s, v) + IF ModelNow(p) = v THEN 1 ELSE 0
             /\ CountRole(t, v) = CountRole(s, v) + IF RoleNow(p) = v THEN 1 ELSE 0
  BY CountsOfAppend
<1> HIDE DEF t, n
<1>5. ASSUME NEW i \in DOMAIN t
      PROVE  /\ MayBeDrawn(t[i]) /\ CountModel(t, ModelNow(t[i])) <= rule.perModel
             /\ CountRole(t, RoleNow(t[i])) <= MaxPerRole
  <2>1. CASE i = n + 1
    <3>1. t[i] = p /\ MayBeDrawn(t[i])
      BY <1>1, <1>2, <2>1 DEF MayBeDrawn
    <3> QED BY <1>2, <1>3, <1>4, <3>1
  <2>2. CASE i \in 1 .. n
    <3>1. t[i] = s[i] /\ MayBeDrawn(t[i])
          /\ CountModel(s, ModelNow(t[i])) <= rule.perModel
          /\ CountRole(s, RoleNow(t[i])) <= MaxPerRole
      BY <1>1, <2>2 DEF SeatsFit
    <3>2. CountModel(t, ModelNow(t[i])) <= rule.perModel
      <4>1. CASE ModelNow(p) = ModelNow(t[i])
        BY <1>2, <1>3, <1>4, <4>1
      <4>2. CASE ModelNow(p) # ModelNow(t[i])
        BY <1>3, <1>4, <3>1, <4>2
      <4> QED BY <4>1, <4>2
    <3>3. CountRole(t, RoleNow(t[i])) <= MaxPerRole
      <4>1. CASE RoleNow(p) = RoleNow(t[i])
        BY <1>2, <1>3, <1>4, <4>1
      <4>2. CASE RoleNow(p) # RoleNow(t[i])
        BY <1>3, <1>4, <3>1, <4>2
      <4> QED BY <4>1, <4>2
    <3> QED BY <3>1, <3>2, <3>3
  <2> QED BY <1>1, <2>1, <2>2
<1>6. \A i, j \in DOMAIN t : Owner[t[i]] = Owner[t[j]] => i = j
  BY <1>1, <1>2 DEF SeatsFit
<1>7. Len(t) <= CommitteeSize
  BY <1>1, <1>3 DEF n
<1> QED BY <1>5, <1>6, <1>7 DEF SeatsFit, t

\* A reserve that fits is added.
LEMMA ReservesFitAppend ==
    ASSUME NEW s \in Seq(Profiles), NEW r \in Seq(Profiles), NEW p \in Profiles,
           ReservesFit(s, r), Len(r) < ReserveCount,
           ~AgentConflictsWithClaim(p), CanAddReserve(s, r, p)
    PROVE  ReservesFit(s, Append(r, p))
<1> DEFINE n == Len(r)
           t == Append(r, p)
<1>1. /\ t \in Seq(Profiles) /\ n \in Nat /\ DOMAIN r = 1 .. n /\ DOMAIN t = 1 .. n + 1
      /\ Len(t) = n + 1 /\ (\A i \in 1 .. n : t[i] = r[i] /\ r[i] \in Profiles) /\ t[n + 1] = p
  <2>1. t \in Seq(Profiles)
    BY AppendProperties
  <2> QED BY <2>1, AppendProperties, SequenceFacts
<1>2. roster[p].active /\ RoleNow(p) \in {Skeptic, Source}
  BY DEF CanAddReserve
<1>3. /\ \A i \in DOMAIN s : Owner[s[i]] # Owner[p]
      /\ \A j \in DOMAIN r : Owner[r[j]] # Owner[p]
  <2>1. /\ s \o r \in Seq(Profiles) /\ Len(s \o r) = Len(s) + Len(r)
        /\ \A i \in 1 .. Len(s) + Len(r) :
             (s \o r)[i] = IF i <= Len(s) THEN s[i] ELSE r[i - Len(s)]
    BY ConcatProperties
  <2>2. DOMAIN (s \o r) = 1 .. Len(s) + Len(r) /\ Len(s) \in Nat /\ Len(r) \in Nat
        /\ DOMAIN s = 1 .. Len(s) /\ DOMAIN r = 1 .. Len(r)
    BY <2>1, SequenceFacts
  <2>3. \A i \in DOMAIN (s \o r) : Owner[(s \o r)[i]] # Owner[p]
    BY DEF CanAddReserve, ValuesOf, OwnerNow
  <2>4. ASSUME NEW i \in DOMAIN s PROVE Owner[s[i]] # Owner[p]
    <3>1. i \in 1 .. Len(s) + Len(r) /\ (s \o r)[i] = s[i]
      BY <2>1, <2>2
    <3> QED BY <2>2, <2>3, <3>1
  <2>5. ASSUME NEW j \in DOMAIN r PROVE Owner[r[j]] # Owner[p]
    <3>1. Len(s) + j \in 1 .. Len(s) + Len(r) /\ ~(Len(s) + j <= Len(s)) /\ Len(s) + j - Len(s) = j
      BY <2>2
    <3>2. (s \o r)[Len(s) + j] = r[j]
      BY <2>1, <3>1
    <3> QED BY <2>2, <2>3, <3>1, <3>2
  <2> QED BY <2>4, <2>5
<1>4. \A j \in DOMAIN r : RoleNow(r[j]) # RoleNow(p)
  <2> DEFINE same == {j \in DOMAIN r : RoleNow(r[j]) = RoleNow(p)}
  <2>1. IsFiniteSet(same)
    <3>1. 1 \in Int /\ n \in Int
      BY <1>1
    <3> QED BY <1>1, <3>1, FS_Interval, FS_Subset
  <2>2. Cardinality(same) = 0
    BY DEF CanAddReserve, CountRole
  <2>3. same = {}
    <3> HIDE DEF same
    <3> QED BY <2>1, <2>2, FS_EmptySet
  <2> QED BY <2>3
<1> HIDE DEF t, n
<1>5. ASSUME NEW j \in DOMAIN t
      PROVE  /\ MayBeDrawn(t[j]) /\ RoleNow(t[j]) \in {Skeptic, Source}
             /\ \A i \in DOMAIN s : Owner[s[i]] # Owner[t[j]]
  BY <1>1, <1>2, <1>3 DEF ReservesFit, MayBeDrawn
<1>6. ASSUME NEW j \in DOMAIN t, NEW k \in DOMAIN t,
             Owner[t[j]] = Owner[t[k]] \/ RoleNow(t[j]) = RoleNow(t[k])
      PROVE  j = k
  <2>1. CASE j \in 1 .. n /\ k \in 1 .. n
    BY <1>1, <1>6, <2>1 DEF ReservesFit
  <2>2. CASE j = n + 1 /\ k \in 1 .. n
    BY <1>1, <1>3, <1>4, <1>6, <2>2
  <2>3. CASE j \in 1 .. n /\ k = n + 1
    BY <1>1, <1>3, <1>4, <1>6, <2>3
  <2> QED BY <1>1, <2>1, <2>2, <2>3
<1>7. Len(t) <= ReserveCount
  BY <1>1, SizesAssumption DEF n
<1> QED BY <1>5, <1>6, <1>7 DEF ReservesFit, t

\* Nobody drawn yet.
LEMMA NobodyFits ==
    /\ <<>> \in Seq(Profiles)
    /\ SeatsFit(<<>>)
    /\ \A s : ReservesFit(s, <<>>)
BY SizesAssumption DEF SeatsFit, ReservesFit

-----------------------------------------------------------------------------
(* Steps of the registry and of the draw                                   *)

\* The empty committee is one.
LEMMA NoCommitteeTyped == NoCommittee \in Committees /\ Parallel(NoCommittee)
                          /\ DOMAIN NoCommittee.profiles = {}
BY DEF NoCommittee, Committees, Rules, DefaultDiversity, Parallel

\* No draw is one that has not begun.
LEMMA NoDrawTyped == NoDraw \in Draws /\ NoDraw.stage = "NONE"
                     /\ NoDraw.selected = <<>> /\ NoDraw.reserves = <<>>
BY SizesAssumption DEF NoDraw, Draws

\* Every roster to start from has records of known models and roles.
LEMMA RostersTyped == Rosters \subseteq [Profiles -> Records]
<1> SUFFICES ASSUME NEW r \in Rosters PROVE r \in [Profiles -> Records]
  OBVIOUS
<1>1. r \in [Profiles -> [model : {r[p].model : p \in Profiles},
                          role : {r[p].role : p \in Profiles}, active : BOOLEAN]]
  BY RostersAssumption
<1>2. {r[p].model : p \in Profiles} \subseteq AllModels
  BY DEF AllModels, FirstModels
<1>3. {r[p].role : p \in Profiles} \subseteq AllRoles
  BY DEF AllRoles, FirstRoles
<1> QED BY <1>1, <1>2, <1>3 DEF Records

\* Before the first call.
LEMMA DrawInit == Init => DrawInv
<1> SUFFICES ASSUME Init PROVE DrawInv
  OBVIOUS
<1>1. Typed
  BY NoCommitteeTyped, NoDrawTyped, RostersTyped, SizesAssumption
     DEF Init, Typed, Rules, DefaultDiversity
<1>2. DrawIsSound
  BY NoDrawTyped DEF Init, DrawIsSound
<1> QED BY <1>1, <1>2 DEF Init, DrawInv

\* The registry only changes while no draw runs.
LEMMA ChangeSafe ==
    ASSUME DrawInv, Change, roster' \in [Profiles -> Records], rule' \in Rules
    PROVE  DrawInv'
<1>1. Typed'
  BY SizesAssumption DEF DrawInv, Typed, Change, Parallel
<1>2. DrawIsSound'
  BY DEF Change, Resting, DrawIsSound
<1> QED BY <1>1, <1>2 DEF DrawInv, Change, KeysDiffer

\* The diversity rule has one of the values it may be set to.
LEMMA SetJuryDiversitySafe ==
    ASSUME DrawInv, NEW required, NEW perModel, SetJuryDiversity(required, perModel)
    PROVE  DrawInv'
BY ChangeSafe DEF SetJuryDiversity, DrawInv, Typed, Rules

\* A new manifest has a model and a role that an operator may switch to.
LEMMA UpdateAgentManifestSafe ==
    ASSUME DrawInv, NEW c \in ManifestChanges, UpdateAgentManifest(c[1], c[2], c[3])
    PROVE  DrawInv'
<1> DEFINE p == c[1]
           record == [roster[p] EXCEPT !.model = c[2], !.role = c[3]]
<1>1. p \in Profiles /\ roster \in [Profiles -> Records] /\ rule \in Rules
  BY RostersAssumption DEF DrawInv, Typed
<1>2. c[2] \in AllModels /\ c[3] \in AllRoles
  <2>1. c[2] \in NewModels /\ c[3] \in NewRoles
    BY DEF NewModels, NewRoles
  <2> QED BY <2>1 DEF AllModels, AllRoles
<1>3. record \in Records
  BY <1>1, <1>2 DEF Records
<1>4. roster' = [roster EXCEPT ![p] = record]
  BY DEF UpdateAgentManifest
<1> HIDE DEF record
<1>5. roster' \in [Profiles -> Records]
  BY <1>1, <1>3, <1>4
<1> QED BY <1>1, <1>5, ChangeSafe DEF UpdateAgentManifest

\* A record is deactivated.
LEMMA DeprecateAgentSafe ==
    ASSUME DrawInv, NEW p \in Profiles, DeprecateAgent(p)
    PROVE  DrawInv'
<1>1. roster \in [Profiles -> Records] /\ rule \in Rules
  BY DEF DrawInv, Typed
<1>2. [roster[p] EXCEPT !.active = FALSE] \in Records
  BY <1>1 DEF Records
<1>3. roster' \in [Profiles -> Records]
  BY <1>1, <1>2 DEF DeprecateAgent
<1> QED BY <1>1, <1>3, ChangeSafe DEF DeprecateAgent

\* A step of the draw itself.
LEMMA DrawMoves ==
    ASSUME DrawInv, draw' \in Draws, roster' = roster, rule' = rule, committee' = committee,
           declined' = declined, changes' = changes, declines' = declines, DrawIsSound'
    PROVE  DrawInv'
<1>1. Typed'
  BY DEF DrawInv, Typed, Parallel
<1> QED BY <1>1 DEF DrawInv, KeysDiffer

\* A draw starts with nobody.
LEMMA StartDrawSafe == ASSUME DrawInv, StartDraw PROVE DrawInv'
<1>1. PICK d \in Draws : d = NoDraw
  BY NoDrawTyped
<1>2. draw' = [d EXCEPT !.stage = "SEATS"]
  BY <1>1 DEF StartDraw
<1>3. /\ draw' \in Draws /\ draw'.stage = "SEATS" /\ draw'.selected = <<>>
      /\ draw'.reserves = <<>>
  BY <1>1, <1>2, NoDrawTyped DEF Draws
<1>4. DrawIsSound'
  BY <1>3, NobodyFits DEF DrawIsSound, SeatsFit, StartDraw
<1> QED BY <1>3, <1>4, DrawMoves DEF StartDraw

\* The draw after one ticket.
LEMMA TicketFields ==
    ASSUME Typed, draw.attempts < MaxDraws, NEW p \in Profiles
    PROVE  /\ Accepted("selected", p) \in Draws /\ Stalled("selected") \in Draws
           /\ Accepted("reserves", p) \in Draws /\ Stalled("reserves") \in Draws
           /\ \A field \in {"selected", "reserves"} :
                 Accepted(field, p).stage = draw.stage /\ Stalled(field).stage = draw.stage
           /\ Accepted("selected", p).selected = Append(draw.selected, p)
           /\ Accepted("selected", p).reserves = draw.reserves
           /\ Accepted("reserves", p).selected = draw.selected
           /\ Accepted("reserves", p).reserves = Append(draw.reserves, p)
           /\ Stalled("selected").selected \in {draw.selected, <<>>}
           /\ Stalled("selected").reserves = draw.reserves
           /\ Stalled("reserves").selected = draw.selected
           /\ Stalled("reserves").reserves \in {draw.reserves, <<>>}
<1>1. /\ draw \in Draws /\ draw.selected \in Seq(Profiles) /\ draw.reserves \in Seq(Profiles)
      /\ draw.attempts + 1 \in 0 .. MaxDraws /\ 0 \in 0 .. RestartAfterStalls - 1
      /\ draw.stalls + 1 # RestartAfterStalls => draw.stalls + 1 \in 0 .. RestartAfterStalls - 1
  BY SizesAssumption DEF Typed, Draws
<1>2. Append(draw.selected, p) \in Seq(Profiles) /\ Append(draw.reserves, p) \in Seq(Profiles)
      /\ <<>> \in Seq(Profiles)
  BY <1>1, AppendProperties, NobodyFits
<1>3. PICK picked, kept : picked = Append(draw.selected, p) /\ kept = Append(draw.reserves, p)
  OBVIOUS
<1>4. Accepted("selected", p) = [draw EXCEPT !.selected = picked, !.stalls = 0,
                                             !.attempts = draw.attempts + 1]
      /\ Accepted("reserves", p) = [draw EXCEPT !.reserves = kept, !.stalls = 0,
                                                !.attempts = draw.attempts + 1]
  BY <1>3 DEF Accepted
<1>5. /\ Accepted("selected", p) \in Draws /\ Accepted("reserves", p) \in Draws
      /\ Accepted("selected", p).stage = draw.stage /\ Accepted("reserves", p).stage = draw.stage
      /\ Accepted("selected", p).selected = picked
      /\ Accepted("selected", p).reserves = draw.reserves
      /\ Accepted("reserves", p).selected = draw.selected
      /\ Accepted("reserves", p).reserves = kept
  BY <1>1, <1>2, <1>3, <1>4 DEF Draws
<1>6. CASE draw.stalls + 1 = RestartAfterStalls
  <2>1. /\ Stalled("selected") = [draw EXCEPT !.selected = <<>>, !.stalls = 0,
                                              !.attempts = draw.attempts + 1]
        /\ Stalled("reserves") = [draw EXCEPT !.reserves = <<>>, !.stalls = 0,
                                              !.attempts = draw.attempts + 1]
    BY <1>6 DEF Stalled
  <2> QED BY <1>1, <1>2, <1>3, <1>5, <2>1 DEF Draws
<1>7. CASE draw.stalls + 1 # RestartAfterStalls
  <2>1. \A field \in {"selected", "reserves"} :
           Stalled(field) = [draw EXCEPT !.stalls = draw.stalls + 1,
                                         !.attempts = draw.attempts + 1]
    BY <1>7 DEF Stalled
  <2> QED BY <1>1, <1>3, <1>5, <1>7, <2>1 DEF Draws
<1> QED BY <1>6, <1>7
\* A ticket for a seat.
LEMMA DrawSeatSafe == ASSUME DrawInv, NEW p \in Profiles, DrawSeat(p) PROVE DrawInv'
<1>1. /\ Typed /\ rule \in Rules /\ draw.selected \in Seq(Profiles) /\ draw.reserves = <<>>
      /\ draw.stage = "SEATS" /\ committee = NoCommittee /\ SeatsFit(draw.selected)
  BY DEF DrawInv, Typed, DrawIsSound, DrawSeat, Draws
<1>2. \/ /\ ~AgentConflictsWithClaim(p) /\ CanAddSelected(draw.selected, p)
         /\ draw' = Accepted("selected", p)
      \/ draw' = Stalled("selected")
  BY DEF DrawSeat
<1>3. SeatsFit(draw'.selected)
  <2>1. CASE /\ ~AgentConflictsWithClaim(p) /\ CanAddSelected(draw.selected, p)
             /\ draw' = Accepted("selected", p)
    BY <1>1, <2>1, SeatsFitAppend, TicketFields DEF DrawSeat
  <2>2. CASE draw' = Stalled("selected")
    BY <1>1, <2>2, NobodyFits, TicketFields DEF DrawSeat
  <2> QED BY <1>2, <2>1, <2>2
<1>4. draw' \in Draws /\ draw'.stage = "SEATS" /\ draw'.reserves = <<>>
  BY <1>1, <1>2, TicketFields DEF DrawSeat
<1>5. roster' = roster /\ rule' = rule
  BY DEF DrawSeat
<1>6. SeatsFit(draw.selected)'
  BY <1>3, <1>5 DEF SeatsFit, MayBeDrawn, CountModel, CountRole, ModelNow, RoleNow
<1>7. DrawIsSound'
  BY <1>1, <1>4, <1>6 DEF DrawIsSound, DrawSeat
<1> QED BY <1>4, <1>7, DrawMoves DEF DrawSeat

\* A ticket for a reserve.
LEMMA DrawReserveSafe == ASSUME DrawInv, NEW p \in Profiles, DrawReserve(p) PROVE DrawInv'
<1>1. /\ Typed /\ draw.selected \in Seq(Profiles) /\ draw.reserves \in Seq(Profiles)
      /\ draw.stage = "RESERVES" /\ committee = NoCommittee /\ SeatsFit(draw.selected)
      /\ SelectedDiversityValid(draw.selected) /\ ReservesFit(draw.selected, draw.reserves)
  BY DEF DrawInv, Typed, DrawIsSound, DrawReserve, Draws
<1>2. \/ /\ ~AgentConflictsWithClaim(p) /\ CanAddReserve(draw.selected, draw.reserves, p)
         /\ draw' = Accepted("reserves", p)
      \/ draw' = Stalled("reserves")
  BY DEF DrawReserve
<1>3. ReservesFit(draw.selected, draw'.reserves)
  <2>1. CASE /\ ~AgentConflictsWithClaim(p) /\ CanAddReserve(draw.selected, draw.reserves, p)
             /\ draw' = Accepted("reserves", p)
    BY <1>1, <2>1, ReservesFitAppend, TicketFields DEF DrawReserve
  <2>2. CASE draw' = Stalled("reserves")
    BY <1>1, <2>2, NobodyFits, TicketFields DEF DrawReserve
  <2> QED BY <1>2, <2>1, <2>2
<1>4. draw' \in Draws /\ draw'.stage = "RESERVES" /\ draw'.selected = draw.selected
  BY <1>1, <1>2, TicketFields DEF DrawReserve
<1>5. roster' = roster /\ rule' = rule
  BY DEF DrawReserve
<1>6. SeatsFit(draw.selected)'
  <2>1. SeatsFit(draw'.selected)
    BY <1>1, <1>4
  <2> QED BY <1>5, <2>1 DEF SeatsFit, MayBeDrawn, CountModel, CountRole, ModelNow, RoleNow
<1>7. SelectedDiversityValid(draw.selected)'
  BY <1>1, <1>4, <1>5 DEF SelectedDiversityValid, ValuesOf, ModelNow, RoleNow
<1>8. ReservesFit(draw.selected, draw.reserves)'
  BY <1>3, <1>4, <1>5 DEF ReservesFit, MayBeDrawn, RoleNow
<1>9. DrawIsSound'
  BY <1>1, <1>4, <1>6, <1>7, <1>8 DEF DrawIsSound, DrawReserve
<1> QED BY <1>4, <1>9, DrawMoves DEF DrawReserve

\* The draw is given up.
LEMMA AbortSafe ==
    ASSUME DrawInv, Abort, roster' = roster, rule' = rule, committee' = committee,
           declined' = declined, changes' = changes, declines' = declines
    PROVE  DrawInv'
<1>1. draw \in Draws
  BY DEF DrawInv, Typed
<1>2. draw' \in Draws /\ draw'.stage = "ABORTED"
  BY <1>1 DEF Abort, Draws
<1> QED BY <1>2, DrawMoves DEF DrawIsSound

\* The seats are drawn, and the reserves are next.
LEMMA CloseSeatsSafe == ASSUME DrawInv, CloseSeats PROVE DrawInv'
<1>1. CASE Abort
  BY <1>1, AbortSafe DEF CloseSeats
<1>2. CASE /\ SelectedDiversityValid(draw.selected)
           /\ draw' = [draw EXCEPT !.stage = "RESERVES", !.stalls = 0]
  <2>1. /\ draw \in Draws /\ draw.stage = "SEATS" /\ draw.reserves = <<>>
        /\ committee = NoCommittee /\ SeatsFit(draw.selected) /\ 0 \in 0 .. RestartAfterStalls - 1
    BY SizesAssumption DEF DrawInv, Typed, DrawIsSound, CloseSeats
  <2>2. /\ draw' \in Draws /\ draw'.stage = "RESERVES" /\ draw'.selected = draw.selected
        /\ draw'.reserves = draw.reserves
    BY <1>2, <2>1 DEF Draws
  <2>3. roster' = roster /\ rule' = rule
    BY DEF CloseSeats
  <2>4. SeatsFit(draw.selected)'
    <3>1. SeatsFit(draw'.selected)
      BY <2>1, <2>2
    <3> QED BY <2>3, <3>1 DEF SeatsFit, MayBeDrawn, CountModel, CountRole, ModelNow, RoleNow
  <2>5. SelectedDiversityValid(draw.selected)'
    BY <1>2, <2>2, <2>3 DEF SelectedDiversityValid, ValuesOf, ModelNow, RoleNow
  <2>6. ReservesFit(draw.selected, draw.reserves)'
    BY <2>1, <2>2, SizesAssumption DEF ReservesFit
  <2>7. DrawIsSound'
    BY <2>1, <2>2, <2>4, <2>5, <2>6 DEF DrawIsSound, CloseSeats
  <2> QED BY <2>2, <2>7, DrawMoves DEF CloseSeats
<1> QED BY <1>1, <1>2 DEF CloseSeats
\* The vectors read off a list of profiles.
LEMMA EachTyped ==
    ASSUME NEW s \in Seq(Profiles), roster \in [Profiles -> Records]
    PROVE  /\ Each(s, OwnerNow) \in Seq(AllOwners) /\ Each(s, ModelNow) \in Seq(AllModels)
           /\ Each(s, RoleNow) \in Seq(AllRoles) /\ Each(s, PayoutNow) \in Seq(AllPayouts)
           /\ Len(Each(s, OwnerNow)) = Len(s) /\ Len(Each(s, ModelNow)) = Len(s)
           /\ Len(Each(s, RoleNow)) = Len(s) /\ Len(Each(s, PayoutNow)) = Len(s)
<1>1. Len(s) \in Nat /\ DOMAIN s = 1 .. Len(s) /\ \A i \in DOMAIN s : s[i] \in Profiles
  BY SequenceFacts
<1>2. \A p \in Profiles : /\ OwnerNow(p) \in AllOwners /\ PayoutNow(p) \in AllPayouts
                          /\ ModelNow(p) \in AllModels /\ RoleNow(p) \in AllRoles
  BY DEF OwnerNow, PayoutNow, ModelNow, RoleNow, AllOwners, AllPayouts, Records
<1>3. PICK n \in Nat : n = Len(s)
  BY <1>1
<1>4. ASSUME NEW T, NEW f \in [1 .. n -> T]
      PROVE  f \in Seq(T) /\ Len(f) = n
  OBVIOUS
<1>5. /\ Each(s, OwnerNow) \in [1 .. n -> AllOwners] /\ Each(s, ModelNow) \in [1 .. n -> AllModels]
      /\ Each(s, RoleNow) \in [1 .. n -> AllRoles] /\ Each(s, PayoutNow) \in [1 .. n -> AllPayouts]
  BY <1>1, <1>2, <1>3 DEF Each
<1> QED BY <1>3, <1>4, <1>5

\* The committee that a finished draw creates.
LEMMA FirstRound ==
    ASSUME NEW s \in Seq(Profiles), NEW r \in Seq(Profiles), roster \in [Profiles -> Records],
           rule \in Rules, SeatsFit(s), ReservesFit(s, r)
    PROVE  /\ CreateFirstRound(s, r) \in Committees /\ Parallel(CreateFirstRound(s, r))
           /\ KeysDiffer(CreateFirstRound(s, r))
<1> DEFINE c == CreateFirstRound(s, r)
<1>1. c \in Committees /\ Parallel(c)
  <2>1. /\ c.profiles = s /\ c.owners = Each(s, OwnerNow) /\ c.models = Each(s, ModelNow)
        /\ c.roles = Each(s, RoleNow) /\ c.payouts = Each(s, PayoutNow)
        /\ c.reserveProfiles = r /\ c.reserveOwners = Each(r, OwnerNow)
        /\ c.reserveModels = Each(r, ModelNow) /\ c.reserveRoles = Each(r, RoleNow)
        /\ c.reservePayouts = Each(r, PayoutNow)
    BY DEF CreateFirstRound
  <2>2. Parallel(c)
    <3> HIDE DEF c
    <3> QED BY <2>1, EachTyped DEF Parallel
  <2>3. c \in Committees
    <3>1. /\ Each(s, OwnerNow) \in Seq(AllOwners) /\ Each(s, ModelNow) \in Seq(AllModels)
          /\ Each(s, RoleNow) \in Seq(AllRoles) /\ Each(s, PayoutNow) \in Seq(AllPayouts)
          /\ Each(r, OwnerNow) \in Seq(AllOwners) /\ Each(r, ModelNow) \in Seq(AllModels)
          /\ Each(r, RoleNow) \in Seq(AllRoles) /\ Each(r, PayoutNow) \in Seq(AllPayouts)
      BY EachTyped
    <3> QED BY <3>1 DEF CreateFirstRound, Committees
  <2> QED BY <2>2, <2>3
<1>2. /\ c.owners = [i \in DOMAIN s |-> Owner[s[i]]]
      /\ c.reserveOwners = [j \in DOMAIN r |-> Owner[r[j]]]
  BY DEF CreateFirstRound, Each, OwnerNow
<1> HIDE DEF c
<1>3. KeysDiffer(c)
  BY <1>2 DEF KeysDiffer, SeatsFit, ReservesFit
<1> QED BY <1>1, <1>3 DEF c

\* The draw is finished, or given up.
LEMMA CloseReservesSafe == ASSUME DrawInv, CloseReserves PROVE DrawInv'
<1>1. CASE Abort /\ committee' = committee
  BY <1>1, AbortSafe DEF CloseReserves
<1>2. CASE committee' = CreateFirstRound(draw.selected, draw.reserves) /\ draw' = NoDraw
  <2>1. /\ roster \in [Profiles -> Records] /\ rule \in Rules
        /\ draw.selected \in Seq(Profiles) /\ draw.reserves \in Seq(Profiles)
        /\ committee = NoCommittee /\ SeatsFit(draw.selected)
        /\ SelectedDiversityValid(draw.selected) /\ ReservesFit(draw.selected, draw.reserves)
        /\ declined = {} /\ changes \in 0 .. MaxChanges /\ declines \in 0 .. MaxDeclines
    BY NoCommitteeTyped DEF DrawInv, Typed, DrawIsSound, CloseReserves, Draws
  <2>2. PICK s, r : s = draw.selected /\ r = draw.reserves
    OBVIOUS
  <2>3. /\ committee' = CreateFirstRound(s, r) /\ committee'.profiles = s
        /\ s \in Seq(Profiles) /\ r \in Seq(Profiles) /\ SeatsFit(s) /\ ReservesFit(s, r)
    BY <1>2, <2>1, <2>2 DEF CreateFirstRound
  <2>4. committee' \in Committees /\ Parallel(committee') /\ KeysDiffer(committee')
    BY <2>1, <2>3, FirstRound
  <2>5. Len(committee'.profiles) = CommitteeSize
    BY <2>1, <2>2, <2>3 DEF SelectedDiversityValid
  <2>6. UNCHANGED <<roster, rule, declined, changes, declines>>
    BY DEF CloseReserves
  <2>7. Typed'
    BY <1>2, <2>1, <2>4, <2>6, NoDrawTyped DEF Typed, Parallel
  <2>8. DrawIsSound'
    BY <1>2, NoDrawTyped DEF DrawIsSound
  <2> QED BY <2>4, <2>5, <2>7, <2>8 DEF DrawInv, KeysDiffer
<1> QED BY <1>1, <1>2 DEF CloseReserves

\* What was checked stands while nothing moves that it is about.
LEMMA DrawStands ==
    ASSUME DrawIsSound, draw' = draw, roster' = roster, rule' = rule,
           draw.stage \in {"SEATS", "RESERVES"} => committee' = committee
    PROVE  DrawIsSound'
<1>1. SeatsFit(draw.selected) => SeatsFit(draw.selected)'
  BY DEF SeatsFit, MayBeDrawn, CountModel, CountRole, ModelNow, RoleNow
<1>2. SelectedDiversityValid(draw.selected) => SelectedDiversityValid(draw.selected)'
  BY DEF SelectedDiversityValid, ModelNow, RoleNow, ValuesOf
<1>3. ReservesFit(draw.selected, draw.reserves) => ReservesFit(draw.selected, draw.reserves)'
  BY DEF ReservesFit, MayBeDrawn, RoleNow
<1> QED BY <1>1, <1>2, <1>3 DEF DrawIsSound

\* A seat is declined.
LEMMA DeclineJurySeatSafe == ASSUME DrawInv, NEW i, DeclineJurySeat(i) PROVE DrawInv'
<1>1. Typed'
  BY SizesAssumption DEF DrawInv, Typed, DeclineJurySeat, Parallel
<1>2. DrawIsSound'
  BY DrawStands DEF DrawInv, DeclineJurySeat
<1> QED BY <1>1, <1>2 DEF DrawInv, DeclineJurySeat, KeysDiffer

\* A function with one value changed, inside a sequence.
LEMMA OneChanged ==
    ASSUME NEW T, NEW s \in Seq(T), NEW i \in DOMAIN s, NEW v \in T
    PROVE  /\ [s EXCEPT ![i] = v] \in Seq(T) /\ Len([s EXCEPT ![i] = v]) = Len(s)
           /\ DOMAIN [s EXCEPT ![i] = v] = DOMAIN s
BY SequenceFacts

\* The committee after a reserve has taken a seat, vector by vector.
LEMMA TakenFields ==
    ASSUME Typed, NEW i \in DOMAIN committee.profiles, NEW j \in DOMAIN committee.reserveProfiles
    PROVE  LET c == TakenByReserve(i, j)
           IN  /\ c \in Committees /\ Parallel(c) /\ Len(c.profiles) = Len(committee.profiles)
               /\ c.profiles = [committee.profiles EXCEPT ![i] = committee.reserveProfiles[j]]
               /\ c.owners = [committee.owners EXCEPT ![i] = committee.reserveOwners[j]]
               /\ c.models = [committee.models EXCEPT ![i] = committee.reserveModels[j]]
               /\ c.roles = [committee.roles EXCEPT ![i] = committee.reserveRoles[j]]
               /\ c.payouts = [committee.payouts EXCEPT ![i] = committee.reservePayouts[j]]
               /\ c.reserveProfiles = RemoveAt(committee.reserveProfiles, j)
               /\ c.reserveOwners = RemoveAt(committee.reserveOwners, j)
               /\ c.reserveModels = RemoveAt(committee.reserveModels, j)
               /\ c.reserveRoles = RemoveAt(committee.reserveRoles, j)
               /\ c.reservePayouts = RemoveAt(committee.reservePayouts, j)
               /\ c.diversity = committee.diversity
<1>1. PICK k \in Committees : k = committee
  BY DEF Typed
<1>2. PICK ps, os, ms, rs, ys, rps, ros, rms, rrs, rys :
         /\ ps = k.profiles /\ os = k.owners /\ ms = k.models /\ rs = k.roles /\ ys = k.payouts
         /\ rps = k.reserveProfiles /\ ros = k.reserveOwners /\ rms = k.reserveModels
         /\ rrs = k.reserveRoles /\ rys = k.reservePayouts
  OBVIOUS
<1>3. /\ ps \in Seq(Profiles) /\ os \in Seq(AllOwners) /\ ms \in Seq(AllModels)
      /\ rs \in Seq(AllRoles) /\ ys \in Seq(AllPayouts)
      /\ rps \in Seq(Profiles) /\ ros \in Seq(AllOwners) /\ rms \in Seq(AllModels)
      /\ rrs \in Seq(AllRoles) /\ rys \in Seq(AllPayouts)
  BY <1>1, <1>2 DEF Committees
<1>4. /\ Len(os) = Len(ps) /\ Len(ms) = Len(ps) /\ Len(rs) = Len(ps) /\ Len(ys) = Len(ps)
      /\ Len(ros) = Len(rps) /\ Len(rms) = Len(rps) /\ Len(rrs) = Len(rps)
      /\ Len(rys) = Len(rps)
  BY <1>1, <1>2 DEF Typed, Parallel
<1>5. /\ DOMAIN ps = 1 .. Len(ps) /\ DOMAIN os = 1 .. Len(os) /\ DOMAIN ms = 1 .. Len(ms)
      /\ DOMAIN rs = 1 .. Len(rs) /\ DOMAIN ys = 1 .. Len(ys)
      /\ DOMAIN rps = 1 .. Len(rps) /\ DOMAIN ros = 1 .. Len(ros) /\ DOMAIN rms = 1 .. Len(rms)
      /\ DOMAIN rrs = 1 .. Len(rrs) /\ DOMAIN rys = 1 .. Len(rys)
  BY <1>3, SequenceFacts
<1>6. i \in DOMAIN ps /\ j \in DOMAIN rps
  BY <1>1, <1>2
<1>7. /\ i \in DOMAIN os /\ i \in DOMAIN ms /\ i \in DOMAIN rs /\ i \in DOMAIN ys
      /\ j \in DOMAIN ros /\ j \in DOMAIN rms /\ j \in DOMAIN rrs /\ j \in DOMAIN rys
  BY <1>4, <1>5, <1>6
<1>8. /\ rps[j] \in Profiles /\ ros[j] \in AllOwners /\ rms[j] \in AllModels
      /\ rrs[j] \in AllRoles /\ rys[j] \in AllPayouts
  BY <1>3, <1>6, <1>7, SequenceFacts
<1>9. PICK ps1, os1, ms1, rs1, ys1, rps1, ros1, rms1, rrs1, rys1 :
         /\ ps1 = [ps EXCEPT ![i] = rps[j]] /\ os1 = [os EXCEPT ![i] = ros[j]]
         /\ ms1 = [ms EXCEPT ![i] = rms[j]] /\ rs1 = [rs EXCEPT ![i] = rrs[j]]
         /\ ys1 = [ys EXCEPT ![i] = rys[j]]
         /\ rps1 = RemoveAt(rps, j) /\ ros1 = RemoveAt(ros, j) /\ rms1 = RemoveAt(rms, j)
         /\ rrs1 = RemoveAt(rrs, j) /\ rys1 = RemoveAt(rys, j)
  OBVIOUS
<1>10. /\ ps1 \in Seq(Profiles) /\ Len(ps1) = Len(ps)
       /\ os1 \in Seq(AllOwners) /\ Len(os1) = Len(os)
       /\ ms1 \in Seq(AllModels) /\ Len(ms1) = Len(ms)
       /\ rs1 \in Seq(AllRoles) /\ Len(rs1) = Len(rs)
       /\ ys1 \in Seq(AllPayouts) /\ Len(ys1) = Len(ys)
  BY <1>3, <1>6, <1>7, <1>8, <1>9, OneChanged
<1>11. /\ rps1 \in Seq(Profiles) /\ Len(rps1) = Len(rps) - 1
       /\ ros1 \in Seq(AllOwners) /\ Len(ros1) = Len(ros) - 1
       /\ rms1 \in Seq(AllModels) /\ Len(rms1) = Len(rms) - 1
       /\ rrs1 \in Seq(AllRoles) /\ Len(rrs1) = Len(rrs) - 1
       /\ rys1 \in Seq(AllPayouts) /\ Len(rys1) = Len(rys) - 1
  BY <1>3, <1>5, <1>6, <1>7, <1>9, RemoveAtElements
<1>12. TakenByReserve(i, j) =
          [k EXCEPT !.profiles = ps1, !.owners = os1, !.models = ms1, !.roles = rs1,
                    !.payouts = ys1, !.reserveProfiles = rps1, !.reserveOwners = ros1,
                    !.reserveModels = rms1, !.reserveRoles = rrs1, !.reservePayouts = rys1]
  BY <1>1, <1>2, <1>9 DEF TakenByReserve, Committees
<1>13. LET c == TakenByReserve(i, j)
       IN  /\ c \in Committees /\ c.profiles = ps1 /\ c.owners = os1 /\ c.models = ms1
           /\ c.roles = rs1 /\ c.payouts = ys1 /\ c.reserveProfiles = rps1
           /\ c.reserveOwners = ros1 /\ c.reserveModels = rms1 /\ c.reserveRoles = rrs1
           /\ c.reservePayouts = rys1 /\ c.diversity = k.diversity
  BY <1>1, <1>10, <1>11, <1>12 DEF Committees
<1>14. PICK c : c = TakenByReserve(i, j)
  OBVIOUS
<1>15. Parallel(c)
  BY <1>4, <1>10, <1>11, <1>13, <1>14 DEF Parallel
<1> QED BY <1>1, <1>2, <1>9, <1>10, <1>13, <1>14, <1>15
\* A declined seat belongs to a committee that was drawn, so no draw runs.
LEMMA DeclinedSeat ==
    ASSUME DrawInv, NEW i \in declined
    PROVE  /\ committee # NoCommittee /\ Len(committee.profiles) = CommitteeSize
           /\ KeysDiffer(committee) /\ draw.stage \notin {"SEATS", "RESERVES"}
           /\ i \in DOMAIN committee.profiles
BY NoCommitteeTyped DEF DrawInv, Typed, DrawIsSound

\* A key that was waiting sits in one seat, and no longer waits.
LEMMA KeysStayApart ==
    ASSUME Typed, KeysDiffer(committee), NEW i \in DOMAIN committee.profiles,
           NEW j \in DOMAIN committee.reserveProfiles
    PROVE  KeysDiffer(TakenByReserve(i, j))
<1>1. PICK os, ros : os = committee.owners /\ ros = committee.reserveOwners
  OBVIOUS
<1>2. /\ os \in Seq(AllOwners) /\ ros \in Seq(AllOwners)
      /\ Len(os) = Len(committee.profiles) /\ Len(ros) = Len(committee.reserveProfiles)
      /\ committee.profiles \in Seq(Profiles) /\ committee.reserveProfiles \in Seq(Profiles)
  BY <1>1 DEF Typed, Committees, Parallel
<1>3. PICK n \in Nat, m \in Nat : n = Len(os) /\ m = Len(ros)
  BY <1>2, SequenceFacts
<1>4. DOMAIN os = 1 .. n /\ DOMAIN ros = 1 .. m /\ i \in 1 .. n /\ j \in 1 .. m
  BY <1>2, <1>3, SequenceFacts
<1>5. /\ \A a, b \in 1 .. n : os[a] = os[b] => a = b
      /\ \A a, b \in 1 .. m : ros[a] = ros[b] => a = b
      /\ \A a \in 1 .. n, b \in 1 .. m : os[a] # ros[b]
  BY <1>1, <1>4 DEF KeysDiffer
<1>6. PICK os1, ros1 : os1 = [os EXCEPT ![i] = ros[j]] /\ ros1 = RemoveAt(ros, j)
  OBVIOUS
<1>7. /\ DOMAIN os1 = 1 .. n
      /\ \A a \in 1 .. n : os1[a] = IF a = i THEN ros[j] ELSE os[a]
  BY <1>4, <1>6
<1>8. /\ ros1 \in Seq(AllOwners) /\ Len(ros1) = m - 1
      /\ \A b \in 1 .. m - 1 : ros1[b] = IF b < j THEN ros[b] ELSE ros[b + 1]
  BY <1>2, <1>3, <1>4, <1>6, RemoveAtElements
<1>9. DOMAIN ros1 = 1 .. m - 1
  BY <1>8, SequenceFacts
<1>10. PICK back : /\ back = [b \in 1 .. m - 1 |-> IF b < j THEN b ELSE b + 1]
  OBVIOUS
<1>11. /\ \A b \in 1 .. m - 1 : back[b] \in 1 .. m /\ back[b] # j /\ ros1[b] = ros[back[b]]
       /\ \A a, b \in 1 .. m - 1 : back[a] = back[b] => a = b
  BY <1>3, <1>4, <1>8, <1>10
<1>12. /\ \A a, b \in DOMAIN os1 : os1[a] = os1[b] => a = b
       /\ \A a, b \in DOMAIN ros1 : ros1[a] = ros1[b] => a = b
       /\ \A a \in DOMAIN os1, b \in DOMAIN ros1 : os1[a] # ros1[b]
  <2>1. \A a, b \in DOMAIN os1 : os1[a] = os1[b] => a = b
    BY <1>4, <1>5, <1>7
  <2>2. \A a, b \in DOMAIN ros1 : ros1[a] = ros1[b] => a = b
    BY <1>5, <1>9, <1>11
  <2>3. ASSUME NEW a \in DOMAIN os1, NEW b \in DOMAIN ros1 PROVE os1[a] # ros1[b]
    <3>1. back[b] \in 1 .. m /\ back[b] # j /\ ros1[b] = ros[back[b]]
      BY <1>9, <1>11
    <3>2. CASE a = i
      BY <1>4, <1>5, <1>7, <3>1, <3>2
    <3>3. CASE a # i
      BY <1>4, <1>5, <1>7, <3>1, <3>3
    <3> QED BY <3>2, <3>3
  <2> QED BY <2>1, <2>2, <2>3
<1>13. /\ TakenByReserve(i, j).owners = os1 /\ TakenByReserve(i, j).reserveOwners = ros1
  BY <1>1, <1>6, TakenFields
<1> QED BY <1>12, <1>13 DEF KeysDiffer

\* A reserve takes a declined seat.
LEMMA ReplaceDeclinedSeatSafe ==
    ASSUME DrawInv, NEW i, NEW j, ReplaceDeclinedSeat(i, j) PROVE DrawInv'
<1>1. /\ i \in DOMAIN committee.profiles /\ j \in DOMAIN committee.reserveProfiles
      /\ Len(committee.profiles) = CommitteeSize /\ KeysDiffer(committee)
      /\ draw.stage \notin {"SEATS", "RESERVES"} /\ Typed /\ DrawIsSound
  BY DeclinedSeat DEF ReplaceDeclinedSeat, DrawInv
<1>2. /\ committee' = TakenByReserve(i, j) /\ declined' = declined \ {i}
      /\ UNCHANGED <<roster, rule, draw, changes, declines>>
  BY DEF ReplaceDeclinedSeat
<1>3. /\ committee' \in Committees /\ Parallel(committee')
      /\ Len(committee'.profiles) = Len(committee.profiles)
      /\ KeysDiffer(committee')
  BY <1>1, <1>2, TakenFields, KeysStayApart
<1>4. DOMAIN committee'.profiles = DOMAIN committee.profiles
  <2>1. committee.profiles \in Seq(Profiles) /\ committee'.profiles \in Seq(Profiles)
    BY <1>1, <1>3 DEF Typed, Committees
  <2> QED BY <1>3, <2>1, SequenceFacts
<1>5. Typed'
  BY <1>1, <1>2, <1>3, <1>4 DEF Typed, Parallel
<1>6. DrawIsSound'
  BY <1>1, <1>2, DrawStands
<1> QED BY <1>1, <1>3, <1>5, <1>6 DEF DrawInv, KeysDiffer

\* Every step keeps the invariant.
LEMMA DrawNext == DrawInv /\ [Next]_vars => DrawInv'
<1> SUFFICES ASSUME DrawInv, [Next]_vars PROVE DrawInv'
  OBVIOUS
<1>1. ASSUME NEW d \in DiversityRules, SetJuryDiversity(d[1], d[2]) PROVE DrawInv'
  BY <1>1, SetJuryDiversitySafe
<1>2. ASSUME NEW c \in ManifestChanges, UpdateAgentManifest(c[1], c[2], c[3]) PROVE DrawInv'
  BY <1>2, UpdateAgentManifestSafe
<1>3. ASSUME NEW p \in Leavers, DeprecateAgent(p) PROVE DrawInv'
  BY <1>3, DeprecateAgentSafe, ProfilesAssumption
<1>4. ASSUME NEW p \in Profiles, DrawSeat(p) \/ DrawReserve(p) PROVE DrawInv'
  BY <1>4, DrawSeatSafe, DrawReserveSafe
<1>5. CASE StartDraw \/ CloseSeats \/ CloseReserves
  BY <1>5, StartDrawSafe, CloseSeatsSafe, CloseReservesSafe
<1>6. ASSUME NEW i \in 1 .. CommitteeSize, DeclineJurySeat(i) PROVE DrawInv'
  BY <1>6, DeclineJurySeatSafe
<1>7. ASSUME NEW i \in 1 .. CommitteeSize, NEW j \in 1 .. ReserveCount, ReplaceDeclinedSeat(i, j)
      PROVE  DrawInv'
  BY <1>7, ReplaceDeclinedSeatSafe
<1>8. CASE UNCHANGED vars
  <2>1. UNCHANGED <<roster, rule, draw, committee, declined, changes, declines>>
    BY <1>8 DEF vars
  <2>2. Typed'
    BY <2>1 DEF DrawInv, Typed, Parallel
  <2>3. DrawIsSound'
    BY <2>1, DrawStands DEF DrawInv
  <2> QED BY <2>1, <2>2, <2>3 DEF DrawInv, KeysDiffer
<1> QED BY <1>1, <1>2, <1>3, <1>4, <1>5, <1>6, <1>7, <1>8 DEF Next

\* The parallel vectors of a draw and its committee keep their lengths, the picks of a
\* running draw stand by everything they were checked for (jury.move, select_committee),
\* and no signing key sits or waits twice.
THEOREM DrawInvariant == Spec => []DrawInv
<1>1. Init => DrawInv
  BY DrawInit
<1>2. DrawInv /\ [Next]_vars => DrawInv'
  BY DrawNext
<1> QED BY <1>1, <1>2, PTL DEF Spec

-----------------------------------------------------------------------------
(* The varied panel                                                        *)

\* The members a committee seats, and those that wait.
Seats(c) ==
    [i \in DOMAIN c.profiles |->
        [profile |-> c.profiles[i], owner |-> c.owners[i], model |-> c.models[i],
         role |-> c.roles[i], payout |-> c.payouts[i]]]

Waits(c) ==
    [j \in DOMAIN c.reserveProfiles |->
        [profile |-> c.reserveProfiles[j], owner |-> c.reserveOwners[j],
         model |-> c.reserveModels[j], role |-> c.reserveRoles[j],
         payout |-> c.reservePayouts[j]]]

Someone == [profile : Profiles, owner : AllOwners, model : AllModels, role : AllRoles,
            payout : AllPayouts]

\* Vectors of one length are whole members.
LEMMA WholeMembers ==
    ASSUME NEW c \in Committees, Parallel(c)
    PROVE  /\ Seats(c) \in Seq(Someone) /\ Len(Seats(c)) = Len(c.profiles)
           /\ Waits(c) \in Seq(Someone) /\ Len(Waits(c)) = Len(c.reserveProfiles)
           /\ DOMAIN Seats(c) = 1 .. Len(c.profiles) /\ DOMAIN c.profiles = 1 .. Len(c.profiles)
           /\ DOMAIN c.owners = 1 .. Len(c.profiles) /\ DOMAIN c.models = 1 .. Len(c.profiles)
           /\ DOMAIN c.roles = 1 .. Len(c.profiles) /\ DOMAIN c.payouts = 1 .. Len(c.profiles)
           /\ DOMAIN Waits(c) = 1 .. Len(c.reserveProfiles)
           /\ DOMAIN c.reserveProfiles = 1 .. Len(c.reserveProfiles)
           /\ DOMAIN c.reserveOwners = 1 .. Len(c.reserveProfiles)
           /\ DOMAIN c.reserveModels = 1 .. Len(c.reserveProfiles)
           /\ DOMAIN c.reserveRoles = 1 .. Len(c.reserveProfiles)
           /\ DOMAIN c.reservePayouts = 1 .. Len(c.reserveProfiles)
           /\ Len(c.profiles) \in Nat /\ Len(c.reserveProfiles) \in Nat
<1>1. /\ c.profiles \in Seq(Profiles) /\ c.owners \in Seq(AllOwners) /\ c.models \in Seq(AllModels)
      /\ c.roles \in Seq(AllRoles) /\ c.payouts \in Seq(AllPayouts)
      /\ c.reserveProfiles \in Seq(Profiles) /\ c.reserveOwners \in Seq(AllOwners)
      /\ c.reserveModels \in Seq(AllModels) /\ c.reserveRoles \in Seq(AllRoles)
      /\ c.reservePayouts \in Seq(AllPayouts)
  BY DEF Committees
<1>2. PICK n \in Nat, m \in Nat : n = Len(c.profiles) /\ m = Len(c.reserveProfiles)
  BY <1>1, SequenceFacts
<1>3. /\ Len(c.owners) = n /\ Len(c.models) = n /\ Len(c.roles) = n /\ Len(c.payouts) = n
      /\ Len(c.reserveOwners) = m /\ Len(c.reserveModels) = m /\ Len(c.reserveRoles) = m
      /\ Len(c.reservePayouts) = m
  BY <1>2 DEF Parallel
<1>4. /\ DOMAIN c.profiles = 1 .. n /\ DOMAIN c.owners = 1 .. n /\ DOMAIN c.models = 1 .. n
      /\ DOMAIN c.roles = 1 .. n /\ DOMAIN c.payouts = 1 .. n
      /\ \A i \in 1 .. n : /\ c.profiles[i] \in Profiles /\ c.owners[i] \in AllOwners
                           /\ c.models[i] \in AllModels /\ c.roles[i] \in AllRoles
                           /\ c.payouts[i] \in AllPayouts
  BY <1>1, <1>2, <1>3, SequenceFacts
<1>5. /\ DOMAIN c.reserveProfiles = 1 .. m /\ DOMAIN c.reserveOwners = 1 .. m
      /\ DOMAIN c.reserveModels = 1 .. m /\ DOMAIN c.reserveRoles = 1 .. m
      /\ DOMAIN c.reservePayouts = 1 .. m
      /\ \A i \in 1 .. m : /\ c.reserveProfiles[i] \in Profiles
                           /\ c.reserveOwners[i] \in AllOwners
                           /\ c.reserveModels[i] \in AllModels /\ c.reserveRoles[i] \in AllRoles
                           /\ c.reservePayouts[i] \in AllPayouts
  BY <1>1, <1>2, <1>3, SequenceFacts
<1>6. ASSUME NEW T, NEW k \in Nat, NEW f \in [1 .. k -> T]
      PROVE  f \in Seq(T) /\ Len(f) = k /\ DOMAIN f = 1 .. k
  OBVIOUS
<1>7. Seats(c) \in [1 .. n -> Someone]
  BY <1>4 DEF Seats, Someone
<1>8. Waits(c) \in [1 .. m -> Someone]
  BY <1>5 DEF Waits, Someone
<1> QED BY <1>2, <1>4, <1>5, <1>6, <1>7, <1>8

\* A committee whose vectors keep the rule seats a varied panel.
LEMMA VariedSeats ==
    ASSUME NEW c \in Committees, Parallel(c), KeysDiffer(c), NEW given,
           \A m \in ToSet(c.models) :
              Cardinality({k \in DOMAIN c.models : c.models[k] = m}) <= given.perModel,
           Cardinality(ToSet(c.models)) >= given.required,
           {Skeptic, Source} \subseteq ToSet(c.roles)
    PROVE  Panel!Varied(Seats(c), given)
<1>1. PICK n \in Nat : n = Len(c.profiles)
  BY WholeMembers
<1>2. PICK S : S = Seats(c)
  OBVIOUS
<1>3. /\ DOMAIN S = 1 .. n /\ Len(S) = n /\ DOMAIN c.owners = 1 .. n /\ DOMAIN c.models = 1 .. n
      /\ DOMAIN c.roles = 1 .. n
  BY <1>1, <1>2, WholeMembers
<1>4. \A i \in 1 .. n : /\ S[i].owner = c.owners[i] /\ S[i].model = c.models[i]
                        /\ S[i].role = c.roles[i]
  BY <1>1, <1>2, WholeMembers DEF Seats
<1>5. Panel!Values(S, Panel!OwnerOf) = {c.owners[i] : i \in 1 .. n}
  BY <1>3, <1>4 DEF Panel!Values, Panel!OwnerOf
<1>6. Panel!Values(S, Panel!ModelOf) = ToSet(c.models)
  BY <1>3, <1>4 DEF Panel!Values, Panel!ModelOf, ToSet
<1>7. Panel!Values(S, Panel!RoleOf) = ToSet(c.roles)
  BY <1>3, <1>4 DEF Panel!Values, Panel!RoleOf, ToSet
<1>8. Panel!Cardinality(Panel!Values(S, Panel!OwnerOf)) = Len(S)
  <2>1. \A i, j \in 1 .. n : c.owners[i] = c.owners[j] => i = j
    BY <1>3 DEF KeysDiffer
  <2>2. PICK o : o = c.owners
    OBVIOUS
  <2>3. DOMAIN o = 1 .. n /\ (\A i, j \in 1 .. n : o[i] = o[j] => i = j) /\ n \in Nat
    BY <1>1, <1>3, <2>1, <2>2
  <2>4. Cardinality({o[i] : i \in 1 .. n}) = n
    BY <2>3, DistinctValues
  <2> QED BY <1>3, <1>5, <2>2, <2>4, SameWords
<1>9. ASSUME NEW i \in DOMAIN S
      PROVE  Panel!Cardinality({j \in DOMAIN S : S[j].model = S[i].model}) <= given.perModel
  <2>1. {j \in DOMAIN S : S[j].model = S[i].model}
           = {k \in DOMAIN c.models : c.models[k] = c.models[i]}
    BY <1>3, <1>4
  <2>2. c.models[i] \in ToSet(c.models)
    BY <1>3 DEF ToSet
  <2> QED BY <2>1, <2>2, SameWords
<1>10. Panel!Cardinality(Panel!Values(S, Panel!ModelOf)) >= given.required
  BY <1>6, SameWords
<1> QED BY <1>2, <1>7, <1>8, <1>9, <1>10 DEF Panel!Varied
\* The first round of a draw is varied by the rule of that moment.
LEMMA FirstRoundVaried ==
    ASSUME NEW s \in Seq(Profiles), NEW r \in Seq(Profiles), roster \in [Profiles -> Records],
           rule \in Rules, SeatsFit(s), ReservesFit(s, r), SelectedDiversityValid(s)
    PROVE  Panel!Varied(Seats(CreateFirstRound(s, r)), rule)
<1>1. PICK c : c = CreateFirstRound(s, r)
  OBVIOUS
<1>2. c \in Committees /\ Parallel(c) /\ KeysDiffer(c)
  BY <1>1, FirstRound
<1>3. c.models = Each(s, ModelNow) /\ c.roles = Each(s, RoleNow)
  BY <1>1 DEF CreateFirstRound
<1>4. ToSet(c.models) = ValuesOf(s, ModelNow) /\ ToSet(c.roles) = ValuesOf(s, RoleNow)
  BY <1>3 DEF Each, ToSet, ValuesOf
<1>5. ASSUME NEW m \in ToSet(c.models)
      PROVE  Cardinality({k \in DOMAIN c.models : c.models[k] = m}) <= rule.perModel
  <2>1. PICK i \in DOMAIN s : m = ModelNow(s[i])
    BY <1>4 DEF ValuesOf
  <2>2. CountModel(s, m) <= rule.perModel
    BY <2>1 DEF SeatsFit
  <2>3. CountModel(s, m) = Occurrences(c.models, m)
    BY <1>3, CountsAreOccurrences
  <2> QED BY <2>2, <2>3 DEF Occurrences
<1>6. /\ Cardinality(ToSet(c.models)) >= rule.required
      /\ {Skeptic, Source} \subseteq ToSet(c.roles)
  BY <1>4 DEF SelectedDiversityValid
<1> QED BY <1>1, <1>2, <1>5, <1>6, VariedSeats

\* Its members are the candidates of that moment.
LEMMA FirstRoundMembers ==
    ASSUME NEW s \in Seq(Profiles), NEW r \in Seq(Profiles), SeatsFit(s), ReservesFit(s, r)
    PROVE  LET c == CreateFirstRound(s, r)
           IN  /\ Seats(c) = [i \in DOMAIN s |-> MemberNow(s[i])]
               /\ Waits(c) = [j \in DOMAIN r |-> MemberNow(r[j])]
               /\ ToSet(Seats(c)) \cup ToSet(Waits(c))
                     \subseteq {MemberNow(p) : p \in {q \in Profiles : roster[q].active
                                                       /\ ~AgentConflictsWithClaim(q)}}
<1>1. PICK c : c = CreateFirstRound(s, r)
  OBVIOUS
<1>2. /\ c.profiles = s /\ c.owners = [i \in DOMAIN s |-> Owner[s[i]]]
      /\ c.models = [i \in DOMAIN s |-> ModelNow(s[i])] /\ c.roles = [i \in DOMAIN s |-> RoleNow(s[i])]
      /\ c.payouts = [i \in DOMAIN s |-> Payout[s[i]]]
  BY <1>1 DEF CreateFirstRound, Each, OwnerNow, PayoutNow
<1>3. /\ c.reserveProfiles = r /\ c.reserveOwners = [i \in DOMAIN r |-> Owner[r[i]]]
      /\ c.reserveModels = [i \in DOMAIN r |-> ModelNow(r[i])]
      /\ c.reserveRoles = [i \in DOMAIN r |-> RoleNow(r[i])]
      /\ c.reservePayouts = [i \in DOMAIN r |-> Payout[r[i]]]
  BY <1>1 DEF CreateFirstRound, Each, OwnerNow, PayoutNow
<1>4. Seats(c) = [i \in DOMAIN s |-> MemberNow(s[i])]
  BY <1>2 DEF Seats, MemberNow
<1>5. Waits(c) = [j \in DOMAIN r |-> MemberNow(r[j])]
  BY <1>3 DEF Waits, MemberNow
<1>6. /\ \A i \in DOMAIN s : s[i] \in {q \in Profiles : roster[q].active
                                                        /\ ~AgentConflictsWithClaim(q)}
      /\ \A j \in DOMAIN r : r[j] \in {q \in Profiles : roster[q].active
                                                        /\ ~AgentConflictsWithClaim(q)}
  BY SequenceFacts DEF SeatsFit, ReservesFit, MayBeDrawn
<1>7. ToSet(Seats(c)) \cup ToSet(Waits(c))
         \subseteq {MemberNow(p) : p \in {q \in Profiles : roster[q].active
                                           /\ ~AgentConflictsWithClaim(q)}}
  BY <1>4, <1>5, <1>6 DEF ToSet
<1> QED BY <1>1, <1>4, <1>5, <1>7

\* Nobody sits or waits twice.
LEMMA EveryKeyOnce ==
    ASSUME NEW c \in Committees, Parallel(c), KeysDiffer(c)
    PROVE  Cardinality(Panel!Values(Seats(c) \o Waits(c), Panel!OwnerOf))
              = Len(c.profiles) + Len(c.reserveProfiles)
<1>1. PICK n \in Nat, m \in Nat : n = Len(c.profiles) /\ m = Len(c.reserveProfiles)
  BY WholeMembers
<1>2. PICK S, W : S = Seats(c) /\ W = Waits(c)
  OBVIOUS
<1>3. /\ S \in Seq(Someone) /\ W \in Seq(Someone) /\ Len(S) = n /\ Len(W) = m
      /\ DOMAIN c.owners = 1 .. n /\ DOMAIN c.reserveOwners = 1 .. m
  BY <1>1, <1>2, WholeMembers
<1>4. /\ \A i \in 1 .. n : S[i].owner = c.owners[i]
      /\ \A j \in 1 .. m : W[j].owner = c.reserveOwners[j]
  BY <1>1, <1>2, WholeMembers DEF Seats, Waits
<1>5. PICK all : all = S \o W
  OBVIOUS
<1>6. /\ all \in Seq(Someone) /\ Len(all) = n + m
      /\ \A i \in 1 .. n + m : all[i] = IF i <= n THEN S[i] ELSE W[i - n]
  BY <1>3, <1>5, ConcatProperties
<1>7. DOMAIN all = 1 .. n + m
  BY <1>6, SequenceFacts
<1>8. PICK o : o = [i \in 1 .. n + m |-> all[i].owner]
  OBVIOUS
<1>9. \A i \in 1 .. n + m : o[i] = IF i <= n THEN c.owners[i] ELSE c.reserveOwners[i - n]
  <2> TAKE i \in 1 .. n + m
  <2>1. CASE i <= n
    <3>1. i \in 1 .. n
      BY <2>1
    <3> QED BY <1>4, <1>6, <1>8, <2>1, <3>1
  <2>2. CASE ~(i <= n)
    <3>1. i - n \in 1 .. m
      BY <2>2
    <3> QED BY <1>4, <1>6, <1>8, <2>2, <3>1
  <2> QED BY <2>1, <2>2
<1>10. ASSUME NEW i \in 1 .. n + m, NEW j \in 1 .. n + m, o[i] = o[j] PROVE i = j
  <2>1. CASE i <= n /\ j <= n
    <3>1. i \in 1 .. n /\ j \in 1 .. n /\ c.owners[i] = c.owners[j]
      BY <1>9, <1>10, <2>1
    <3> QED BY <1>3, <3>1 DEF KeysDiffer
  <2>2. CASE i <= n /\ ~(j <= n)
    <3>1. i \in 1 .. n /\ j - n \in 1 .. m /\ c.owners[i] = c.reserveOwners[j - n]
      BY <1>9, <1>10, <2>2
    <3> QED BY <1>3, <3>1 DEF KeysDiffer
  <2>3. CASE ~(i <= n) /\ j <= n
    <3>1. j \in 1 .. n /\ i - n \in 1 .. m /\ c.owners[j] = c.reserveOwners[i - n]
      BY <1>9, <1>10, <2>3
    <3> QED BY <1>3, <3>1 DEF KeysDiffer
  <2>4. CASE ~(i <= n) /\ ~(j <= n)
    <3>1. /\ i - n \in 1 .. m /\ j - n \in 1 .. m
          /\ c.reserveOwners[i - n] = c.reserveOwners[j - n]
      BY <1>9, <1>10, <2>4
    <3>2. i - n = j - n
      BY <1>3, <3>1 DEF KeysDiffer
    <3> QED BY <3>2
  <2> QED BY <2>1, <2>2, <2>3, <2>4
<1>11. Panel!Values(all, Panel!OwnerOf) = {o[i] : i \in 1 .. n + m}
  BY <1>7, <1>8 DEF Panel!Values, Panel!OwnerOf
<1>12. Cardinality({o[i] : i \in 1 .. n + m}) = n + m
  <2>1. n + m \in Nat /\ DOMAIN o = 1 .. n + m
    BY <1>8
  <2> QED BY <1>10, <2>1, DistinctValues
<1> QED BY <1>1, <1>2, <1>5, <1>11, <1>12

\* One reserve holds each duty.
LEMMA BothDutiesWait ==
    ASSUME NEW s \in Seq(Profiles), NEW r \in Seq(Profiles), ReservesFit(s, r),
           Len(r) = ReserveCount, NEW W, W = [j \in DOMAIN r |-> MemberNow(r[j])]
    PROVE  Panel!Values(W, Panel!RoleOf) = {Skeptic, Source}
<1>1. DOMAIN r = {1, 2}
  <2>1. DOMAIN r = 1 .. 2
    BY SequenceFacts, DutiesAssumption
  <2> QED BY <2>1
<1>2. RoleNow(r[1]) \in {Skeptic, Source} /\ RoleNow(r[2]) \in {Skeptic, Source}
      /\ RoleNow(r[1]) # RoleNow(r[2])
  BY <1>1 DEF ReservesFit
<1>3. W[1].role = RoleNow(r[1]) /\ W[2].role = RoleNow(r[2]) /\ DOMAIN W = {1, 2}
  BY <1>1 DEF MemberNow
<1>4. Panel!Values(W, Panel!RoleOf) = {W[1].role, W[2].role}
  BY <1>3 DEF Panel!Values, Panel!RoleOf
<1> QED BY <1>2, <1>3, <1>4
\* One whole member moves from the reserves into the seat.
LEMMA WholeReserveMoves ==
    ASSUME Typed, NEW i \in DOMAIN committee.profiles, NEW j \in DOMAIN committee.reserveProfiles
    PROVE  /\ Seats(TakenByReserve(i, j)) = [Seats(committee) EXCEPT ![i] = Waits(committee)[j]]
           /\ Waits(TakenByReserve(i, j)) = RemoveAt(Waits(committee), j)
<1>1. PICK k \in Committees : k = committee /\ Parallel(k)
  BY DEF Typed
<1>2. PICK c : c = TakenByReserve(i, j)
  OBVIOUS
<1>3. /\ c \in Committees /\ Parallel(c) /\ Len(c.profiles) = Len(k.profiles)
      /\ c.profiles = [k.profiles EXCEPT ![i] = k.reserveProfiles[j]]
      /\ c.owners = [k.owners EXCEPT ![i] = k.reserveOwners[j]]
      /\ c.models = [k.models EXCEPT ![i] = k.reserveModels[j]]
      /\ c.roles = [k.roles EXCEPT ![i] = k.reserveRoles[j]]
      /\ c.payouts = [k.payouts EXCEPT ![i] = k.reservePayouts[j]]
      /\ c.reserveProfiles = RemoveAt(k.reserveProfiles, j)
      /\ c.reserveOwners = RemoveAt(k.reserveOwners, j)
      /\ c.reserveModels = RemoveAt(k.reserveModels, j)
      /\ c.reserveRoles = RemoveAt(k.reserveRoles, j)
      /\ c.reservePayouts = RemoveAt(k.reservePayouts, j)
  BY <1>1, <1>2, TakenFields
<1>4. PICK n \in Nat, m \in Nat : n = Len(k.profiles) /\ m = Len(k.reserveProfiles)
  BY <1>1, WholeMembers
<1>5. /\ DOMAIN k.profiles = 1 .. n /\ DOMAIN k.owners = 1 .. n /\ DOMAIN k.models = 1 .. n
      /\ DOMAIN k.roles = 1 .. n /\ DOMAIN k.payouts = 1 .. n /\ DOMAIN Seats(k) = 1 .. n
      /\ DOMAIN k.reserveProfiles = 1 .. m /\ DOMAIN k.reserveOwners = 1 .. m
      /\ DOMAIN k.reserveModels = 1 .. m /\ DOMAIN k.reserveRoles = 1 .. m
      /\ DOMAIN k.reservePayouts = 1 .. m /\ DOMAIN Waits(k) = 1 .. m
      /\ Waits(k) \in Seq(Someone) /\ Len(Waits(k)) = m
  BY <1>1, <1>4, WholeMembers
<1>6. i \in 1 .. n /\ j \in 1 .. m
  BY <1>1, <1>5
<1>7. Seats(c) = [Seats(k) EXCEPT ![i] = Waits(k)[j]]
  <2>1. DOMAIN Seats(c) = 1 .. n /\ DOMAIN c.profiles = 1 .. n
    BY <1>3, <1>4, WholeMembers
  <2>2. PICK there : there = Waits(k)[j]
    OBVIOUS
  <2>3. there = [profile |-> k.reserveProfiles[j], owner |-> k.reserveOwners[j],
                 model |-> k.reserveModels[j], role |-> k.reserveRoles[j],
                 payout |-> k.reservePayouts[j]]
    BY <1>5, <1>6, <2>2 DEF Waits
  <2>4. ASSUME NEW a \in 1 .. n PROVE Seats(c)[a] = IF a = i THEN there ELSE Seats(k)[a]
    <3>1. Seats(c)[a] = [profile |-> c.profiles[a], owner |-> c.owners[a],
                         model |-> c.models[a], role |-> c.roles[a], payout |-> c.payouts[a]]
      BY <2>1 DEF Seats
    <3>2. CASE a = i
      <4>1. /\ c.profiles[a] = k.reserveProfiles[j] /\ c.owners[a] = k.reserveOwners[j]
            /\ c.models[a] = k.reserveModels[j] /\ c.roles[a] = k.reserveRoles[j]
            /\ c.payouts[a] = k.reservePayouts[j]
        BY <1>3, <1>5, <1>6, <3>2
      <4> QED BY <2>3, <3>1, <3>2, <4>1
    <3>3. CASE a # i
      <4>1. /\ c.profiles[a] = k.profiles[a] /\ c.owners[a] = k.owners[a]
            /\ c.models[a] = k.models[a] /\ c.roles[a] = k.roles[a]
            /\ c.payouts[a] = k.payouts[a]
        BY <1>3, <1>5, <3>3
      <4>2. Seats(k)[a] = [profile |-> k.profiles[a], owner |-> k.owners[a],
                           model |-> k.models[a], role |-> k.roles[a], payout |-> k.payouts[a]]
        BY <1>5 DEF Seats
      <4> QED BY <3>1, <3>3, <4>1, <4>2
    <3> QED BY <3>2, <3>3
  <2>5. Seats(c) = [a \in 1 .. n |-> Seats(c)[a]]
    BY <2>1 DEF Seats
  <2>6. PICK S, T : S = Seats(c) /\ T = Seats(k)
    OBVIOUS
  <2>7. /\ S = [a \in 1 .. n |-> S[a]] /\ DOMAIN T = 1 .. n
        /\ \A a \in 1 .. n : S[a] = IF a = i THEN there ELSE T[a]
    BY <1>5, <2>4, <2>5, <2>6
  <2>8. S = [T EXCEPT ![i] = there]
    BY <1>6, <2>7
  <2> QED BY <2>2, <2>6, <2>8
<1>8. Waits(c) = RemoveAt(Waits(k), j)
  <2>1. /\ Len(c.reserveProfiles) = m - 1
        /\ \A b \in 1 .. m - 1 :
             /\ c.reserveProfiles[b]
                  = IF b < j THEN k.reserveProfiles[b] ELSE k.reserveProfiles[b + 1]
             /\ c.reserveOwners[b] = IF b < j THEN k.reserveOwners[b] ELSE k.reserveOwners[b + 1]
             /\ c.reserveModels[b] = IF b < j THEN k.reserveModels[b] ELSE k.reserveModels[b + 1]
             /\ c.reserveRoles[b] = IF b < j THEN k.reserveRoles[b] ELSE k.reserveRoles[b + 1]
             /\ c.reservePayouts[b]
                  = IF b < j THEN k.reservePayouts[b] ELSE k.reservePayouts[b + 1]
    <3>1. PICK rps, ros, rms, rrs, rys :
             /\ rps = k.reserveProfiles /\ ros = k.reserveOwners /\ rms = k.reserveModels
             /\ rrs = k.reserveRoles /\ rys = k.reservePayouts
      OBVIOUS
    <3>2. /\ rps \in Seq(Profiles) /\ ros \in Seq(AllOwners) /\ rms \in Seq(AllModels)
          /\ rrs \in Seq(AllRoles) /\ rys \in Seq(AllPayouts)
      BY <3>1 DEF Committees
    <3>3. /\ Len(rps) = m /\ Len(ros) = m /\ Len(rms) = m /\ Len(rrs) = m /\ Len(rys) = m
      BY <1>1, <1>4, <3>1 DEF Parallel
    <3>4. ASSUME NEW T, NEW s \in Seq(T), Len(s) = m
          PROVE  /\ Len(RemoveAt(s, j)) = m - 1
                 /\ \A b \in 1 .. m - 1 :
                      RemoveAt(s, j)[b] = IF b < j THEN s[b] ELSE s[b + 1]
      BY <1>6, <3>4, RemoveAtElements
    <3>5. /\ Len(RemoveAt(rps, j)) = m - 1
          /\ \A b \in 1 .. m - 1 :
               RemoveAt(rps, j)[b] = IF b < j THEN rps[b] ELSE rps[b + 1]
      BY <3>2, <3>3, <3>4
    <3>6. \A b \in 1 .. m - 1 : RemoveAt(ros, j)[b] = IF b < j THEN ros[b] ELSE ros[b + 1]
      BY <3>2, <3>3, <3>4
    <3>7. \A b \in 1 .. m - 1 : RemoveAt(rms, j)[b] = IF b < j THEN rms[b] ELSE rms[b + 1]
      BY <3>2, <3>3, <3>4
    <3>8. \A b \in 1 .. m - 1 : RemoveAt(rrs, j)[b] = IF b < j THEN rrs[b] ELSE rrs[b + 1]
      BY <3>2, <3>3, <3>4
    <3>9. \A b \in 1 .. m - 1 : RemoveAt(rys, j)[b] = IF b < j THEN rys[b] ELSE rys[b + 1]
      BY <3>2, <3>3, <3>4
    <3> QED BY <1>3, <3>1, <3>5, <3>6, <3>7, <3>8, <3>9
  <2>2. DOMAIN Waits(c) = 1 .. m - 1 /\ DOMAIN c.reserveProfiles = 1 .. m - 1
    BY <1>3, <2>1, WholeMembers
  <2>3. PICK V, W : V = Waits(c) /\ W = Waits(k)
    OBVIOUS
  <2>4. /\ RemoveAt(W, j) \in Seq(Someone) /\ Len(RemoveAt(W, j)) = m - 1
        /\ \A b \in 1 .. m - 1 : RemoveAt(W, j)[b] = IF b < j THEN W[b] ELSE W[b + 1]
    BY <1>5, <1>6, <2>3, RemoveAtElements
  <2>5. PICK U : U = RemoveAt(W, j)
    OBVIOUS
  <2>6. DOMAIN U = 1 .. m - 1 /\ U = [b \in DOMAIN U |-> U[b]]
    BY <2>4, <2>5, SequenceFacts
  <2>7. ASSUME NEW b \in 1 .. m - 1 PROVE V[b] = U[b]
    <3>1. V[b] = [profile |-> c.reserveProfiles[b], owner |-> c.reserveOwners[b],
                  model |-> c.reserveModels[b], role |-> c.reserveRoles[b],
                  payout |-> c.reservePayouts[b]]
      BY <2>2, <2>3 DEF Waits
    <3>2. \A a \in 1 .. m :
             W[a] = [profile |-> k.reserveProfiles[a], owner |-> k.reserveOwners[a],
                     model |-> k.reserveModels[a], role |-> k.reserveRoles[a],
                     payout |-> k.reservePayouts[a]]
      BY <1>5, <2>3 DEF Waits
    <3>3. b \in 1 .. m /\ b + 1 \in 1 .. m
      OBVIOUS
    <3>4. CASE b < j
      BY <2>1, <2>4, <2>5, <3>1, <3>2, <3>3, <3>4
    <3>5. CASE ~(b < j)
      BY <2>1, <2>4, <2>5, <3>1, <3>2, <3>3, <3>5
    <3> QED BY <3>4, <3>5
  <2>8. V = [b \in 1 .. m - 1 |-> V[b]]
    BY <2>2, <2>3 DEF Waits
  <2>9. V = U
    BY <2>6, <2>7, <2>8
  <2> QED BY <2>3, <2>5, <2>9
<1> QED BY <1>1, <1>2, <1>7, <1>8
\* The members that JuryPanel sees.
LEMMA PanelMembers ==
    /\ SeatedMembers = Seats(committee) /\ WaitingMembers = Waits(committee)
    /\ SeatedMembers' = Seats(committee') /\ WaitingMembers' = Waits(committee')
BY DEF SeatedMembers, WaitingMembers, Seats, Waits

\* Nobody sits before the draw.
LEMMA NobodySits == Seats(NoCommittee) = <<>> /\ Waits(NoCommittee) = <<>>
<1>1. NoCommittee.profiles = <<>> /\ NoCommittee.reserveProfiles = <<>>
  BY DEF NoCommittee
<1>2. DOMAIN Seats(NoCommittee) = {} /\ DOMAIN Waits(NoCommittee) = {}
  BY <1>1 DEF Seats, Waits
<1>3. \A f : DOMAIN f = {} /\ f = [x \in DOMAIN f |-> f[x]] => f = <<>>
  OBVIOUS
<1>4. /\ Seats(NoCommittee) = [x \in DOMAIN Seats(NoCommittee) |-> Seats(NoCommittee)[x]]
      /\ Waits(NoCommittee) = [x \in DOMAIN Waits(NoCommittee) |-> Waits(NoCommittee)[x]]
  BY <1>1 DEF Seats, Waits
<1> QED BY <1>2, <1>3, <1>4

\* A draw that succeeds is the panel's draw.
LEMMA DrawRefined ==
    ASSUME DrawInv, CloseReserves, committee' # committee PROVE Panel!Draw
<1>1. /\ roster \in [Profiles -> Records] /\ rule \in Rules
      /\ draw.selected \in Seq(Profiles) /\ draw.reserves \in Seq(Profiles)
      /\ committee = NoCommittee /\ SeatsFit(draw.selected)
      /\ SelectedDiversityValid(draw.selected) /\ ReservesFit(draw.selected, draw.reserves)
  BY DEF DrawInv, Typed, DrawIsSound, CloseReserves, Draws
<1>2. /\ committee' = CreateFirstRound(draw.selected, draw.reserves)
      /\ Len(draw.reserves) = ReserveCount
  BY DEF CloseReserves
<1>3. PICK s \in Seq(Profiles), r \in Seq(Profiles) : s = draw.selected /\ r = draw.reserves
  BY <1>1
<1>4. PICK c : c = CreateFirstRound(s, r)
  OBVIOUS
<1>5. /\ SeatsFit(s) /\ ReservesFit(s, r) /\ SelectedDiversityValid(s)
      /\ Len(s) = CommitteeSize /\ Len(r) = ReserveCount
  BY <1>1, <1>2, <1>3 DEF SelectedDiversityValid
<1>6. /\ committee' = c /\ c.diversity = rule /\ c.profiles = s /\ c.reserveProfiles = r
  BY <1>2, <1>3, <1>4 DEF CreateFirstRound
<1>7. c \in Committees /\ Parallel(c) /\ KeysDiffer(c)
  BY <1>1, <1>4, <1>5, FirstRound
<1>8. PICK S, W : S = Seats(c) /\ W = Waits(c)
  OBVIOUS
<1>9. Len(S) = CommitteeSize /\ Len(W) = ReserveCount
  BY <1>5, <1>6, <1>7, <1>8, WholeMembers
<1>10. Panel!Varied(S, rule)
  BY <1>1, <1>4, <1>5, <1>8, FirstRoundVaried
<1>11. ToSet(S) \cup ToSet(W)
          \subseteq {MemberNow(p) : p \in {q \in Profiles : roster[q].active
                                            /\ ~AgentConflictsWithClaim(q)}}
  BY <1>4, <1>5, <1>8, FirstRoundMembers
<1>12. Panel!Values(W, Panel!RoleOf) = {Skeptic, Source}
  BY <1>4, <1>5, <1>8, FirstRoundMembers, BothDutiesWait
<1>13. Cardinality(Panel!Values(S \o W, Panel!OwnerOf)) = CommitteeSize + ReserveCount
  BY <1>5, <1>6, <1>7, <1>8, EveryKeyOnce
<1>14. /\ SeatedMembers = <<>> /\ SeatedMembers' = S /\ WaitingMembers' = W
       /\ (committee.diversity)' = rule
  BY <1>1, <1>6, <1>8, PanelMembers, NobodySits
<1> QED BY <1>9, <1>10, <1>11, <1>12, <1>13, <1>14, SameWords DEF Panel!Draw

\* A replacement is the panel's stepping in.
LEMMA StepInRefined ==
    ASSUME DrawInv, NEW i, NEW j, ReplaceDeclinedSeat(i, j)
    PROVE  i \in DOMAIN SeatedMembers /\ j \in DOMAIN WaitingMembers /\ Panel!StepIn(i, j)
<1>1. /\ i \in DOMAIN committee.profiles /\ j \in DOMAIN committee.reserveProfiles
      /\ Typed /\ KeysDiffer(committee)
  BY DeclinedSeat DEF ReplaceDeclinedSeat, DrawInv
<1>2. PICK c : c = TakenByReserve(i, j)
  OBVIOUS
<1>3. committee' = c
  BY <1>2 DEF ReplaceDeclinedSeat
<1>4. /\ c \in Committees /\ Parallel(c) /\ KeysDiffer(c) /\ c.diversity = committee.diversity
      /\ c.models = [committee.models EXCEPT ![i] = committee.reserveModels[j]]
      /\ c.roles = [committee.roles EXCEPT ![i] = committee.reserveRoles[j]]
  BY <1>1, <1>2, TakenFields, KeysStayApart
<1>5. /\ \A m \in ToSet(c.models) :
           Cardinality({k \in DOMAIN c.models : c.models[k] = m}) <= committee.diversity.perModel
      /\ Cardinality(ToSet(c.models)) >= committee.diversity.required
      /\ {Skeptic, Source} \subseteq ToSet(c.roles)
  BY <1>4 DEF ReplaceDeclinedSeat, ReplacementPreservesDiversity
<1>6. Panel!Varied(Seats(c), committee.diversity)
  BY <1>4, <1>5, VariedSeats
<1>7. /\ Seats(c) = [Seats(committee) EXCEPT ![i] = Waits(committee)[j]]
      /\ Waits(c) = RemoveAt(Waits(committee), j)
  BY <1>1, <1>2, WholeReserveMoves
<1>8. i \in DOMAIN Seats(committee) /\ j \in DOMAIN Waits(committee)
  BY <1>1, WholeMembers DEF Typed
<1> QED BY <1>3, <1>4, <1>6, <1>7, <1>8, PanelMembers, SameWords DEF Panel!StepIn

\* Every other step leaves the panel as it is.
LEMMA PanelStep ==
    DrawInv /\ [Next]_vars
       => [Panel!PanelNext]_<<SeatedMembers, WaitingMembers, committee.diversity>>
<1> SUFFICES ASSUME DrawInv, [Next]_vars
             PROVE  \/ Panel!PanelNext
                    \/ UNCHANGED <<SeatedMembers, WaitingMembers, committee.diversity>>
  OBVIOUS
<1>1. ASSUME committee' = committee
      PROVE  UNCHANGED <<SeatedMembers, WaitingMembers, committee.diversity>>
  BY <1>1, PanelMembers
<1>2. ASSUME NEW i \in 1 .. CommitteeSize, NEW j \in 1 .. ReserveCount, ReplaceDeclinedSeat(i, j)
      PROVE  Panel!PanelNext
  BY <1>2, StepInRefined DEF Panel!PanelNext
<1>3. CASE CloseReserves /\ committee' # committee
  BY <1>3, DrawRefined DEF Panel!PanelNext
<1>4. \/ committee' = committee
      \/ CloseReserves
      \/ \E i \in 1 .. CommitteeSize, j \in 1 .. ReserveCount : ReplaceDeclinedSeat(i, j)
  BY DEF Next, vars, SetJuryDiversity, UpdateAgentManifest, DeprecateAgent, Change, DrawSeat,
         DrawReserve, StartDraw, CloseSeats, DeclineJurySeat
<1> QED BY <1>1, <1>2, <1>3, <1>4

\* The draw and its replacements seat the panel that is promised (jury.move:
\* select_committee, replacement_preserves_diversity): whole members, taken from the
\* candidates of the moment, one seat per signing key, varied by the rule of their own
\* draw, whatever the registry has become since.
THEOREM PanelKept == Spec => SeatsAVariedPanel
<1>1. Init => Panel!PanelInit
  BY PanelMembers, NobodySits DEF Init, Panel!PanelInit
<1>2. DrawInv /\ [Next]_vars
         => [Panel!PanelNext]_<<SeatedMembers, WaitingMembers, committee.diversity>>
  BY PanelStep
<1> QED BY <1>1, <1>2, DrawInvariant, PTL DEF Spec, SeatsAVariedPanel, Panel!PanelSpec
\* Every vector of a committee has the length of its seats or of its reserves (types.move:
\* Committee, CommitteePolicy and CommitteePayouts are read by one index), and the counters
\* of a draw stay below their limits.
THEOREM DrawTypes == Spec => []TypeOK
<1>1. DrawInv => TypeOK
  <2> SUFFICES ASSUME DrawInv PROVE TypeOK
    OBVIOUS
  <2>1. roster \in [Profiles -> Records]
    BY DEF DrawInv, Typed
  <2>2. roster \in [Profiles -> [model : {roster[p].model : p \in Profiles},
                                 role : {roster[p].role : p \in Profiles}, active : BOOLEAN]]
    <3>1. roster = [p \in Profiles |-> roster[p]]
      BY <2>1
    <3>2. ASSUME NEW p \in Profiles
          PROVE  roster[p] \in [model : {roster[q].model : q \in Profiles},
                                role : {roster[q].role : q \in Profiles}, active : BOOLEAN]
      <4>1. PICK x \in Records : x = roster[p]
        BY <2>1
      <4>2. /\ x.model \in {roster[q].model : q \in Profiles}
            /\ x.role \in {roster[q].role : q \in Profiles} /\ x.active \in BOOLEAN
        BY <4>1 DEF Records
      <4> HIDE DEF Records
      <4>3. x = [model |-> x.model, role |-> x.role, active |-> x.active]
        BY DEF Records
      <4>4. PICK A, B : /\ A = {roster[q].model : q \in Profiles}
                        /\ B = {roster[q].role : q \in Profiles}
        OBVIOUS
      <4>5. x \in [model : A, role : B, active : BOOLEAN]
        BY <4>2, <4>3, <4>4
      <4> QED BY <4>1, <4>4, <4>5
    <3> QED BY <3>1, <3>2
  <2>3. /\ rule \in [required : {2, 3}, perModel : {2, 3}]
        /\ draw.stage \in {"NONE", "SEATS", "RESERVES", "ABORTED"}
        /\ draw.selected \in Seq(Profiles) /\ draw.reserves \in Seq(Profiles)
        /\ draw.attempts \in 0 .. MaxDraws /\ draw.stalls \in 0 .. RestartAfterStalls - 1
    BY DEF DrawInv, Typed, Rules, Draws
  <2>4. /\ committee.profiles \in Seq(Profiles) /\ committee.reserveProfiles \in Seq(Profiles)
    BY DEF DrawInv, Typed, Committees
  <2>5. Len(committee.profiles) \in {0, CommitteeSize}
    <3>1. Len(NoCommittee.profiles) = 0
      BY DEF NoCommittee
    <3> QED BY <3>1 DEF DrawInv
  <2>6. /\ {Len(committee.owners), Len(committee.models), Len(committee.roles),
            Len(committee.payouts)} = {Len(committee.profiles)}
        /\ {Len(committee.reserveOwners), Len(committee.reserveModels),
            Len(committee.reserveRoles), Len(committee.reservePayouts)}
              = {Len(committee.reserveProfiles)}
    BY DEF DrawInv, Typed, Parallel
  <2>7. /\ declined \subseteq DOMAIN committee.profiles
        /\ changes \in 0 .. MaxChanges /\ declines \in 0 .. MaxDeclines
    BY DEF DrawInv, Typed
  <2> QED BY <2>2, <2>3, <2>4, <2>5, <2>6, <2>7 DEF TypeOK
<1> QED BY <1>1, DrawInvariant, PTL

-----------------------------------------------------------------------------
(* Tickets left                                                            *)

\* The values of n places are finitely many.
LEMMA FiniteValues ==
    ASSUME NEW n \in Nat, NEW s
    PROVE  IsFiniteSet({s[i] : i \in 1 .. n})
<1> DEFINE V == {s[i] : i \in 1 .. n}
           f == [i \in 1 .. n |-> s[i]]
<1>1. f \in [1 .. n -> V] /\ \A v \in V : \E i \in 1 .. n : f[i] = v
  OBVIOUS
<1>2. f \in Surjection(1 .. n, V)
  <2> HIDE DEF f, V
  <2> QED BY <1>1 DEF Surjection
<1>3. IsFiniteSet(1 .. n)
  <2>1. 1 \in Int /\ n \in Int
    OBVIOUS
  <2> QED BY <2>1, FS_Interval
<1> HIDE DEF V, f
<1>4. IsFiniteSet(V)
  BY <1>2, <1>3, FS_Surjection
<1> QED BY <1>4 DEF V

\* One or two values are two that may be one.
LEMMA OneOrTwo ==
    ASSUME NEW V, IsFiniteSet(V), V # {}, Cardinality(V) <= 2
    PROVE  \E a, b \in V : V = {a, b}
<1>1. PICK a : a \in V
  OBVIOUS
<1>2. /\ IsFiniteSet(V \ {a}) /\ Cardinality(V \ {a}) = Cardinality(V) - 1
      /\ Cardinality(V) \in Nat
  BY <1>1, FS_RemoveElement, FS_CardinalityType
<1>3. CASE V \ {a} = {}
  BY <1>1, <1>3
<1>4. CASE V \ {a} # {}
  <2>1. PICK b : b \in V \ {a}
    BY <1>4
  <2>2. /\ IsFiniteSet((V \ {a}) \ {b})
        /\ Cardinality((V \ {a}) \ {b}) = Cardinality(V \ {a}) - 1
        /\ Cardinality((V \ {a}) \ {b}) \in Nat
    BY <1>2, <2>1, FS_RemoveElement, FS_CardinalityType
  <2>3. Cardinality((V \ {a}) \ {b}) = 0
    BY <1>2, <2>2
  <2>4. (V \ {a}) \ {b} = {}
    BY <2>2, <2>3, FS_EmptySet
  <2> QED BY <1>1, <2>1, <2>4
<1> QED BY <1>3, <1>4

\* Two values that occur at most cap times each fill at most 2 * cap places.
LEMMA TwoValuesFill ==
    ASSUME NEW n \in Nat, NEW s, DOMAIN s = 1 .. n, NEW a, NEW b, NEW cap \in Nat,
           \A i \in 1 .. n : s[i] \in {a, b}, Occurrences(s, a) <= cap, Occurrences(s, b) <= cap
    PROVE  n <= 2 * cap /\ (a = b => n <= cap)
<1> DEFINE A == {i \in DOMAIN s : s[i] = a}
           B == {i \in DOMAIN s : s[i] = b}
<1>1. IsFiniteSet(1 .. n) /\ Cardinality(1 .. n) = n
  <2>1. 1 \in Int /\ n \in Int
    OBVIOUS
  <2>2. 1 .. n = {} \/ n >= 1
    OBVIOUS
  <2> QED BY <2>1, <2>2, FS_Interval
<1>2. A \subseteq 1 .. n /\ B \subseteq 1 .. n /\ A \cup B = 1 .. n /\ (a = b => A = 1 .. n)
  OBVIOUS
<1>3. Cardinality(A) <= cap /\ Cardinality(B) <= cap
  BY DEF Occurrences
<1> HIDE DEF A, B
<1>4. /\ IsFiniteSet(A) /\ IsFiniteSet(B) /\ IsFiniteSet(A \cap B)
      /\ Cardinality(A) \in Nat /\ Cardinality(B) \in Nat /\ Cardinality(A \cap B) \in Nat
  <2>1. A \cap B \subseteq 1 .. n
    BY <1>2
  <2> QED BY <1>1, <1>2, <2>1, FS_Subset, FS_CardinalityType
<1>5. n = Cardinality(A) + Cardinality(B) - Cardinality(A \cap B)
  BY <1>1, <1>2, <1>4, FS_Union
<1> QED BY <1>1, <1>2, <1>3, <1>4, <1>5

\* Where the caps force variety, a full set of accepted seats is valid.
LEMMA FullSeatsAreValid ==
    ASSUME NEW s \in Seq(Profiles), SeatsFit(s), Len(s) = CommitteeSize, rule \in Rules,
           CapsForceVariety
    PROVE  SelectedDiversityValid(s)
<1>1. PICK n \in Nat : n = CommitteeSize /\ n # 0
  BY SizesAssumption
<1>2. DOMAIN s = 1 .. n /\ \A i \in 1 .. n : s[i] \in Profiles
  BY <1>1, SequenceFacts
<1>3. PICK ms, rs : ms = Each(s, ModelNow) /\ rs = Each(s, RoleNow)
  OBVIOUS
<1>4. /\ DOMAIN ms = 1 .. n /\ DOMAIN rs = 1 .. n
      /\ \A i \in 1 .. n : ms[i] = ModelNow(s[i]) /\ rs[i] = RoleNow(s[i])
  BY <1>2, <1>3 DEF Each
<1>5. \A i \in 1 .. n : /\ Occurrences(ms, ms[i]) <= rule.perModel
                        /\ Occurrences(rs, rs[i]) <= MaxPerRole
                        /\ rs[i] \in {Skeptic, Source}
  <2> TAKE i \in 1 .. n
  <2>1. /\ CountModel(s, ModelNow(s[i])) <= rule.perModel
        /\ CountRole(s, RoleNow(s[i])) <= MaxPerRole /\ MayBeDrawn(s[i])
    BY <1>2 DEF SeatsFit
  <2>2. RoleNow(s[i]) \in {Skeptic, Source}
    BY <1>2, <2>1 DEF CapsForceVariety, MayBeDrawn
  <2>3. /\ CountModel(s, ModelNow(s[i])) = Occurrences(ms, ModelNow(s[i]))
        /\ CountRole(s, RoleNow(s[i])) = Occurrences(rs, RoleNow(s[i]))
    BY <1>3, CountsAreOccurrences
  <2> QED BY <1>4, <2>1, <2>2, <2>3
<1>6. /\ ValuesOf(s, ModelNow) = {ms[i] : i \in 1 .. n}
      /\ ValuesOf(s, RoleNow) = {rs[i] : i \in 1 .. n}
  BY <1>2, <1>4 DEF ValuesOf
<1>7. Cardinality(ValuesOf(s, ModelNow)) >= rule.required
  <2> DEFINE V == {ms[i] : i \in 1 .. n}
  <2>1. IsFiniteSet(V) /\ Cardinality(V) \in Nat
    BY FiniteValues, FS_CardinalityType
  <2>2. V # {} /\ \A i \in 1 .. n : ms[i] \in V
    BY <1>1
  <2>3. \A v \in V : Occurrences(ms, v) <= rule.perModel
    BY <1>5
  <2> HIDE DEF V
  <2>4. PICK req \in {2, 3}, cap \in {2, 3} : req = rule.required /\ cap = rule.perModel
    BY DEF Rules
  <2>5. cap * (req - 1) < n
    BY <1>1, <2>4 DEF CapsForceVariety
  <2>6. ASSUME Cardinality(V) < req PROVE FALSE
    <3>1. Cardinality(V) <= 2
      BY <2>1, <2>6
    <3>2. PICK a \in V, b \in V : V = {a, b}
      BY <2>1, <2>2, <3>1, OneOrTwo
    <3>3. cap \in Nat /\ Occurrences(ms, a) <= cap /\ Occurrences(ms, b) <= cap
      BY <2>3, <2>4
    <3>4. n <= 2 * cap /\ (a = b => n <= cap)
      BY <1>4, <2>2, <3>2, <3>3, TwoValuesFill
    <3>5. CASE req = 3
      BY <2>5, <3>4, <3>5
    <3>6. CASE req = 2
      <4>1. a = b
        <5>1. b \in V \ {a} => Cardinality(V \ {a}) # 0
          BY <2>1, FS_RemoveElement, FS_EmptySet
        <5>2. Cardinality(V \ {a}) = Cardinality(V) - 1
          BY <2>1, FS_RemoveElement
        <5>3. Cardinality(V) <= 1
          BY <2>1, <2>6, <3>6
        <5>4. Cardinality(V \ {a}) \in Nat
          BY <2>1, FS_RemoveElement, FS_CardinalityType
        <5> QED BY <2>1, <5>1, <5>2, <5>3, <5>4
      <4> QED BY <2>5, <3>4, <3>6, <4>1
    <3> QED BY <3>5, <3>6
  <2> QED BY <1>6, <2>1, <2>4, <2>6 DEF V
<1>8. ASSUME NEW here \in {Skeptic, Source}, here \notin ValuesOf(s, RoleNow) PROVE FALSE
  <2>1. PICK other : other \in {Skeptic, Source} /\ \A x \in {Skeptic, Source} : x = here \/ x = other
    OBVIOUS
  <2>2. \A i \in 1 .. n : rs[i] = other
    BY <1>5, <1>6, <1>8, <2>1
  <2>3. Occurrences(rs, other) <= MaxPerRole
    <3>1. 1 \in 1 .. n
      BY <1>1
    <3> QED BY <1>5, <2>2, <3>1
  <2>4. n <= MaxPerRole
    <3>1. \A i \in 1 .. n : rs[i] \in {other, other}
      BY <2>2
    <3>2. MaxPerRole \in Nat
      BY SizesAssumption
    <3> QED BY <1>4, <2>3, <3>1, <3>2, TwoValuesFill
  <2> QED BY <1>1, <2>4, SizesAssumption DEF CapsForceVariety
<1> QED BY <1>7, <1>8 DEF SelectedDiversityValid

\* Where the caps force variety, a draw that gives up has used all its tickets
\* (jury.move, select_committee: the two loops and the assertions after them).
THEOREM DrawPersists == Spec => DrawKeepsTrying
<1>1. ASSUME DrawInv, [Next]_vars, draw.stage # "ABORTED", draw'.stage = "ABORTED",
             CapsForceVariety
      PROVE  draw.attempts = MaxDraws
  <2>1. CASE CloseSeats
    <3>1. /\ draw.selected \in Seq(Profiles) /\ SeatsFit(draw.selected)
          /\ rule \in Rules /\ draw \in Draws
      BY <1>1, <2>1 DEF DrawInv, Typed, DrawIsSound, CloseSeats, Draws
    <3>2. ~SelectedDiversityValid(draw.selected)
      <4>1. ASSUME draw' = [draw EXCEPT !.stage = "RESERVES", !.stalls = 0] PROVE FALSE
        <5>1. draw'.stage = "RESERVES"
          BY <3>1, <4>1 DEF Draws
        <5> QED BY <1>1, <5>1
      <4> QED BY <2>1, <4>1 DEF CloseSeats
    <3>3. Len(draw.selected) = CommitteeSize \/ draw.attempts = MaxDraws
      BY <2>1 DEF CloseSeats
    <3> QED BY <1>1, <3>1, <3>2, <3>3, FullSeatsAreValid
  <2>2. CASE CloseReserves
    <3>1. CASE draw' = NoDraw
      BY <1>1, <3>1, NoDrawTyped
    <3>2. CASE Len(draw.reserves) < ReserveCount
      <4>1. draw.reserves \in Seq(Profiles) /\ Len(draw.reserves) \in Nat
        BY <1>1, SequenceFacts DEF DrawInv, Typed, Draws
      <4> QED BY <2>2, <3>2, <4>1, SizesAssumption DEF CloseReserves
    <3> QED BY <2>2, <3>1, <3>2 DEF CloseReserves
  <2>3. ASSUME NEW p \in Profiles, DrawSeat(p) \/ DrawReserve(p) PROVE FALSE
    <3>1. draw'.stage = draw.stage
      BY <1>1, <2>3, TicketFields DEF DrawSeat, DrawReserve, DrawInv
    <3> QED BY <1>1, <3>1
  <2>4. CASE StartDraw
    <3>1. PICK d \in Draws : d = NoDraw
      BY NoDrawTyped
    <3>2. draw'.stage = "SEATS"
      BY <2>4, <3>1 DEF StartDraw, Draws
    <3> QED BY <1>1, <3>2
  <2>5. CASE draw' = draw
    BY <1>1, <2>5
  <2> QED BY <1>1, <2>1, <2>2, <2>3, <2>4, <2>5
          DEF Next, vars, SetJuryDiversity, UpdateAgentManifest, DeprecateAgent, Change,
              DeclineJurySeat, ReplaceDeclinedSeat
<1>2. DrawInv /\ [Next]_vars
         => [draw.stage # "ABORTED" /\ draw'.stage = "ABORTED" /\ CapsForceVariety
                => draw.attempts = MaxDraws]_vars
  BY <1>1
<1> QED BY <1>2, DrawInvariant, PTL DEF Spec, DrawKeepsTrying
=============================================================================
