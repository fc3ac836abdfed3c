---------------------------- MODULE AttemptProofs ----------------------------
(***************************************************************************)
(* Proofs about VerificationAttempts: however many statements, replicas,   *)
(* calls of voidAttempt and faults there are, the attempts of a            *)
(* verification stay one ladder, and each climbs it.                       *)
(***************************************************************************)
EXTENDS VerificationAttempts, TLAPS, FiniteSetTheorems

Stages == {"IDLE", "NEXT", "LOOK", "LAUNCH", "CREATED", "SAVED", "ROWED", "LINKED"}
Listing == [claim : Claims, row : Rows]
Ticks == [pc : Stages, todo : SUBSET Listing, cur : Claims \cup {None}, copy : Rows,
          child : Claims \cup {None}]
Types == TypeOK /\ replica \in [Replicas -> Ticks]

\* What has become of a claim that is not certified any more, or was in vain, and of one
\* that failed.
Lost == {"FAILING", "BOTH"}
Failed == Lost \cup {"TORN"}

\* Only the attempt at a failed claim is voided, and given up only when it is lost.
FailedRow(row, f) ==
    /\ row.status = "VOIDED" => f \in Failed
    /\ row.status = "GAVE_UP" => f \in Lost

\* What never changes of a row.
Same(row, other) ==
    /\ row.verification = other.verification /\ row.attempt = other.attempt
    /\ row.parent = other.parent

\* d is recorded as the attempt after c's.
Continues(d, c) ==
    /\ HasRow(d)
    /\ attemptRow[d].verification = attemptRow[c].verification
    /\ attemptRow[d].parent = c
    /\ attemptRow[d].attempt = attemptRow[c].attempt + 1

\* A row is of a saved claim; a first attempt starts a verification of its own; a link
\* points to the attempt that continues this one; a voided claim is a failed one, and
\* when it is continued it is lost.
RowsAreSound ==
    \A c \in Claims : HasRow(c) =>
        /\ c \in claimRow
        /\ attemptRow[c].verification \in Claims /\ attemptRow[c].attempt >= 1
        /\ attemptRow[c].attempt = 1 => attemptRow[c].verification = c
        /\ attemptRow[c].attempt > 1 => attemptRow[c].parent \in Claims
                                        /\ HasRow(attemptRow[c].parent)
                                        /\ fate[attemptRow[c].parent] \in Lost
        /\ attemptRow[c].relaunchedAs # None =>
               /\ attemptRow[c].status = "VOIDED"
               /\ attemptRow[c].relaunchedAs \in Claims
               /\ Continues(attemptRow[c].relaunchedAs, c)
        /\ FailedRow(attemptRow[c], fate[c])

DecidedIsSaved == \A c \in Claims : fate[c] # "OPEN" => c \in claimRow

\* A call of voidAttempt holds an unlinked copy of the row of a failed claim.
HoldsCopy(v) ==
    voider[v] # NotVoiding =>
        /\ voider[v].claim \in Claims /\ HasRow(voider[v].claim)
        /\ fate[voider[v].claim] \in Failed
        /\ voider[v].copy.status = "ACTIVE" /\ voider[v].copy.relaunchedAs = None
        /\ Same(voider[v].copy, attemptRow[voider[v].claim])
VoidersHoldCopies == \A v \in Voiders : HoldsCopy(v)

\* A tick's copy of a row is that of a voided attempt, before it was linked, at a claim
\* that is lost.
Listed(c, row) ==
    /\ c \in Claims /\ HasRow(c) /\ attemptRow[c].status = "VOIDED" /\ fate[c] \in Lost
    /\ row.status = "VOIDED" /\ row.relaunchedAs = None
    /\ Same(row, attemptRow[c])

Launching(w) == replica[w].pc \in {"LAUNCH", "CREATED", "SAVED"}

\* Between the question for a successor and its row nobody else makes one, and the claim
\* of a launch has no row before its own.
TickIsSound(w) ==
    /\ replica[w].pc = "IDLE" => replica[w] = Idle
    /\ \A t \in replica[w].todo : Listed(t.claim, t.row)
    /\ \A s, t \in replica[w].todo : s.claim = t.claim => s = t
    /\ replica[w].pc \notin {"IDLE", "NEXT"} =>
           /\ Listed(replica[w].cur, replica[w].copy)
           /\ \A t \in replica[w].todo : t.claim # replica[w].cur
    /\ Launching(w) => Successors(w) = {} /\ replica[w].copy.attempt < MaxAttempts
    /\ replica[w].pc \in {"CREATED", "SAVED"} =>
           /\ replica[w].child \in onChain /\ ~HasRow(replica[w].child)
           /\ fate[replica[w].child] = "OPEN"
    /\ replica[w].pc = "CREATED" => replica[w].child \notin claimRow
    /\ replica[w].pc = "SAVED" => replica[w].child \in claimRow
    /\ replica[w].pc \in {"ROWED", "LINKED"} => replica[w].child \in Successors(w)
TicksAreSound == \A w \in Replicas : TickIsSound(w)

LadderInv ==
    /\ Types /\ RowsAreSound /\ OneLadder /\ DecidedIsSaved
    /\ VoidersHoldCopies /\ TicksAreSound

-----------------------------------------------------------------------------
(* The three ways to write a row                                           *)

\* The numbers of an instance.
LEMMA Sizes ==
    /\ None \notin Claims /\ MaxAttempts \in Nat /\ MaxAttempts >= 1 /\ GiveUpAfter \in Nat
    /\ MaxFaults \in Nat /\ Claims \subseteq Nat
BY SizesAssumption

\* An attempt is continued at most once, and what is continued stays voided.
LEMMA OneContinues ==
    ASSUME Types, RowsAreSound, OneLadder, NEW c \in Claims, HasRow(c),
           NEW d \in Claims, Continues(d, c)
    PROVE  /\ attemptRow[c].status = "VOIDED" /\ attemptRow[c].relaunchedAs \in {None, d}
           /\ d # c /\ fate[c] \in Lost
           /\ \A e \in Claims : Continues(e, c) => e = d
<1>1. attemptRow[c].attempt \in Nat /\ attemptRow[d].attempt = attemptRow[c].attempt + 1
  BY DEF Types, TypeOK, Rows, Continues
<1>2. attemptRow[d].attempt > 1
  BY <1>1 DEF RowsAreSound
<1>3. HasRow(d) /\ attemptRow[d].parent = c
  BY DEF Continues
<1>4. attemptRow[c].status = "VOIDED" /\ attemptRow[c].relaunchedAs \in {None, d}
  BY <1>2, <1>3 DEF OneLadder
<1>5. ASSUME NEW e \in Claims, Continues(e, c) PROVE e = d
  BY <1>3, <1>5 DEF OneLadder, Continues
<1>6. d # c
  BY <1>1
<1>7. fate[c] \in Lost
  BY <1>2, <1>3 DEF RowsAreSound
<1> QED BY <1>4, <1>5, <1>6, <1>7

\* Conversely a later attempt continues its parent.
LEMMA LaterContinues ==
    ASSUME Types, RowsAreSound, OneLadder, NEW d \in Claims, HasRow(d),
           attemptRow[d].attempt > 1
    PROVE  /\ attemptRow[d].parent \in Claims /\ HasRow(attemptRow[d].parent)
           /\ fate[attemptRow[d].parent] \in Lost
           /\ Continues(d, attemptRow[d].parent)
<1>1. /\ attemptRow[d].parent \in Claims /\ HasRow(attemptRow[d].parent)
      /\ fate[attemptRow[d].parent] \in Lost
  BY DEF RowsAreSound
<1>2. /\ attemptRow[attemptRow[d].parent].verification = attemptRow[d].verification
      /\ attemptRow[attemptRow[d].parent].attempt = attemptRow[d].attempt - 1
  BY DEF OneLadder
<1>3. attemptRow[d].attempt \in Nat
  BY DEF Types, TypeOK, Rows
<1> QED BY <1>1, <1>2, <1>3 DEF Continues

\* A row written again keeps its place; if it is continued it stays voided and is linked
\* to no other attempt.
Rewrites(c, row) ==
    /\ HasRow(c) /\ row \in Rows /\ row.status # "NONE" /\ Same(row, attemptRow[c])
    /\ (\E d \in Claims : Continues(d, c)) => row.status = "VOIDED"
    /\ row.relaunchedAs # None =>
           /\ row.status = "VOIDED" /\ row.relaunchedAs \in Claims
           /\ Continues(row.relaunchedAs, c)
    /\ attemptRow' = [attemptRow EXCEPT ![c] = row]

\* Rewriting the status of a row continues nothing else.
LEMMA RewriteKeepsContinues ==
    ASSUME Types, NEW c \in Claims, NEW row, Rewrites(c, row)
    PROVE  /\ \A d \in Claims : HasRow(d)' <=> HasRow(d)
           /\ \A d \in Claims : Same(attemptRow'[d], attemptRow[d])
           /\ \A d, e \in Claims : Continues(d, e)' <=> Continues(d, e)
<1>1. \A d \in Claims : attemptRow'[d] = IF d = c THEN row ELSE attemptRow[d]
  BY DEF Rewrites, Types, TypeOK
<1>2. \A d \in Claims : (HasRow(d)' <=> HasRow(d)) /\ Same(attemptRow'[d], attemptRow[d])
  BY <1>1 DEF Rewrites, HasRow, Same
<1> QED BY <1>2 DEF Continues, Same

\* A failed claim stays failed, and a lost one lost.
FatesStay ==
    \A c \in Claims : /\ fate[c] \in Failed => fate'[c] \in Failed
                      /\ fate[c] \in Lost => fate'[c] \in Lost

\* Rewriting the status of a row keeps the ladder.
LEMMA RewriteKeepsLadder ==
    ASSUME Types, RowsAreSound, OneLadder, NEW c \in Claims, NEW row, Rewrites(c, row),
           claimRow \subseteq claimRow',
           FatesStay, FailedRow(row, fate'[c])
    PROVE  RowsAreSound' /\ OneLadder'
<1>1. \A d \in Claims : attemptRow'[d] = IF d = c THEN row ELSE attemptRow[d]
  BY DEF Rewrites, Types, TypeOK
<1>2. /\ \A d \in Claims : HasRow(d)' <=> HasRow(d)
      /\ \A d \in Claims : Same(attemptRow'[d], attemptRow[d])
      /\ \A d, e \in Claims : Continues(d, e)' <=> Continues(d, e)
  BY RewriteKeepsContinues
<1>3. RowsAreSound'
  <2> SUFFICES ASSUME NEW d \in Claims, HasRow(d)'
               PROVE  /\ d \in claimRow'
                      /\ attemptRow'[d].verification \in Claims /\ attemptRow'[d].attempt >= 1
                      /\ attemptRow'[d].attempt = 1 => attemptRow'[d].verification = d
                      /\ attemptRow'[d].attempt > 1 => attemptRow'[d].parent \in Claims
                                                      /\ HasRow(attemptRow[d].parent)'
                                                      /\ fate'[attemptRow'[d].parent] \in Lost
                      /\ attemptRow'[d].relaunchedAs # None =>
                             /\ attemptRow'[d].status = "VOIDED"
                             /\ attemptRow'[d].relaunchedAs \in Claims
                             /\ Continues(attemptRow[d].relaunchedAs, d)'
                      /\ FailedRow(attemptRow'[d], fate'[d])
    BY DEF RowsAreSound
  <2>1. /\ d \in claimRow'
        /\ attemptRow'[d].verification \in Claims /\ attemptRow'[d].attempt >= 1
        /\ attemptRow'[d].attempt = 1 => attemptRow'[d].verification = d
    BY <1>2 DEF RowsAreSound, Same
  <2>2. attemptRow'[d].attempt > 1 => attemptRow'[d].parent \in Claims
                                      /\ HasRow(attemptRow[d].parent)'
                                      /\ fate'[attemptRow'[d].parent] \in Lost
    BY <1>2 DEF RowsAreSound, Same, HasRow, FatesStay
  <2>3. attemptRow'[d].relaunchedAs # None =>
           /\ attemptRow'[d].status = "VOIDED"
           /\ attemptRow'[d].relaunchedAs \in Claims
           /\ Continues(attemptRow[d].relaunchedAs, d)'
    <3>1. CASE d = c
      <4>1. attemptRow'[d] = row
        BY <1>1, <3>1
      <4>2. row.relaunchedAs # None => /\ row.status = "VOIDED" /\ row.relaunchedAs \in Claims
                                       /\ Continues(row.relaunchedAs, d)
        BY <3>1 DEF Rewrites
      <4> QED BY <1>2, <4>1, <4>2 DEF Continues, HasRow, Same
    <3>2. CASE d # c
      <4>1. attemptRow'[d] = attemptRow[d]
        BY <1>1, <3>2
      <4>2. attemptRow[d].relaunchedAs # None =>
               /\ attemptRow[d].status = "VOIDED" /\ attemptRow[d].relaunchedAs \in Claims
               /\ Continues(attemptRow[d].relaunchedAs, d)
        BY <1>2 DEF RowsAreSound
      <4> QED BY <1>2, <4>1, <4>2 DEF Continues, HasRow, Same
    <3> QED BY <3>1, <3>2
  <2>4. FailedRow(attemptRow'[d], fate'[d])
    BY <1>1, <1>2 DEF RowsAreSound, FatesStay, FailedRow
  <2> QED BY <2>1, <2>2, <2>3, <2>4
<1>4. OneLadder'
  <2> SUFFICES ASSUME NEW d \in Claims, HasRow(d)'
               PROVE  /\ \A e \in Claims \ {d} :
                             HasRow(e)' /\ attemptRow'[e].verification = attemptRow'[d].verification
                             => attemptRow'[e].attempt # attemptRow'[d].attempt
                      /\ attemptRow'[d].attempt > 1 =>
                             LET parent == attemptRow'[attemptRow'[d].parent]
                             IN  /\ parent.verification = attemptRow'[d].verification
                                 /\ parent.attempt = attemptRow'[d].attempt - 1
                                 /\ parent.status = "VOIDED"
                                 /\ parent.relaunchedAs \in {None, d}
    BY DEF OneLadder
  <2>1. ASSUME NEW e \in Claims \ {d}, HasRow(e)',
               attemptRow'[e].verification = attemptRow'[d].verification
        PROVE  attemptRow'[e].attempt # attemptRow'[d].attempt
    BY <1>2, <2>1 DEF OneLadder, Same
  <2>2. ASSUME attemptRow'[d].attempt > 1
        PROVE  LET parent == attemptRow'[attemptRow'[d].parent]
               IN  /\ parent.verification = attemptRow'[d].verification
                   /\ parent.attempt = attemptRow'[d].attempt - 1
                   /\ parent.status = "VOIDED"
                   /\ parent.relaunchedAs \in {None, d}
    <3> DEFINE p == attemptRow[d].parent
    <3>1. /\ HasRow(d) /\ attemptRow[d].attempt > 1 /\ attemptRow'[d].parent = p
          /\ attemptRow'[d].verification = attemptRow[d].verification
          /\ attemptRow'[d].attempt = attemptRow[d].attempt
      BY <1>2, <2>2 DEF Same
    <3>2. p \in Claims /\ HasRow(p) /\ Continues(d, p)
      BY <3>1, LaterContinues
    <3>3. /\ attemptRow[p].verification = attemptRow[d].verification
          /\ attemptRow[p].attempt = attemptRow[d].attempt - 1
          /\ attemptRow[p].status = "VOIDED" /\ attemptRow[p].relaunchedAs \in {None, d}
      BY <3>1 DEF OneLadder
    <3>4. attemptRow'[p].verification = attemptRow[p].verification
          /\ attemptRow'[p].attempt = attemptRow[p].attempt
      BY <1>2, <3>2 DEF Same
    <3>5. attemptRow'[p].status = "VOIDED" /\ attemptRow'[p].relaunchedAs \in {None, d}
      <4>1. CASE p = c
        <5>1. attemptRow'[p] = row
          BY <1>1, <3>2, <4>1
        <5>2. row.status = "VOIDED"
          BY <3>2, <4>1 DEF Rewrites
        <5>3. row.relaunchedAs # None => row.relaunchedAs \in Claims /\ Continues(row.relaunchedAs, p)
          BY <4>1 DEF Rewrites
        <5>4. row.relaunchedAs # None => row.relaunchedAs = d
          BY <3>2, <5>3, OneContinues
        <5> QED BY <5>1, <5>2, <5>4
      <4>2. CASE p # c
        BY <1>1, <3>2, <3>3, <4>2
      <4> QED BY <4>1, <4>2
    <3> QED BY <3>1, <3>3, <3>4, <3>5
  <2> QED BY <2>1, <2>2
<1> QED BY <1>3, <1>4

\* The first row of a claim: an attempt of its own.
Starts(c, row) ==
    /\ ~HasRow(c) /\ row \in Rows /\ row.status \in {"ACTIVE", "SETTLED"}
    /\ row.verification = c /\ row.attempt = 1 /\ row.relaunchedAs = None
    /\ attemptRow' = [attemptRow EXCEPT ![c] = row]

\* The row of a relaunched claim, of an attempt nobody continues.
Extends(c, p, row) ==
    /\ ~HasRow(c) /\ row \in Rows /\ row.status = "ACTIVE" /\ row.relaunchedAs = None
    /\ p \in Claims /\ HasRow(p) /\ attemptRow[p].status = "VOIDED" /\ fate[p] \in Lost
    /\ row.verification = attemptRow[p].verification /\ row.parent = p
    /\ row.attempt = attemptRow[p].attempt + 1
    /\ \A d \in Claims : ~Continues(d, p)
    /\ attemptRow' = [attemptRow EXCEPT ![c] = row]

\* What both do: the other rows stay, and nobody continues a claim that had no row.
LEMMA NewRowKeepsRows ==
    ASSUME Types, RowsAreSound, OneLadder, NEW c \in Claims, ~HasRow(c),
           NEW row, row.status # "NONE", attemptRow' = [attemptRow EXCEPT ![c] = row]
    PROVE  /\ \A d \in Claims : attemptRow'[d] = IF d = c THEN row ELSE attemptRow[d]
           /\ \A d \in Claims : HasRow(d)' <=> HasRow(d) \/ d = c
           /\ \A d, e \in Claims : HasRow(e) /\ Continues(d, e) => Continues(d, e)'
<1>1. \A d \in Claims : attemptRow'[d] = IF d = c THEN row ELSE attemptRow[d]
  BY DEF Types, TypeOK
<1>2. \A d \in Claims : HasRow(d)' <=> HasRow(d) \/ d = c
  BY <1>1 DEF HasRow
<1>3. ASSUME NEW d \in Claims, NEW e \in Claims, HasRow(e), Continues(d, e)
      PROVE  Continues(d, e)'
  <2>1. HasRow(d) /\ d # c /\ e # c
    BY <1>3 DEF Continues
  <2>2. attemptRow'[d] = attemptRow[d] /\ attemptRow'[e] = attemptRow[e] /\ HasRow(d)'
    BY <1>1, <1>2, <2>1
  <2> QED BY <1>3, <2>2 DEF Continues
<1> QED BY <1>1, <1>2, <1>3

\* A new row at either end keeps the rows sound.
LEMMA NewRowKeepsSound ==
    ASSUME Types, RowsAreSound, OneLadder, NEW c \in Claims, NEW row,
           Starts(c, row) \/ \E p : Extends(c, p, row),
           claimRow \subseteq claimRow', c \in claimRow',
           FatesStay
    PROVE  RowsAreSound'
<1>0. ~HasRow(c) /\ row \in Rows /\ row.status # "NONE" /\ row.relaunchedAs = None
      /\ attemptRow' = [attemptRow EXCEPT ![c] = row]
  BY DEF Starts, Extends
<1>1. /\ \A d \in Claims : attemptRow'[d] = IF d = c THEN row ELSE attemptRow[d]
      /\ \A d \in Claims : HasRow(d)' <=> HasRow(d) \/ d = c
      /\ \A d, e \in Claims : HasRow(e) /\ Continues(d, e) => Continues(d, e)'
  BY <1>0, NewRowKeepsRows
<1> SUFFICES ASSUME NEW d \in Claims, HasRow(d)'
             PROVE  /\ d \in claimRow'
                    /\ attemptRow'[d].verification \in Claims /\ attemptRow'[d].attempt >= 1
                    /\ attemptRow'[d].attempt = 1 => attemptRow'[d].verification = d
                    /\ attemptRow'[d].attempt > 1 => attemptRow'[d].parent \in Claims
                                                    /\ HasRow(attemptRow[d].parent)'
                                                    /\ fate'[attemptRow'[d].parent] \in Lost
                    /\ attemptRow'[d].relaunchedAs # None =>
                           /\ attemptRow'[d].status = "VOIDED"
                           /\ attemptRow'[d].relaunchedAs \in Claims
                           /\ Continues(attemptRow[d].relaunchedAs, d)'
                    /\ FailedRow(attemptRow'[d], fate'[d])
  BY DEF RowsAreSound
<1>2. CASE d = c
  <2>1. attemptRow'[d] = row /\ row.relaunchedAs = None /\ row.status \in {"ACTIVE", "SETTLED"}
    BY <1>0, <1>1, <1>2 DEF Starts, Extends
  <2>4. /\ d \in claimRow' /\ attemptRow'[d].relaunchedAs = None
        /\ FailedRow(attemptRow'[d], fate'[d])
    BY <1>2, <2>1 DEF FailedRow
  <2>2. CASE Starts(c, row)
    BY <1>2, <2>1, <2>2, <2>4 DEF Starts
  <2>3. CASE \E p : Extends(c, p, row)
    <3>1. PICK p : Extends(c, p, row)
      BY <2>3
    <3>2. p \in Claims /\ HasRow(p) /\ attemptRow[p].verification \in Claims
          /\ attemptRow[p].attempt >= 1 /\ attemptRow[p].attempt \in Nat
      BY <3>1 DEF Extends, RowsAreSound, Types, TypeOK, Rows
    <3>3. row.verification \in Claims /\ row.attempt > 1 /\ row.parent = p
      BY <3>1, <3>2 DEF Extends
    <3>4. attemptRow'[attemptRow'[d].parent].status # "NONE"
      BY <1>0, <1>1, <2>1, <3>2, <3>3 DEF HasRow
    <3>5. HasRow(attemptRow[d].parent)'
      BY <3>4 DEF HasRow
    <3>6. attemptRow'[d].verification \in Claims /\ attemptRow'[d].attempt > 1
      BY <2>1, <3>3
    <3>7. row.attempt \in Nat
      BY <1>0 DEF Rows
    <3>8. attemptRow'[d].attempt >= 1 /\ attemptRow'[d].attempt # 1
      BY <2>1, <3>3, <3>7
    <3>9. attemptRow'[d].parent \in Claims /\ fate'[attemptRow'[d].parent] \in Lost
      BY <2>1, <3>1, <3>2, <3>3 DEF Extends, FatesStay
    <3> QED BY <2>4, <3>5, <3>6, <3>8, <3>9
  <2> QED BY <2>2, <2>3
<1>3. CASE d # c
  <2>1. HasRow(d) /\ attemptRow'[d] = attemptRow[d]
    BY <1>1, <1>3
  <2>2. attemptRow[d].attempt > 1 => HasRow(attemptRow[d].parent)'
                                     /\ fate'[attemptRow[d].parent] \in Lost
    <3>1. attemptRow[d].attempt > 1 =>
              /\ attemptRow[d].parent \in Claims /\ HasRow(attemptRow[d].parent)
              /\ fate[attemptRow[d].parent] \in Lost
      BY <2>1 DEF RowsAreSound
    <3> QED BY <1>1, <2>1, <3>1 DEF HasRow, FatesStay
  <2>3. attemptRow[d].relaunchedAs # None =>
           /\ attemptRow[d].status = "VOIDED" /\ attemptRow[d].relaunchedAs \in Claims
           /\ Continues(attemptRow[d].relaunchedAs, d)'
    <3>1. attemptRow[d].relaunchedAs # None =>
             /\ attemptRow[d].status = "VOIDED" /\ attemptRow[d].relaunchedAs \in Claims
             /\ Continues(attemptRow[d].relaunchedAs, d)
      BY <2>1 DEF RowsAreSound
    <3> QED BY <1>1, <2>1, <3>1 DEF Continues, HasRow
  <2>4. FailedRow(attemptRow[d], fate'[d])
    BY <2>1 DEF RowsAreSound, FailedRow, FatesStay
  <2> QED BY <2>1, <2>2, <2>3, <2>4 DEF RowsAreSound
<1> QED BY <1>2, <1>3

\* A first attempt starts a ladder of its own.
LEMMA RootKeepsLadder ==
    ASSUME Types, RowsAreSound, OneLadder, NEW c \in Claims, NEW row, Starts(c, row)
    PROVE  OneLadder'
<1>1. /\ \A d \in Claims : attemptRow'[d] = IF d = c THEN row ELSE attemptRow[d]
      /\ \A d \in Claims : HasRow(d)' <=> HasRow(d) \/ d = c
  BY NewRowKeepsRows DEF Starts
<1>2. row.verification = c /\ row.attempt = 1
  BY DEF Starts
<1> SUFFICES ASSUME NEW d \in Claims, HasRow(d)'
             PROVE  /\ \A e \in Claims \ {d} :
                           HasRow(e)' /\ attemptRow'[e].verification = attemptRow'[d].verification
                           => attemptRow'[e].attempt # attemptRow'[d].attempt
                    /\ attemptRow'[d].attempt > 1 =>
                           LET parent == attemptRow'[attemptRow'[d].parent]
                           IN  /\ parent.verification = attemptRow'[d].verification
                               /\ parent.attempt = attemptRow'[d].attempt - 1
                               /\ parent.status = "VOIDED"
                               /\ parent.relaunchedAs \in {None, d}
  BY DEF OneLadder
<1>3. ASSUME NEW e \in Claims \ {d}, HasRow(e)',
             attemptRow'[e].verification = attemptRow'[d].verification
      PROVE  attemptRow'[e].attempt # attemptRow'[d].attempt
  BY <1>1, <1>2, <1>3 DEF OneLadder, RowsAreSound
<1>4. ASSUME attemptRow'[d].attempt > 1
      PROVE  LET parent == attemptRow'[attemptRow'[d].parent]
             IN  /\ parent.verification = attemptRow'[d].verification
                 /\ parent.attempt = attemptRow'[d].attempt - 1
                 /\ parent.status = "VOIDED"
                 /\ parent.relaunchedAs \in {None, d}
  <2>1. d # c /\ attemptRow'[d] = attemptRow[d] /\ HasRow(d)
    BY <1>1, <1>2, <1>4
  <2>2. attemptRow[d].parent \in Claims /\ HasRow(attemptRow[d].parent)
    BY <1>4, <2>1, LaterContinues
  <2>3. attemptRow'[attemptRow[d].parent] = attemptRow[attemptRow[d].parent]
    BY <1>1, <2>2 DEF Starts
  <2> QED BY <1>4, <2>1, <2>3 DEF OneLadder
<1> QED BY <1>3, <1>4

\* A relaunch extends the ladder at its top.
LEMMA ExtensionKeepsLadder ==
    ASSUME Types, RowsAreSound, OneLadder, NEW c \in Claims, NEW p, NEW row,
           Extends(c, p, row)
    PROVE  OneLadder'
<1>0. ~HasRow(c) /\ row.status # "NONE" /\ attemptRow' = [attemptRow EXCEPT ![c] = row]
  BY DEF Extends
<1>1. /\ \A d \in Claims : attemptRow'[d] = IF d = c THEN row ELSE attemptRow[d]
      /\ \A d \in Claims : HasRow(d)' <=> HasRow(d) \/ d = c
  BY <1>0, NewRowKeepsRows
<1>2. /\ p \in Claims /\ HasRow(p) /\ p # c
      /\ attemptRow[p].status = "VOIDED" /\ attemptRow[p].relaunchedAs = None
      /\ attemptRow[p].attempt \in Nat /\ attemptRow[p].attempt >= 1
  <2>1. p \in Claims /\ HasRow(p) /\ p # c /\ attemptRow[p].status = "VOIDED"
    BY DEF Extends
  <2>2. attemptRow[p].relaunchedAs = None
    BY <2>1 DEF Extends, RowsAreSound
  <2> QED BY <2>1, <2>2 DEF RowsAreSound, Types, TypeOK, Rows
<1>3. /\ row.verification = attemptRow[p].verification /\ row.parent = p
      /\ row.attempt = attemptRow[p].attempt + 1 /\ row.attempt > 1
  BY <1>2 DEF Extends
<1>4. ASSUME NEW e \in Claims, e # c, HasRow(e), attemptRow[e].verification = row.verification
      PROVE  attemptRow[e].attempt # row.attempt
  <2> SUFFICES ASSUME attemptRow[e].attempt = row.attempt PROVE FALSE
    OBVIOUS
  <2>1. /\ attemptRow[e].parent \in Claims /\ HasRow(attemptRow[e].parent)
        /\ Continues(e, attemptRow[e].parent)
    BY <1>3, <1>4, LaterContinues
  <2> DEFINE q == attemptRow[e].parent
  <2>4. attemptRow[q].attempt \in Nat
    BY <2>1 DEF Types, TypeOK, Rows
  <2>5. attemptRow[e].verification = attemptRow[q].verification
        /\ attemptRow[e].attempt = attemptRow[q].attempt + 1
    BY <2>1 DEF Continues
  <2>2. /\ attemptRow[q].verification = attemptRow[p].verification
        /\ attemptRow[q].attempt = attemptRow[p].attempt
    BY <1>2, <1>3, <1>4, <2>4, <2>5
  <2>3. attemptRow[e].parent = p
    BY <1>2, <2>1, <2>2 DEF OneLadder
  <2> QED BY <2>1, <2>3 DEF Extends
<1> SUFFICES ASSUME NEW d \in Claims, HasRow(d)'
             PROVE  /\ \A e \in Claims \ {d} :
                           HasRow(e)' /\ attemptRow'[e].verification = attemptRow'[d].verification
                           => attemptRow'[e].attempt # attemptRow'[d].attempt
                    /\ attemptRow'[d].attempt > 1 =>
                           LET parent == attemptRow'[attemptRow'[d].parent]
                           IN  /\ parent.verification = attemptRow'[d].verification
                               /\ parent.attempt = attemptRow'[d].attempt - 1
                               /\ parent.status = "VOIDED"
                               /\ parent.relaunchedAs \in {None, d}
  BY DEF OneLadder
<1>5. ASSUME NEW e \in Claims \ {d}, HasRow(e)',
             attemptRow'[e].verification = attemptRow'[d].verification
      PROVE  attemptRow'[e].attempt # attemptRow'[d].attempt
  BY <1>1, <1>4, <1>5 DEF OneLadder
<1>6. ASSUME attemptRow'[d].attempt > 1
      PROVE  LET parent == attemptRow'[attemptRow'[d].parent]
             IN  /\ parent.verification = attemptRow'[d].verification
                 /\ parent.attempt = attemptRow'[d].attempt - 1
                 /\ parent.status = "VOIDED"
                 /\ parent.relaunchedAs \in {None, d}
  <2>1. CASE d = c
    <3>1. attemptRow'[d] = row /\ attemptRow'[p] = attemptRow[p]
      BY <1>1, <1>2, <2>1
    <3> QED BY <1>2, <1>3, <3>1
  <2>2. CASE d # c
    <3>1. attemptRow'[d] = attemptRow[d] /\ HasRow(d)
      BY <1>1, <2>2
    <3>2. attemptRow[d].parent \in Claims /\ HasRow(attemptRow[d].parent)
      BY <1>6, <3>1, LaterContinues
    <3>3. attemptRow'[attemptRow[d].parent] = attemptRow[attemptRow[d].parent]
      BY <1>1, <3>2 DEF Extends
    <3> QED BY <1>6, <3>1, <3>3 DEF OneLadder
  <2> QED BY <2>1, <2>2
<1> QED BY <1>5, <1>6

-----------------------------------------------------------------------------
(* What a step leaves to the calls and ticks that are under way            *)

\* The rows keep their places and a failed claim stays failed.
RowsStay ==
    /\ \A c \in Claims : HasRow(c) => HasRow(c)' /\ Same(attemptRow'[c], attemptRow[c])
    /\ FatesStay

\* A step outside the relaunch tick: the voided row of a lost claim stays voided, a new row
\* is that of a first attempt, and the claim of a launch is left alone.
Calm ==
    /\ replica' = replica /\ onChain \subseteq onChain' /\ RowsStay
    /\ \A c \in Claims : attemptRow[c].status = "VOIDED" /\ fate[c] \in Lost
                         => attemptRow'[c].status = "VOIDED"
    /\ \A c \in Claims : HasRow(c)' /\ ~HasRow(c) => attemptRow'[c].attempt = 1
    /\ \A c \in onChain : c \in claimRow' <=> c \in claimRow
    /\ \A w \in Replicas : replica[w].pc \in {"CREATED", "SAVED"} =>
          ~HasRow(replica[w].child)' /\ fate'[replica[w].child] = "OPEN"

\* A call of voidAttempt keeps its copy in good order.
LEMMA CopyStays ==
    ASSUME LadderInv, RowsStay, NEW v \in Voiders, voider'[v] \in {voider[v], NotVoiding}
    PROVE  HoldsCopy(v)'
<1>1. CASE voider'[v] = NotVoiding
  BY <1>1 DEF HoldsCopy, NotVoiding
<1>2. CASE voider'[v] # NotVoiding
  <2>1. voider'[v] = voider[v] /\ HoldsCopy(v) /\ voider[v] # NotVoiding
    BY <1>2 DEF LadderInv, VoidersHoldCopies
  <2>2. /\ voider[v].claim \in Claims /\ HasRow(voider[v].claim)
        /\ fate[voider[v].claim] \in Failed
        /\ voider[v].copy.status = "ACTIVE" /\ voider[v].copy.relaunchedAs = None
        /\ Same(voider[v].copy, attemptRow[voider[v].claim])
    BY <2>1 DEF HoldsCopy
  <2>3. /\ HasRow(voider[v].claim)' /\ fate'[voider[v].claim] \in Failed
        /\ Same(voider[v].copy, attemptRow'[voider[v].claim])
    BY <2>1, <2>2 DEF RowsStay, FatesStay, Same, HasRow
  <2> QED BY <2>1, <2>2, <2>3 DEF HoldsCopy, HasRow, Same, NotVoiding
<1> QED BY <1>1, <1>2

\* A copy of a voided row stays one while the row keeps its place and its status.
LEMMA ListedStays ==
    ASSUME RowsStay, NEW c, NEW row, Listed(c, row), attemptRow'[c].status = "VOIDED"
    PROVE  /\ HasRow(c)' /\ Same(row, attemptRow'[c])
           /\ Listed(c, row)'
BY DEF RowsStay, FatesStay, Listed, Same, HasRow

\* A step outside the tick leaves the ticks in good order.
LEMMA CalmKeepsTicks ==
    ASSUME LadderInv, Calm
    PROVE  TicksAreSound'
<1> SUFFICES ASSUME NEW w \in Replicas PROVE TickIsSound(w)'
  BY DEF TicksAreSound
<1>1. TickIsSound(w) /\ replica'[w] = replica[w] /\ RowsStay
  BY DEF LadderInv, TicksAreSound, Calm
<1>2. \A c, row : Listed(c, row) => Listed(c, row)'
  BY ListedStays DEF Calm, Listed
<1>3. replica[w].pc \notin {"IDLE", "NEXT"} =>
          Listed(replica[w].cur, replica[w].copy) /\ replica[w].copy.attempt >= 1
          /\ replica[w].copy.attempt \in Nat
  <2>1. \A c, row : Listed(c, row) => row.attempt >= 1 /\ row.attempt \in Nat
    BY DEF Listed, Same, LadderInv, RowsAreSound, Types, TypeOK, Rows
  <2> QED BY <1>1, <2>1 DEF TickIsSound
<1>4. ASSUME replica[w].pc \notin {"IDLE", "NEXT"} PROVE Successors(w)' = Successors(w)
  <2> SUFFICES ASSUME NEW d \in Claims
               PROVE  d \in Successors(w)' <=> d \in Successors(w)
    BY DEF Successors
  <2>1. CASE HasRow(d)
    <3>1. HasRow(d)' /\ Same(attemptRow'[d], attemptRow[d])
      BY <2>1 DEF Calm, RowsStay
    <3> QED BY <1>1, <2>1, <3>1 DEF Successors, Same
  <2>2. CASE ~HasRow(d)
    <3>1. HasRow(d)' => attemptRow'[d].attempt = 1
      BY <2>2 DEF Calm
    <3> QED BY <1>1, <1>3, <1>4, <2>2, <3>1 DEF Successors
  <2> QED BY <2>1, <2>2
<1>5. replica[w].pc \in {"CREATED", "SAVED"} =>
         /\ replica[w].child \in onChain'
         /\ replica[w].child \in claimRow' <=> replica[w].child \in claimRow
         /\ ~HasRow(replica[w].child)' /\ fate'[replica[w].child] = "OPEN"
  BY <1>1 DEF TickIsSound, Calm
<1>6. /\ replica'[w].pc = "IDLE" => replica'[w] = Idle
      /\ \A t \in replica'[w].todo : Listed(t.claim, t.row)'
      /\ \A s, t \in replica'[w].todo : s.claim = t.claim => s = t
      /\ replica'[w].pc \notin {"IDLE", "NEXT"} =>
             /\ Listed(replica[w].cur, replica[w].copy)'
             /\ \A t \in replica'[w].todo : t.claim # replica'[w].cur
  <2>1. \A t \in replica'[w].todo : Listed(t.claim, t.row)'
    BY <1>1, <1>2 DEF TickIsSound
  <2>2. replica'[w].pc \notin {"IDLE", "NEXT"} => Listed(replica[w].cur, replica[w].copy)'
    BY <1>1, <1>2, <1>3 DEF Listed, HasRow, Same
  <2> QED BY <1>1, <2>1, <2>2 DEF TickIsSound
<1>7. /\ Launching(w)' => Successors(w)' = {} /\ replica'[w].copy.attempt < MaxAttempts
      /\ replica'[w].pc \in {"ROWED", "LINKED"} => replica'[w].child \in Successors(w)'
  BY <1>1, <1>4 DEF TickIsSound, Launching
<1>8. /\ replica'[w].pc \in {"CREATED", "SAVED"} =>
             /\ replica'[w].child \in onChain' /\ ~HasRow(replica[w].child)'
             /\ fate'[replica'[w].child] = "OPEN"
      /\ replica'[w].pc = "CREATED" => replica'[w].child \notin claimRow'
      /\ replica'[w].pc = "SAVED" => replica'[w].child \in claimRow'
  BY <1>1, <1>5 DEF TickIsSound, HasRow
<1> QED BY <1>6, <1>7, <1>8 DEF TickIsSound, Idle

-----------------------------------------------------------------------------
(* The steps outside the relaunch tick                                     *)

\* A row written for the first time disturbs nothing.
LEMMA StartIsCalm ==
    ASSUME LadderInv, NEW c \in Claims, NEW row, Starts(c, row),
           replica' = replica, onChain \subseteq onChain', claimRow \subseteq claimRow',
           c \in claimRow',
           \A d \in onChain : d \in claimRow' <=> d \in claimRow,
           FatesStay,
           \A w \in Replicas : replica[w].pc \in {"CREATED", "SAVED"} =>
               replica[w].child \in Claims /\ replica[w].child # c
               /\ fate'[replica[w].child] = fate[replica[w].child]
    PROVE  Calm /\ RowsAreSound' /\ OneLadder' /\ attemptRow' \in [Claims -> Rows]
<1>1. Types /\ RowsAreSound /\ OneLadder /\ TicksAreSound
  BY DEF LadderInv
<1>2. ~HasRow(c) /\ row \in Rows /\ row.status # "NONE" /\ row.attempt = 1
      /\ attemptRow' = [attemptRow EXCEPT ![c] = row]
  BY DEF Starts
<1>3. /\ \A d \in Claims : attemptRow'[d] = IF d = c THEN row ELSE attemptRow[d]
      /\ \A d \in Claims : HasRow(d)' <=> HasRow(d) \/ d = c
  BY <1>1, <1>2, NewRowKeepsRows
<1>4. attemptRow' \in [Claims -> Rows]
  BY <1>1, <1>2 DEF Types, TypeOK
<1>5. RowsAreSound' /\ OneLadder'
  BY <1>1, NewRowKeepsSound, RootKeepsLadder
<1>6. RowsStay
  BY <1>2, <1>3 DEF RowsStay, Same
<1>7. \A d \in Claims : attemptRow[d].status = "VOIDED" => attemptRow'[d].status = "VOIDED"
  BY <1>2, <1>3 DEF HasRow
<1>8. \A d \in Claims : HasRow(d)' /\ ~HasRow(d) => attemptRow'[d].attempt = 1
  BY <1>2, <1>3
<1>9. \A w \in Replicas : replica[w].pc \in {"CREATED", "SAVED"} =>
         ~HasRow(replica[w].child)' /\ fate'[replica[w].child] = "OPEN"
  BY <1>1, <1>3 DEF TicksAreSound, TickIsSound, HasRow
<1> QED BY <1>4, <1>5, <1>6, <1>7, <1>8, <1>9 DEF Calm

\* Nor does a row written again that stays voided if it was.
LEMMA RewriteIsCalm ==
    ASSUME LadderInv, NEW c \in Claims, NEW row, Rewrites(c, row),
           attemptRow[c].status = "VOIDED" /\ fate[c] \in Lost => row.status = "VOIDED",
           FailedRow(row, fate'[c]),
           replica' = replica, onChain' = onChain, claimRow' = claimRow,
           FatesStay,
           \A w \in Replicas : replica[w].pc \in {"CREATED", "SAVED"} =>
               replica[w].child \in Claims
               /\ fate'[replica[w].child] = fate[replica[w].child]
    PROVE  Calm /\ RowsAreSound' /\ OneLadder' /\ attemptRow' \in [Claims -> Rows]
<1>1. Types /\ RowsAreSound /\ OneLadder /\ TicksAreSound
  BY DEF LadderInv
<1>2. HasRow(c) /\ row \in Rows /\ attemptRow' = [attemptRow EXCEPT ![c] = row]
  BY DEF Rewrites
<1>3. /\ \A d \in Claims : attemptRow'[d] = IF d = c THEN row ELSE attemptRow[d]
      /\ attemptRow' \in [Claims -> Rows]
  BY <1>1, <1>2 DEF Types, TypeOK
<1>4. /\ \A d \in Claims : HasRow(d)' <=> HasRow(d)
      /\ \A d \in Claims : Same(attemptRow'[d], attemptRow[d])
  BY <1>1, RewriteKeepsContinues
<1>5. RowsAreSound' /\ OneLadder'
  BY <1>1, RewriteKeepsLadder
<1>6. RowsStay
  BY <1>4 DEF RowsStay
<1>7. \A d \in Claims : attemptRow[d].status = "VOIDED" /\ fate[d] \in Lost
                        => attemptRow'[d].status = "VOIDED"
  BY <1>3
<1>8. \A w \in Replicas : replica[w].pc \in {"CREATED", "SAVED"} =>
         ~HasRow(replica[w].child)' /\ fate'[replica[w].child] = "OPEN"
  BY <1>1, <1>4 DEF TicksAreSound, TickIsSound, HasRow
<1> QED BY <1>3, <1>4, <1>5, <1>6, <1>7, <1>8 DEF Calm

\* The claim of a launch under way is on chain, has no row and is not decided.
LEMMA Launched ==
    ASSUME LadderInv, NEW w \in Replicas, replica[w].pc \in {"CREATED", "SAVED"}
    PROVE  /\ replica[w].child \in Claims /\ replica[w].child \in onChain
           /\ ~HasRow(replica[w].child) /\ fate[replica[w].child] = "OPEN"
           /\ replica[w].pc = "CREATED" => replica[w].child \notin claimRow
BY DEF LadderInv, Types, TypeOK, TicksAreSound, TickIsSound

\* A row that a first attempt gets, or that of voidAttempt, is a row.
LEMMA FirstRows ==
    ASSUME NEW c \in Claims, NEW status \in {"ACTIVE", "SETTLED"}
    PROVE  [verification |-> c, attempt |-> 1, parent |-> None, status |-> status,
            relaunchedAs |-> None] \in Rows
BY Sizes DEF Rows, Statuses

\* A new claim of the web process starts a verification of its own.
LEMMA FactCheckStartRow ==
    ASSUME LadderInv, NEW c \in Claims, FactCheckStart(c)
    PROVE  Starts(c, LaunchedRow(c, 1, None)) /\ c \notin onChain /\ fate[c] = "OPEN"
<1>1. /\ Types /\ RowsAreSound /\ DecidedIsSaved /\ claimRow \subseteq onChain
      /\ onChain \subseteq Claims
  BY DEF LadderInv, Types, TypeOK
<1>2. c \notin onChain /\ ~HasRow(c) /\ fate[c] = "OPEN"
  BY <1>1 DEF FactCheckStart, IsNext, RowsAreSound, DecidedIsSaved, Types, TypeOK
<1> QED BY <1>2, FirstRows DEF FactCheckStart, Starts, LaunchedRow

\* The ladder of every other verification stays.
LEMMA FactCheckStartKeeps ==
    ASSUME LadderInv, NEW c \in Claims, FactCheckStart(c)
    PROVE  LadderInv'
<1>1. /\ Types /\ RowsAreSound /\ DecidedIsSaved /\ claimRow \subseteq onChain
      /\ onChain \subseteq Claims
  BY DEF LadderInv, Types, TypeOK
<1>3. Starts(c, LaunchedRow(c, 1, None)) /\ c \notin onChain
  BY FactCheckStartRow
<1>4. /\ replica' = replica /\ voider' = voider /\ fate' = fate /\ voidAge' = voidAge
      /\ faults' = faults /\ onChain' = onChain \cup {c} /\ claimRow' = claimRow \cup {c}
      /\ FatesStay
  BY DEF FactCheckStart, FatesStay
<1>5. \A w \in Replicas : replica[w].pc \in {"CREATED", "SAVED"} =>
         replica[w].child \in Claims /\ replica[w].child # c
  BY <1>3, Launched
<1>6. Calm /\ RowsAreSound' /\ OneLadder' /\ attemptRow' \in [Claims -> Rows]
  BY <1>3, <1>4, <1>5, StartIsCalm
<1>7. TicksAreSound'
  BY <1>6, CalmKeepsTicks
<1>8. VoidersHoldCopies'
  BY <1>4, <1>6, CopyStays DEF Calm, VoidersHoldCopies
<1>9. Types' /\ DecidedIsSaved'
  BY <1>1, <1>4, <1>6 DEF Types, TypeOK, DecidedIsSaved
<1> QED BY <1>6, <1>7, <1>8, <1>9 DEF LadderInv

\* A claim fails before it has a successor, for good or torn.
LEMMA FailKeeps ==
    ASSUME LadderInv, NEW c \in Claims, Fail(c) \/ Tear(c)
    PROVE  LadderInv'
<1>0. PICK f \in {"FAILING", "TORN"} : fate' = [fate EXCEPT ![c] = f]
  BY DEF Fail, Tear
<1>1. /\ Types /\ RowsAreSound /\ OneLadder /\ DecidedIsSaved
  BY DEF LadderInv
<1>2. /\ replica' = replica /\ voider' = voider /\ attemptRow' = attemptRow
      /\ voidAge' = voidAge /\ faults' \in 0 .. MaxFaults /\ onChain' = onChain
      /\ claimRow' = claimRow /\ c \in claimRow /\ fate[c] = "OPEN"
      /\ \A w \in Replicas : replica[w].pc = "SAVED" => replica[w].child # c
  BY Sizes DEF Fail, Tear, Fault, Decidable, LadderInv, Types, TypeOK
<1>3. \A d \in Claims : fate'[d] = IF d = c THEN f ELSE fate[d]
  BY <1>0, <1>1 DEF Types, TypeOK
<1>4. RowsStay
  BY <1>2, <1>3 DEF RowsStay, FatesStay, Failed, Lost, Same, HasRow
<1>5. \A w \in Replicas : replica[w].pc \in {"CREATED", "SAVED"} =>
         ~HasRow(replica[w].child)' /\ fate'[replica[w].child] = "OPEN"
  BY <1>2, <1>3, Launched DEF HasRow
<1>6. Calm
  BY <1>2, <1>4, <1>5 DEF Calm, HasRow
<1>7. TicksAreSound'
  BY <1>6, CalmKeepsTicks
<1>8. VoidersHoldCopies'
  BY <1>2, <1>4, CopyStays DEF VoidersHoldCopies
<1>9. Types'
  BY <1>0, <1>1, <1>2 DEF Types, TypeOK
<1>10. OneLadder' /\ DecidedIsSaved'
  BY <1>1, <1>2, <1>3 DEF OneLadder, DecidedIsSaved, HasRow
<1>11. RowsAreSound'
  BY <1>1, <1>2, <1>4 DEF RowsAreSound, RowsStay, FatesStay, FailedRow, HasRow, Continues
<1> QED BY <1>7, <1>8, <1>9, <1>10, <1>11 DEF LadderInv

\* The row of a claim that got its certificate.
SettledRow(c) == [EnsuredRow(c) EXCEPT !.status = "SETTLED"]

\* It has no successor, for it is not lost.
LEMMA SettleRow ==
    ASSUME LadderInv, NEW c \in Claims, Settle(c)
    PROVE  /\ SettledRow(c).status = "SETTLED"
           /\ \/ /\ Rewrites(c, SettledRow(c))
                 /\ attemptRow[c].status # "GAVE_UP"
                 /\ attemptRow[c].status = "VOIDED" => fate[c] = "TORN"
              \/ Starts(c, SettledRow(c))
<1> DEFINE row == SettledRow(c)
<1>1. Types /\ RowsAreSound /\ OneLadder
  BY DEF LadderInv
<1>2. fate[c] \in {"OPEN", "TORN"} /\ attemptRow' = [attemptRow EXCEPT ![c] = row]
  BY DEF Settle, Decidable, SettledRow
<1>3. CASE HasRow(c)
  <2>2. \A d \in Claims : ~Continues(d, c)
    BY <1>1, <1>2, <1>3, OneContinues DEF Lost
  <2>1. /\ attemptRow[c].status # "GAVE_UP"
        /\ attemptRow[c].status = "VOIDED" => fate[c] = "TORN"
        /\ attemptRow[c].relaunchedAs = None /\ attemptRow[c] \in Rows
    BY <1>1, <1>2, <1>3, <2>2 DEF RowsAreSound, FailedRow, Failed, Lost, Types, TypeOK
  <2>3. row = [attemptRow[c] EXCEPT !.status = "SETTLED"]
    BY <1>3 DEF EnsuredRow, SettledRow
  <2>4. /\ row \in Rows /\ row.status = "SETTLED" /\ row.relaunchedAs = None
        /\ Same(row, attemptRow[c])
    BY <2>1, <2>3 DEF Rows, Statuses, Same
  <2> QED BY <1>2, <1>3, <2>1, <2>2, <2>4 DEF Rewrites
<1>4. CASE ~HasRow(c)
  <2>1. row = [verification |-> c, attempt |-> 1, parent |-> None, status |-> "SETTLED",
               relaunchedAs |-> None]
    BY <1>4 DEF EnsuredRow, LaunchedRow, SettledRow
  <2>2. row.attempt = 1 /\ row.verification = c /\ row.relaunchedAs = None
        /\ row.status = "SETTLED"
    BY <2>1
  <2>3. row \in Rows
    <3> HIDE DEF row
    <3>1. "SETTLED" \in {"ACTIVE", "SETTLED"}
      OBVIOUS
    <3> QED BY <2>1, <3>1, FirstRows
  <2> QED BY <1>2, <1>4, <2>2, <2>3 DEF Starts
<1> QED BY <1>3, <1>4

\* So the ladder stays.
LEMMA SettleKeeps ==
    ASSUME LadderInv, NEW c \in Claims, Settle(c)
    PROVE  LadderInv'
<1> DEFINE row == SettledRow(c)
<1>1. Types /\ RowsAreSound /\ OneLadder /\ DecidedIsSaved /\ onChain \subseteq Claims
  BY DEF LadderInv, Types, TypeOK
<1>2. /\ replica' = replica /\ voider' = voider /\ voidAge' = voidAge /\ faults' = faults
      /\ onChain' = onChain /\ claimRow' = claimRow
      /\ fate' = [fate EXCEPT ![c] = IF @ = "TORN" THEN "BOTH" ELSE "CERTIFIED"]
      /\ c \in claimRow /\ fate[c] \in {"OPEN", "TORN"}
      /\ \A w \in Replicas : replica[w].pc \notin {"CREATED", "SAVED"}
  BY DEF Settle, Decidable, LadderInv, DecidedIsSaved
<1>3. \A d \in Claims : fate'[d] = IF d # c THEN fate[d]
                                   ELSE IF fate[d] = "TORN" THEN "BOTH" ELSE "CERTIFIED"
  BY <1>1, <1>2 DEF Types, TypeOK
<1>4. FatesStay
  BY <1>2, <1>3 DEF FatesStay, Failed, Lost
<1>5. \A w \in Replicas : replica[w].pc \in {"CREATED", "SAVED"} =>
         /\ replica[w].child \in Claims /\ replica[w].child # c
         /\ fate'[replica[w].child] = fate[replica[w].child]
  BY <1>2
<1> HIDE DEF row
<1>6. Calm /\ RowsAreSound' /\ OneLadder' /\ attemptRow' \in [Claims -> Rows]
  <2>1. row.status = "SETTLED" /\ FailedRow(row, fate'[c])
    BY SettleRow DEF row, FailedRow
  <2>2. CASE Rewrites(c, row)
    <3>1. fate[c] \notin Lost
      BY <1>2 DEF Lost
    <3> QED BY <1>2, <1>4, <1>5, <2>1, <2>2, <3>1, RewriteIsCalm
  <2>3. CASE Starts(c, row)
    BY <1>2, <1>4, <1>5, <2>3, StartIsCalm
  <2> QED BY <2>2, <2>3, SettleRow DEF row
<1>7. TicksAreSound'
  BY <1>6, CalmKeepsTicks
<1>8. VoidersHoldCopies'
  BY <1>2, <1>6, CopyStays DEF Calm, VoidersHoldCopies
<1>9. Types' /\ DecidedIsSaved'
  BY <1>1, <1>2, <1>3, <1>6 DEF Types, TypeOK, DecidedIsSaved
<1> QED BY <1>6, <1>7, <1>8, <1>9 DEF LadderInv

\* voidAttempt reads the row of a failed claim, or makes it.
LEMMA ReadRow ==
    ASSUME LadderInv, NEW c \in Claims, NEW v \in Voiders, ReadAttempt(v, c)
    PROVE  /\ EnsuredRow(c) \in Rows /\ EnsuredRow(c).relaunchedAs = None
           /\ EnsuredRow(c).status = "ACTIVE"
           /\ \/ Rewrites(c, EnsuredRow(c)) /\ EnsuredRow(c) = attemptRow[c]
              \/ Starts(c, EnsuredRow(c))
<1> DEFINE row == EnsuredRow(c)
<1>1. Types /\ RowsAreSound /\ OneLadder
  BY DEF LadderInv
<1>2. row.status = "ACTIVE" /\ attemptRow' = [attemptRow EXCEPT ![c] = row]
  BY DEF ReadAttempt, Undecided
<1>3. CASE HasRow(c)
  <2>1. row = attemptRow[c] /\ row \in Rows /\ row.relaunchedAs = None
    BY <1>1, <1>2, <1>3 DEF EnsuredRow, RowsAreSound, Types, TypeOK
  <2>2. \A d \in Claims : ~Continues(d, c)
    BY <1>1, <1>2, <1>3, <2>1, OneContinues
  <2> QED BY <1>2, <1>3, <2>1, <2>2 DEF Rewrites, Same
<1>4. CASE ~HasRow(c)
  <2>1. row = [verification |-> c, attempt |-> 1, parent |-> None, status |-> "ACTIVE",
               relaunchedAs |-> None]
    BY <1>4 DEF EnsuredRow, LaunchedRow
  <2>2. row.attempt = 1 /\ row.verification = c /\ row.relaunchedAs = None
    BY <2>1
  <2>3. row \in Rows
    <3> HIDE DEF row
    <3>1. "ACTIVE" \in {"ACTIVE", "SETTLED"}
      OBVIOUS
    <3> QED BY <2>1, <3>1, FirstRows
  <2> QED BY <1>2, <1>4, <2>2, <2>3 DEF Starts
<1> QED BY <1>2, <1>3, <1>4

\* The call keeps a copy of it, and the ladder stays.
LEMMA ReadAttemptKeeps ==
    ASSUME LadderInv, NEW c \in Claims, NEW v \in Voiders, ReadAttempt(v, c)
    PROVE  LadderInv'
<1> DEFINE row == EnsuredRow(c)
<1>1. /\ Types /\ RowsAreSound /\ OneLadder /\ DecidedIsSaved
      /\ c \in claimRow
  BY DEF LadderInv, ReadAttempt, DecidedIsSaved
<1>0. FatesStay
  BY DEF FatesStay, ReadAttempt, world
<1>2. /\ replica' = replica /\ voidAge' = voidAge /\ faults' = faults
      /\ onChain' = onChain /\ claimRow' = claimRow /\ fate' = fate
      /\ fate[c] \in Failed /\ fate[c] # "OPEN"
      /\ row.status = "ACTIVE" /\ FailedRow(row, fate'[c])
      /\ attemptRow' = [attemptRow EXCEPT ![c] = row]
      /\ voider' = [voider EXCEPT ![v] = [claim |-> c, copy |-> row]]
  BY DEF ReadAttempt, Undecided, world, Failed, Lost, FailedRow
<1>3. \A w \in Replicas : replica[w].pc \in {"CREATED", "SAVED"} =>
         replica[w].child \in Claims /\ replica[w].child # c
  BY <1>2, Launched
<1> HIDE DEF row
<1>4. /\ Calm /\ RowsAreSound' /\ OneLadder' /\ attemptRow' \in [Claims -> Rows]
      /\ row \in Rows /\ row.relaunchedAs = None
  <2>1. /\ row \in Rows /\ row.relaunchedAs = None
        /\ \/ Rewrites(c, row) /\ row = attemptRow[c]
           \/ Starts(c, row)
    BY ReadRow DEF row
  <2>2. CASE Rewrites(c, row) /\ row = attemptRow[c]
    BY <1>0, <1>2, <1>3, <2>1, <2>2, RewriteIsCalm
  <2>3. CASE Starts(c, row)
    BY <1>0, <1>1, <1>2, <1>3, <2>1, <2>3, StartIsCalm
  <2> QED BY <2>1, <2>2, <2>3
<1>5. TicksAreSound'
  BY <1>4, CalmKeepsTicks
<1>6. attemptRow'[c] = row /\ HasRow(c)'
  BY <1>1, <1>2 DEF Types, TypeOK, HasRow
<1>7. VoidersHoldCopies'
  <2> SUFFICES ASSUME NEW u \in Voiders PROVE HoldsCopy(u)'
    BY DEF VoidersHoldCopies
  <2>1. CASE u = v
    <3>1. voider'[u] = [claim |-> c, copy |-> row]
      BY <1>1, <1>2, <2>1 DEF Types, TypeOK
    <3>2. voider'[u].claim = c /\ voider'[u].copy = row
      BY <3>1
    <3> QED BY <1>2, <1>4, <1>6, <3>2 DEF HoldsCopy, HasRow, Same
  <2>2. CASE u # v
    BY <1>1, <1>2, <1>4, <2>2, CopyStays DEF Calm, Types, TypeOK
  <2> QED BY <2>1, <2>2
<1>8. Types' /\ DecidedIsSaved'
  BY <1>1, <1>2, <1>4 DEF Types, TypeOK, DecidedIsSaved
<1> QED BY <1>4, <1>5, <1>7, <1>8 DEF LadderInv

\* The row voidAttempt writes.
VoidedRow(v) == [voider[v].copy EXCEPT !.status = "VOIDED"]

\* It is the copy, voided: what has a successor already is voided.
LEMMA VoidRow ==
    ASSUME LadderInv, NEW v \in Voiders, VoidAttempt(v)
    PROVE  /\ voider[v].claim \in Claims /\ fate[voider[v].claim] \in Failed
           /\ VoidedRow(v).status = "VOIDED" /\ Rewrites(voider[v].claim, VoidedRow(v))
<1> DEFINE c == voider[v].claim
           row == VoidedRow(v)
<1>1. /\ c \in Claims /\ HasRow(c) /\ fate[c] \in Failed
      /\ voider[v].copy.relaunchedAs = None /\ Same(voider[v].copy, attemptRow[c])
  BY DEF LadderInv, VoidersHoldCopies, HoldsCopy, VoidAttempt
<1>2. /\ row \in Rows /\ row.status = "VOIDED" /\ row.relaunchedAs = None
      /\ Same(row, attemptRow[c])
  <2>1. voider[v].copy \in Rows
    BY DEF LadderInv, Types, TypeOK
  <2> QED BY <1>1, <2>1 DEF Rows, Statuses, Same, VoidedRow
<1>3. attemptRow' = [attemptRow EXCEPT ![c] = row]
  BY DEF VoidAttempt, VoidedRow
<1> QED BY <1>1, <1>2, <1>3 DEF Rewrites

\* So the ladder stays.
LEMMA VoidAttemptKeeps ==
    ASSUME LadderInv, NEW v \in Voiders, VoidAttempt(v)
    PROVE  LadderInv'
<1> DEFINE c == voider[v].claim
           row == VoidedRow(v)
<1>1. Types /\ RowsAreSound /\ OneLadder /\ DecidedIsSaved
  BY DEF LadderInv
<1>2. /\ replica' = replica /\ faults' = faults /\ onChain' = onChain
      /\ claimRow' = claimRow /\ fate' = fate /\ voidAge' = [voidAge EXCEPT ![c] = 0]
      /\ voider' = [voider EXCEPT ![v] = NotVoiding]
  BY DEF VoidAttempt, world
<1>3. c \in Claims /\ row.status = "VOIDED" /\ Rewrites(c, row)
  BY VoidRow
<1>4. FatesStay /\ FailedRow(row, fate'[c])
  BY <1>2, <1>3, VoidRow DEF FatesStay, FailedRow
<1> HIDE DEF row
<1>6. Calm /\ RowsAreSound' /\ OneLadder' /\ attemptRow' \in [Claims -> Rows]
  BY <1>2, <1>3, <1>4, Launched, RewriteIsCalm
<1>7. TicksAreSound'
  BY <1>6, CalmKeepsTicks
<1>8. VoidersHoldCopies'
  BY <1>1, <1>2, <1>6, CopyStays DEF Calm, VoidersHoldCopies, Types, TypeOK
<1>9. Types' /\ DecidedIsSaved'
  <2>1. NotVoiding \in [claim : Claims \cup {None}, copy : Rows]
    BY Sizes DEF NotVoiding, NoRow, Rows
  <2>2. voidAge \in [Claims -> 0 .. GiveUpAfter + 1] /\ 0 \in 0 .. GiveUpAfter + 1
    BY <1>1, Sizes DEF Types, TypeOK
  <2>3. voidAge' \in [Claims -> 0 .. GiveUpAfter + 1]
    BY <1>2, <2>2
  <2> QED BY <1>1, <1>2, <1>6, <2>1, <2>3 DEF Types, TypeOK, DecidedIsSaved
<1> QED BY <1>6, <1>7, <1>8, <1>9 DEF LadderInv

\* Time changes no row.
LEMMA TickKeeps ==
    ASSUME LadderInv, Tick
    PROVE  LadderInv'
<1>1. Types /\ RowsAreSound /\ OneLadder /\ DecidedIsSaved
  BY DEF LadderInv
<1>2. /\ replica' = replica /\ voider' = voider /\ attemptRow' = attemptRow
      /\ faults' = faults /\ onChain' = onChain /\ claimRow' = claimRow /\ fate' = fate
      /\ voidAge' = [d \in Claims |-> IF attemptRow[d].status = "VOIDED"
                                         /\ voidAge[d] <= GiveUpAfter
                                      THEN voidAge[d] + 1 ELSE voidAge[d]]
  BY DEF Tick, world
<1>3. RowsStay
  BY <1>2 DEF RowsStay, FatesStay, Same, HasRow
<1>4. Calm
  BY <1>2, <1>3, Launched DEF Calm, HasRow
<1>5. TicksAreSound'
  BY <1>4, CalmKeepsTicks
<1>6. VoidersHoldCopies'
  BY <1>2, <1>3, CopyStays DEF VoidersHoldCopies
<1>7. voidAge' \in [Claims -> 0 .. GiveUpAfter + 1]
  BY <1>1, <1>2, Sizes DEF Types, TypeOK
<1>8. Types' /\ DecidedIsSaved'
  BY <1>1, <1>2, <1>7 DEF Types, TypeOK, DecidedIsSaved
<1>9. RowsAreSound' /\ OneLadder'
  BY <1>1, <1>2 DEF RowsAreSound, OneLadder, HasRow, Continues
<1> QED BY <1>5, <1>6, <1>8, <1>9 DEF LadderInv

-----------------------------------------------------------------------------
(* The steps of the relaunch tick                                          *)

\* What a step of a tick leaves to everybody else.
OthersStay ==
    /\ RowsStay /\ RowsAreSound' /\ OneLadder' /\ DecidedIsSaved' /\ VoidersHoldCopies'
    /\ attemptRow' \in [Claims -> Rows]

\* Saving the claim disturbs no row.
LEMMA UnchangedRows ==
    ASSUME LadderInv, attemptRow' = attemptRow, voider' = voider, claimRow \subseteq claimRow',
           fate' = fate \/ (FatesStay /\ \A c \in Claims : fate'[c] # "OPEN" => fate[c] # "OPEN")
    PROVE  OthersStay
<1>0. FatesStay /\ \A c \in Claims : fate'[c] # "OPEN" => fate[c] # "OPEN"
  BY DEF FatesStay
<1>1. RowsStay
  BY <1>0 DEF RowsStay, Same, HasRow
<1>2. VoidersHoldCopies'
  BY <1>1, CopyStays DEF VoidersHoldCopies
<1>3. OneLadder' /\ DecidedIsSaved'
  BY <1>0 DEF LadderInv, OneLadder, DecidedIsSaved, HasRow
<1>4. RowsAreSound'
  BY <1>0 DEF LadderInv, RowsAreSound, FatesStay, FailedRow, HasRow, Continues
<1> QED BY <1>1, <1>2, <1>3, <1>4 DEF OthersStay, LadderInv, Types, TypeOK

\* Nor does a row written again in its place.
LEMMA RewrittenRow ==
    ASSUME LadderInv, NEW c \in Claims, NEW row, Rewrites(c, row), fate[c] \in Lost,
           fate' = fate, voider' = voider, claimRow' = claimRow
    PROVE  /\ OthersStay
           /\ \A d \in Claims : attemptRow'[d] = IF d = c THEN row ELSE attemptRow[d]
<1>1. Types /\ RowsAreSound /\ OneLadder /\ DecidedIsSaved
  BY DEF LadderInv
<1>2. row \in Rows /\ attemptRow' = [attemptRow EXCEPT ![c] = row]
  BY DEF Rewrites
<1>3. /\ \A d \in Claims : attemptRow'[d] = IF d = c THEN row ELSE attemptRow[d]
      /\ attemptRow' \in [Claims -> Rows]
  BY <1>1, <1>2 DEF Types, TypeOK
<1>0. FatesStay /\ FailedRow(row, fate'[c])
  BY DEF FatesStay, FailedRow, Failed
<1>4. RowsStay
  BY <1>0, <1>1, RewriteKeepsContinues DEF RowsStay
<1>5. VoidersHoldCopies'
  BY <1>4, CopyStays DEF VoidersHoldCopies
<1>6. RowsAreSound' /\ OneLadder' /\ DecidedIsSaved'
  BY <1>0, <1>1, RewriteKeepsLadder DEF DecidedIsSaved
<1> QED BY <1>3, <1>4, <1>5, <1>6 DEF OthersStay

\* The other replicas are idle, so a step of a tick need only look after its own.
LEMMA OneTick ==
    ASSUME LadderInv, NEW w \in Replicas, NEW tick \in Ticks,
           replica' = [replica EXCEPT ![w] = tick],
           \A u \in Replicas : u # w => replica[u].pc = "IDLE"
    PROVE  /\ replica'[w] = tick /\ replica' \in [Replicas -> Ticks]
           /\ \A u, v \in Replicas :
                  replica'[u].pc # "IDLE" /\ replica'[v].pc # "IDLE" => u = v
           /\ TickIsSound(w)' => TicksAreSound'
<1>1. \A u \in Replicas : replica'[u] = IF u = w THEN tick ELSE replica[u]
  BY DEF LadderInv, Types
<1>2. \A u \in Replicas : u # w => replica'[u] = Idle
  BY <1>1 DEF LadderInv, TicksAreSound, TickIsSound
<1>3. Idle.pc = "IDLE" /\ Idle.todo = {}
  BY DEF Idle
<1>4. ASSUME TickIsSound(w)', NEW u \in Replicas PROVE TickIsSound(u)'
  <2>1. CASE u = w
    BY <1>4, <2>1
  <2>2. CASE u # w
    <3>1. replica'[u] = Idle
      BY <1>2, <2>2
    <3> QED BY <1>3, <3>1 DEF TickIsSound, Launching, Idle
  <2> QED BY <2>1, <2>2
<1>5. replica' \in [Replicas -> Ticks]
  BY DEF LadderInv, Types
<1> QED BY <1>1, <1>2, <1>3, <1>4, <1>5 DEF TicksAreSound

\* A tick under way is the only one, and knows the rows it has listed.
LEMMA RunningTick ==
    ASSUME LadderInv, NEW w \in Replicas, replica[w].pc # "IDLE"
    PROVE  /\ \A u \in Replicas : u # w => replica[u].pc = "IDLE"
           /\ TickIsSound(w) /\ replica[w] \in Ticks
           /\ replica[w].todo \in SUBSET Listing
           /\ \A t \in replica[w].todo : Listed(t.claim, t.row)
BY DEF LadderInv, Types, TypeOK, TicksAreSound, TickIsSound, Ticks

\* The row a launch is for.
LEMMA CurrentRow ==
    ASSUME LadderInv, NEW w \in Replicas, replica[w].pc \notin {"IDLE", "NEXT"}
    PROVE  /\ replica[w].cur \in Claims /\ HasRow(replica[w].cur)
           /\ attemptRow[replica[w].cur].status = "VOIDED"
           /\ fate[replica[w].cur] \in Lost
           /\ replica[w].copy \in Rows /\ replica[w].copy.status = "VOIDED"
           /\ replica[w].copy.relaunchedAs = None
           /\ Same(replica[w].copy, attemptRow[replica[w].cur])
           /\ \A t \in replica[w].todo : t.claim # replica[w].cur
           /\ \A d \in Claims : d \in Successors(w) <=> Continues(d, replica[w].cur)
<1>1. TickIsSound(w) /\ replica[w] \in Ticks
  BY DEF LadderInv, TicksAreSound, Types
<1>2. Listed(replica[w].cur, replica[w].copy)
      /\ \A t \in replica[w].todo : t.claim # replica[w].cur
  BY <1>1 DEF TickIsSound
<1>3. replica[w].copy \in Rows
  BY <1>1 DEF Ticks
<1>4. fate[replica[w].cur] \in Lost
  BY <1>2 DEF Listed
<1>5. \A d \in Claims : d \in Successors(w) <=> Continues(d, replica[w].cur)
  BY <1>2 DEF Successors, Continues, Listed, Same
<1> QED BY <1>2, <1>3, <1>4, <1>5 DEF Listed

\* An iteration that is over leaves a tick in good order, or none.
LEMMA RestOfTick ==
    ASSUME LadderInv, OthersStay, NEW w \in Replicas, replica[w].pc # "IDLE",
           replica' = [replica EXCEPT ![w] = NextAttempt(w)] \/ replica' = [replica EXCEPT ![w] = Idle],
           \A t \in replica[w].todo : attemptRow'[t.claim].status = "VOIDED"
    PROVE  /\ replica' \in [Replicas -> Ticks] /\ TicksAreSound'
           /\ \A u, v \in Replicas :
                  replica'[u].pc # "IDLE" /\ replica'[v].pc # "IDLE" => u = v
<1>1. /\ \A u \in Replicas : u # w => replica[u].pc = "IDLE"
      /\ TickIsSound(w) /\ replica[w].todo \in SUBSET Listing
  BY RunningTick
<1> DEFINE next == [pc |-> "NEXT", todo |-> replica[w].todo, cur |-> None, copy |-> NoRow,
                    child |-> None]
<1>2. NextAttempt(w) \in {Idle, next}
  BY DEF NextAttempt, Idle
<1>3. NoRow \in Rows
  BY Sizes DEF NoRow, Rows
<1>4. Idle \in Ticks /\ next \in Ticks
  BY <1>1, <1>3 DEF Idle, Ticks, Stages
<1>5. Idle.pc = "IDLE" /\ Idle.todo = {} /\ next.pc = "NEXT" /\ next.todo = replica[w].todo
  BY DEF Idle
<1> HIDE DEF next
<1>6. PICK tick \in {Idle, next} : replica' = [replica EXCEPT ![w] = tick]
  BY <1>2
<1>7. tick \in Ticks
  BY <1>4
<1>8. /\ tick.pc \in {"IDLE", "NEXT"} /\ tick.todo \in {{}, replica[w].todo}
      /\ tick.pc = "IDLE" => tick = Idle
  BY <1>5
<1>9. replica'[w] = tick
  BY <1>1, <1>7, <1>6, OneTick
<1>10. \A t \in replica[w].todo : Listed(t.claim, t.row)'
  BY <1>1, ListedStays DEF TickIsSound, OthersStay
<1>11. TickIsSound(w)'
  <2>1. /\ \A t \in replica'[w].todo : Listed(t.claim, t.row)'
        /\ \A s, t \in replica'[w].todo : s.claim = t.claim => s = t
    BY <1>1, <1>8, <1>9, <1>10 DEF TickIsSound
  <2>2. replica'[w].pc \in {"IDLE", "NEXT"} /\ (replica'[w].pc = "IDLE" => replica'[w] = Idle)
    BY <1>8, <1>9
  <2> QED BY <2>1, <2>2 DEF TickIsSound, Launching, Idle
<1> QED BY <1>1, <1>7, <1>6, <1>11, OneTick

\* What may become of a claim.
Fates == {"OPEN", "FAILING", "CERTIFIED", "TORN", "BOTH"}

\* No two ticks at once.
Alone == \A u, v \in Replicas : replica[u].pc # "IDLE" /\ replica[v].pc # "IDLE" => u = v

\* A step of a tick that leaves the others and its own tick in good order keeps the ladder.
LEMMA TickStep ==
    ASSUME LadderInv, OthersStay, replica' \in [Replicas -> Ticks], TicksAreSound', Alone',
           onChain' \subseteq Claims, claimRow' \subseteq onChain', voidAge' = voidAge,
           fate' = fate \/ fate' \in [Claims -> Fates], voider' = voider,
           faults' \in 0 .. MaxFaults
    PROVE  LadderInv'
BY DEF LadderInv, OthersStay, Types, TypeOK, Alone, Fates

\* An iteration ends, written or not.
LEMMA IterationEnds ==
    ASSUME LadderInv, OthersStay, NEW w \in Replicas, replica[w].pc # "IDLE",
           replica' = [replica EXCEPT ![w] = NextAttempt(w)] \/ replica' = [replica EXCEPT ![w] = Idle],
           \A t \in replica[w].todo : attemptRow'[t.claim].status = "VOIDED",
           world' = world, voidAge' = voidAge, voider' = voider, faults' \in 0 .. MaxFaults
    PROVE  LadderInv'
<1>1. replica' \in [Replicas -> Ticks] /\ TicksAreSound' /\ Alone'
  BY RestOfTick DEF Alone
<1> QED BY <1>1, TickStep DEF LadderInv, Types, TypeOK, world

\* The tick goes on to its next attempt, or ends, without having written anything.
LEMMA IdleSteps ==
    ASSUME LadderInv, NEW w \in Replicas, WaitForLaunch(w) \/ CallFails(w) \/ Crash(w)
    PROVE  LadderInv'
<1>1. /\ replica[w].pc # "IDLE" /\ attemptRow' = attemptRow /\ world' = world
      /\ voidAge' = voidAge /\ voider' = voider
      /\ \/ replica' = [replica EXCEPT ![w] = NextAttempt(w)]
         \/ replica' = [replica EXCEPT ![w] = Idle]
  BY DEF WaitForLaunch, CallFails, Crash, world
<1>2. faults' \in 0 .. MaxFaults
  BY Sizes DEF WaitForLaunch, CallFails, Crash, Fault, LadderInv, Types, TypeOK
<1>3. OthersStay
  BY <1>1, UnchangedRows DEF world
<1>4. \A t \in replica[w].todo : attemptRow'[t.claim].status = "VOIDED"
  BY <1>1, RunningTick DEF Listed
<1> QED BY <1>1, <1>2, <1>3, <1>4, IterationEnds

\* The row of a voided attempt, linked to one that continues it.
LinkedRow(w, d) == [attemptRow[replica[w].cur] EXCEPT !.relaunchedAs = IF @ = None THEN d ELSE @]

\* Linking writes the row of the parent, still voided, in its place.
LEMMA LinkRewrites ==
    ASSUME LadderInv, NEW w \in Replicas, replica[w].pc \notin {"IDLE", "NEXT"},
           NEW d \in Claims, d \in Successors(w), attemptRow' = Linked(replica[w].cur, d)
    PROVE  Rewrites(replica[w].cur, LinkedRow(w, d)) /\ LinkedRow(w, d).status = "VOIDED"
<1> DEFINE c == replica[w].cur
           row == LinkedRow(w, d)
<1>1. /\ c \in Claims /\ HasRow(c) /\ attemptRow[c].status = "VOIDED" /\ Continues(d, c)
      /\ attemptRow[c] \in Rows
  BY CurrentRow DEF LadderInv, Types, TypeOK
<1>2. attemptRow' = [attemptRow EXCEPT ![c] = row]
  BY <1>1 DEF Linked, LinkedRow, LadderInv, Types, TypeOK
<1>3. attemptRow[c].relaunchedAs # None =>
         attemptRow[c].relaunchedAs \in Claims /\ Continues(attemptRow[c].relaunchedAs, c)
  BY <1>1 DEF LadderInv, RowsAreSound
<1>4. /\ row \in Rows /\ row.status = "VOIDED" /\ Same(row, attemptRow[c])
      /\ row.relaunchedAs \in {d, attemptRow[c].relaunchedAs}
      /\ attemptRow[c].relaunchedAs = None => row.relaunchedAs = d
  BY <1>1 DEF LinkedRow, Rows, Same
<1>5. row.relaunchedAs \in Claims /\ Continues(row.relaunchedAs, c)
  BY <1>1, <1>3, <1>4
<1> HIDE DEF c, row
<1> QED BY <1>1, <1>2, <1>4, <1>5 DEF Rewrites, c, row

\* The tick finds the successor of an earlier launch and links it.
LEMMA AdoptSuccessorKeeps ==
    ASSUME LadderInv, NEW w \in Replicas, AdoptSuccessor(w)
    PROVE  LadderInv'
<1>1. /\ replica[w].pc = "LOOK" /\ world' = world /\ voidAge' = voidAge /\ voider' = voider
      /\ faults' = faults /\ replica' = [replica EXCEPT ![w] = NextAttempt(w)]
  BY DEF AdoptSuccessor, world
<1>2. PICK d \in Successors(w) : attemptRow' = Linked(replica[w].cur, d)
  BY DEF AdoptSuccessor
<1>3. d \in Claims
  BY DEF Successors
<1>4. /\ Rewrites(replica[w].cur, LinkedRow(w, d)) /\ LinkedRow(w, d).status = "VOIDED"
      /\ replica[w].cur \in Claims /\ fate[replica[w].cur] \in Lost
  BY <1>1, <1>2, <1>3, LinkRewrites, CurrentRow
<1>5. /\ OthersStay
      /\ \A e \in Claims : attemptRow'[e] = IF e = replica[w].cur THEN LinkedRow(w, d)
                                            ELSE attemptRow[e]
  BY <1>1, <1>4, RewrittenRow DEF world
<1>6. \A t \in replica[w].todo : attemptRow'[t.claim].status = "VOIDED"
  BY <1>1, <1>4, <1>5, RunningTick DEF Listed
<1> QED BY <1>1, <1>5, <1>6, IterationEnds DEF LadderInv, Types, TypeOK

\* The row of an attempt that is given up.
GivenUpRow(w) == [replica[w].copy EXCEPT !.status = "GAVE_UP"]

\* Nobody continues it: the tick has just looked.
LEMMA GiveUpRow ==
    ASSUME LadderInv, NEW w \in Replicas, GiveUpVerificationAttempt(w)
    PROVE  /\ Rewrites(replica[w].cur, GivenUpRow(w)) /\ GivenUpRow(w).status = "GAVE_UP"
           /\ attemptRow[replica[w].cur].attempt = replica[w].copy.attempt
<1> DEFINE c == replica[w].cur
           row == GivenUpRow(w)
<1>1. /\ replica[w].pc = "LOOK" /\ Successors(w) = {}
      /\ attemptRow' = [attemptRow EXCEPT ![c] = row]
  BY DEF GiveUpVerificationAttempt, GivenUpRow
<1>2. /\ c \in Claims /\ HasRow(c) /\ replica[w].copy \in Rows
      /\ replica[w].copy.relaunchedAs = None /\ Same(replica[w].copy, attemptRow[c])
      /\ \A d \in Claims : ~Continues(d, c)
  BY <1>1, CurrentRow
<1>3. /\ row \in Rows /\ row.status = "GAVE_UP" /\ row.relaunchedAs = None
      /\ Same(row, attemptRow[c])
  BY <1>2 DEF Rows, Statuses, Same, GivenUpRow
<1> QED BY <1>1, <1>2, <1>3 DEF Rewrites, Same

\* So the ladder stays.
LEMMA GiveUpKeeps ==
    ASSUME LadderInv, NEW w \in Replicas, GiveUpVerificationAttempt(w)
    PROVE  LadderInv'
<1> DEFINE c == replica[w].cur
           row == GivenUpRow(w)
<1>1. /\ replica[w].pc = "LOOK" /\ world' = world /\ voidAge' = voidAge /\ voider' = voider
      /\ faults' = faults /\ replica' = [replica EXCEPT ![w] = NextAttempt(w)]
  BY DEF GiveUpVerificationAttempt, world
<1>2. /\ c \in Claims /\ HasRow(c) /\ fate[c] \in Lost
      /\ \A t \in replica[w].todo : t.claim # c
  BY <1>1, CurrentRow
<1>4. Rewrites(c, row)
  BY GiveUpRow
<1> HIDE DEF row
<1>5. OthersStay /\ \A e \in Claims : attemptRow'[e] = IF e = c THEN row ELSE attemptRow[e]
  BY <1>1, <1>2, <1>4, RewrittenRow DEF world
<1>6. \A t \in replica[w].todo : attemptRow'[t.claim].status = "VOIDED"
  BY <1>1, <1>2, <1>5, RunningTick DEF Listed
<1> QED BY <1>1, <1>5, <1>6, IterationEnds DEF LadderInv, Types, TypeOK

\* What the last save of a launch writes: the old copy with the link.
RelaunchedRow(w) == [replica[w].copy EXCEPT !.relaunchedAs = replica[w].child]

\* The row is voided still, and the link is that of its successor.
LEMMA SaveRelaunchedAsRow ==
    ASSUME LadderInv, NEW w \in Replicas, SaveRelaunchedAs(w)
    PROVE  /\ Rewrites(replica[w].cur, RelaunchedRow(w)) /\ RelaunchedRow(w).status = "VOIDED"
<1> DEFINE c == replica[w].cur
           d == replica[w].child
           row == RelaunchedRow(w)
<1>1. replica[w].pc = "LINKED" /\ attemptRow' = [attemptRow EXCEPT ![c] = row]
  BY DEF SaveRelaunchedAs, RelaunchedRow
<1>2. /\ c \in Claims /\ HasRow(c) /\ replica[w].copy \in Rows
      /\ replica[w].copy.status = "VOIDED" /\ Same(replica[w].copy, attemptRow[c])
  BY <1>1, CurrentRow
<1>3. d \in Claims /\ Continues(d, c)
  BY <1>1, CurrentRow DEF LadderInv, TicksAreSound, TickIsSound, Successors
<1>4. /\ row \in Rows /\ row.status = "VOIDED" /\ row.relaunchedAs = d
      /\ Same(row, attemptRow[c])
  BY <1>2, <1>3 DEF Rows, Same, RelaunchedRow
<1> QED BY <1>1, <1>2, <1>3, <1>4 DEF Rewrites

\* So the ladder stays.
LEMMA SaveRelaunchedAsKeeps ==
    ASSUME LadderInv, NEW w \in Replicas, SaveRelaunchedAs(w)
    PROVE  LadderInv'
<1> DEFINE c == replica[w].cur
           row == RelaunchedRow(w)
<1>1. /\ replica[w].pc = "LINKED" /\ world' = world /\ voidAge' = voidAge
      /\ voider' = voider /\ faults' = faults
      /\ replica' = [replica EXCEPT ![w] = NextAttempt(w)]
  BY DEF SaveRelaunchedAs, world
<1>2. c \in Claims /\ fate[c] \in Lost
  BY <1>1, CurrentRow
<1>5. Rewrites(c, row) /\ row.status = "VOIDED"
  BY SaveRelaunchedAsRow
<1> HIDE DEF row
<1>6. OthersStay /\ \A e \in Claims : attemptRow'[e] = IF e = c THEN row ELSE attemptRow[e]
  BY <1>1, <1>2, <1>5, RewrittenRow DEF world
<1>7. \A t \in replica[w].todo : attemptRow'[t.claim].status = "VOIDED"
  BY <1>1, <1>5, <1>6, RunningTick DEF Listed
<1> QED BY <1>1, <1>6, <1>7, IterationEnds DEF LadderInv, Types, TypeOK

\* The tick lists the voided attempts that are not linked.
LEMMA StartTickKeeps ==
    ASSUME LadderInv, NEW w \in Replicas, StartTick(w)
    PROVE  LadderInv'
<1> DEFINE tick == [Idle EXCEPT !.pc = "NEXT", !.todo = VoidedRows]
<1>1. /\ \A u \in Replicas : replica[u].pc = "IDLE"
      /\ onChain' = onChain /\ claimRow' = claimRow
      /\ voidAge' = voidAge /\ voider' = voider /\ faults' = faults
      /\ attemptRow' = attemptRow /\ replica' = [replica EXCEPT ![w] = tick]
      /\ \A c \in Claims : fate'[c] = IF fate[c] = "TORN" /\ attemptRow[c].status = "VOIDED"
                                      THEN "FAILING" ELSE fate[c]
  BY DEF StartTick
<1>2. FatesStay /\ fate' \in [Claims -> Fates]
  <2>1. fate' \in [Claims -> Fates]
    BY DEF StartTick, LadderInv, Types, TypeOK, Fates
  <2> QED BY <1>1, <2>1 DEF FatesStay, Failed, Lost
<1>9. OthersStay
  BY <1>1, <1>2, UnchangedRows
<1>3. /\ \A t \in VoidedRows : t \in Listing
      /\ \A t \in VoidedRows :
             /\ t.claim \in Claims /\ t.row = attemptRow[t.claim]
             /\ t.row.status = "VOIDED" /\ t.row.relaunchedAs = None
             /\ fate'[t.claim] \in Lost
  <2>1. \A c \in Claims : attemptRow[c].status = "VOIDED" => fate'[c] \in Lost
    BY <1>1 DEF LadderInv, RowsAreSound, FailedRow, Failed, Lost, HasRow
  <2> QED BY <2>1 DEF VoidedRows, Listing, LadderInv, Types, TypeOK
<1>4. \A s, t \in VoidedRows : s.claim = t.claim => s = t
  BY DEF VoidedRows
<1>5. tick \in Ticks /\ tick.pc = "NEXT" /\ tick.todo = VoidedRows
  <2>1. NoRow \in Rows
    BY Sizes DEF NoRow, Rows
  <2>2. Idle \in Ticks
    BY <2>1 DEF Idle, Ticks, Stages
  <2> QED BY <1>3, <2>2 DEF Ticks, Stages
<1> HIDE DEF tick
<1>6. /\ replica'[w] = tick /\ replica' \in [Replicas -> Ticks] /\ Alone'
      /\ TickIsSound(w)' => TicksAreSound'
  BY <1>1, <1>5, OneTick DEF Alone
<1>7. \A t \in VoidedRows : Listed(t.claim, t.row)'
  BY <1>1, <1>3 DEF Listed, HasRow, Same
<1>8. TickIsSound(w)'
  BY <1>4, <1>5, <1>6, <1>7 DEF TickIsSound, Launching
<1> QED BY <1>1, <1>2, <1>6, <1>8, <1>9, TickStep DEF LadderInv, Types, TypeOK

\* It takes the next of them.
LEMMA TakeAttemptKeeps ==
    ASSUME LadderInv, NEW w \in Replicas, TakeAttempt(w)
    PROVE  LadderInv'
<1>1. /\ replica[w].pc = "NEXT" /\ world' = world /\ voidAge' = voidAge /\ voider' = voider
      /\ faults' = faults /\ attemptRow' = attemptRow
  BY DEF TakeAttempt, world
<1>2. OthersStay /\ onChain' = onChain /\ claimRow' = claimRow /\ fate' = fate
  BY <1>1, UnchangedRows DEF world
<1>3. /\ \A u \in Replicas : u # w => replica[u].pc = "IDLE"
      /\ TickIsSound(w) /\ replica[w] \in Ticks /\ replica[w].todo \in SUBSET Listing
      /\ \A t \in replica[w].todo : Listed(t.claim, t.row)
  BY <1>1, RunningTick
<1>4. PICK t \in replica[w].todo :
         replica' = [replica EXCEPT ![w].pc = "LOOK", ![w].cur = t.claim,
                                    ![w].copy = t.row, ![w].todo = @ \ {t}]
  BY DEF TakeAttempt
<1> DEFINE tick == [replica[w] EXCEPT !.pc = "LOOK", !.cur = t.claim, !.copy = t.row,
                                      !.todo = replica[w].todo \ {t}]
<1>5. t \in Listing /\ t.claim \in Claims /\ t.row \in Rows
  BY <1>3 DEF Listing
<1>6. /\ tick \in Ticks /\ tick.pc = "LOOK" /\ tick.cur = t.claim /\ tick.copy = t.row
      /\ tick.todo = replica[w].todo \ {t}
  BY <1>3, <1>5 DEF Ticks, Stages
<1>7. replica' = [replica EXCEPT ![w] = tick]
  BY <1>4 DEF LadderInv, Types
<1> HIDE DEF tick
<1>8. /\ replica'[w] = tick /\ replica' \in [Replicas -> Ticks] /\ Alone'
      /\ TickIsSound(w)' => TicksAreSound'
  BY <1>3, <1>6, <1>7, OneTick DEF Alone
<1>9. \A s \in replica[w].todo : Listed(s.claim, s.row)'
  BY <1>1, <1>2, <1>3 DEF Listed, HasRow, Same
<1>10. \A s \in tick.todo : s.claim # t.claim
  BY <1>3, <1>6 DEF TickIsSound
<1>11. \A r, s \in tick.todo : r.claim = s.claim => r = s
  BY <1>3, <1>6 DEF TickIsSound
<1>12. TickIsSound(w)'
  <2>1. Listed(replica[w].cur, replica[w].copy)'
    BY <1>6, <1>8, <1>9
  <2> QED BY <1>6, <1>8, <1>9, <1>10, <1>11, <2>1 DEF TickIsSound, Launching
<1> QED BY <1>1, <1>2, <1>8, <1>12, TickStep DEF LadderInv, Types, TypeOK

\* A step of a launch keeps its list and its copy; what it must show is the rest.
LEMMA LaunchStep ==
    ASSUME LadderInv, OthersStay, NEW w \in Replicas, replica[w].pc \notin {"IDLE", "NEXT"},
           NEW pc \in {"LAUNCH", "CREATED", "SAVED", "ROWED", "LINKED"},
           NEW child \in Claims \cup {None},
           replica' = [replica EXCEPT ![w].pc = pc, ![w].child = child],
           \A c \in Claims : attemptRow[c].status = "VOIDED" => attemptRow'[c].status = "VOIDED"
    PROVE  /\ replica'[w].pc = pc /\ replica'[w].child = child
           /\ replica'[w].cur = replica[w].cur /\ replica'[w].copy = replica[w].copy
           /\ replica' \in [Replicas -> Ticks] /\ Alone'
           /\ (/\ Launching(w)' => Successors(w)' = {} /\ replica[w].copy.attempt < MaxAttempts
               /\ pc \in {"CREATED", "SAVED"} =>
                      child \in onChain' /\ ~HasRow(child)' /\ fate'[child] = "OPEN"
               /\ pc = "CREATED" => child \notin claimRow'
               /\ pc = "SAVED" => child \in claimRow'
               /\ pc \in {"ROWED", "LINKED"} => child \in Successors(w)')
              => TicksAreSound'
<1> DEFINE tick == [replica[w] EXCEPT !.pc = pc, !.child = child]
<1>1. /\ \A u \in Replicas : u # w => replica[u].pc = "IDLE"
      /\ TickIsSound(w) /\ replica[w] \in Ticks
      /\ \A t \in replica[w].todo : Listed(t.claim, t.row)
  BY RunningTick
<1>2. /\ tick \in Ticks /\ tick.pc = pc /\ tick.child = child /\ tick.todo = replica[w].todo
      /\ tick.cur = replica[w].cur /\ tick.copy = replica[w].copy
  BY <1>1 DEF Ticks, Stages
<1>3. replica' = [replica EXCEPT ![w] = tick]
  BY DEF LadderInv, Types
<1> HIDE DEF tick
<1>4. /\ replica'[w] = tick /\ replica' \in [Replicas -> Ticks] /\ Alone'
      /\ TickIsSound(w)' => TicksAreSound'
  BY <1>1, <1>2, <1>3, OneTick DEF Alone
<1>5. \A c, row : Listed(c, row) => Listed(c, row)'
  BY ListedStays DEF OthersStay, Listed
<1>6. /\ \A t \in replica'[w].todo : Listed(t.claim, t.row)'
      /\ Listed(replica[w].cur, replica[w].copy)'
  <2>1. Listed(replica[w].cur, replica[w].copy)
    BY <1>1 DEF TickIsSound
  <2>2. \A t \in replica'[w].todo : Listed(t.claim, t.row)'
    BY <1>1, <1>2, <1>4, <1>5
  <2>3. PICK c, row : c = replica[w].cur /\ row = replica[w].copy
    OBVIOUS
  <2>4. Listed(c, row)'
    BY <1>5, <2>1, <2>3
  <2>5. c = replica'[w].cur /\ row = replica'[w].copy
    BY <1>2, <1>4, <2>3
  <2> QED BY <2>2, <2>4, <2>5
<1> SUFFICES ASSUME Launching(w)' => Successors(w)' = {} /\ replica[w].copy.attempt < MaxAttempts,
                    pc \in {"CREATED", "SAVED"} =>
                        child \in onChain' /\ ~HasRow(child)' /\ fate'[child] = "OPEN",
                    pc = "CREATED" => child \notin claimRow',
                    pc = "SAVED" => child \in claimRow',
                    pc \in {"ROWED", "LINKED"} => child \in Successors(w)'
             PROVE  TickIsSound(w)'
  BY <1>2, <1>4
<1>7. /\ replica'[w].pc = "IDLE" => replica'[w] = Idle
      /\ \A s, t \in replica'[w].todo : s.claim = t.claim => s = t
      /\ \A t \in replica'[w].todo : t.claim # replica'[w].cur
  BY <1>1, <1>2, <1>4 DEF TickIsSound
<1>8. /\ Launching(w)' => Successors(w)' = {} /\ replica'[w].copy.attempt < MaxAttempts
      /\ replica'[w].pc \in {"CREATED", "SAVED"} =>
             /\ replica'[w].child \in onChain' /\ ~HasRow(replica[w].child)'
             /\ fate'[replica'[w].child] = "OPEN"
      /\ replica'[w].pc = "CREATED" => replica'[w].child \notin claimRow'
      /\ replica'[w].pc = "SAVED" => replica'[w].child \in claimRow'
      /\ replica'[w].pc \in {"ROWED", "LINKED"} => replica'[w].child \in Successors(w)'
  BY <1>2, <1>4 DEF HasRow
<1> QED BY <1>6, <1>7, <1>8 DEF TickIsSound, Idle

\* The launch is decided on: no successor, and fewer attempts than there may be.
LEMMA PassWeatherGateKeeps ==
    ASSUME LadderInv, NEW w \in Replicas, PassWeatherGate(w)
    PROVE  LadderInv'
<1>1. /\ replica[w].pc = "LOOK" /\ world' = world /\ voidAge' = voidAge /\ voider' = voider
      /\ faults' = faults /\ attemptRow' = attemptRow /\ Successors(w) = {}
      /\ ~Exhausted(w) /\ replica' = [replica EXCEPT ![w].pc = "LAUNCH"]
  BY DEF PassWeatherGate, world
<1>2. OthersStay /\ onChain' = onChain /\ claimRow' = claimRow /\ fate' = fate
  BY <1>1, UnchangedRows DEF world
<1> DEFINE child == replica[w].child
<1>3. /\ child \in Claims \cup {None} /\ replica[w] \in Ticks
      /\ replica' = [replica EXCEPT ![w].pc = "LAUNCH", ![w].child = child]
  BY <1>1 DEF LadderInv, Types, Ticks
<1> HIDE DEF child
<1>4. /\ replica'[w].pc = "LAUNCH" /\ replica'[w].cur = replica[w].cur
      /\ replica'[w].copy = replica[w].copy /\ replica' \in [Replicas -> Ticks] /\ Alone'
      /\ (Launching(w)' => Successors(w)' = {} /\ replica[w].copy.attempt < MaxAttempts)
         => TicksAreSound'
  BY <1>1, <1>2, <1>3, LaunchStep
<1>5. Successors(w)' = Successors(w)
  BY <1>1, <1>4 DEF Successors, HasRow
<1>6. replica[w].copy.attempt < MaxAttempts
  <2>1. replica[w].copy.attempt \in Nat
    BY <1>3 DEF Ticks, Rows
  <2> QED BY <1>1, <2>1, Sizes DEF Exhausted
<1> QED BY <1>1, <1>2, <1>4, <1>5, <1>6, TickStep DEF LadderInv, Types, TypeOK

\* The new claim is nobody's: it has no row and is not decided.
LEMMA CreateClaimKeeps ==
    ASSUME LadderInv, NEW w \in Replicas, NEW c \in Claims, CreateClaim(w, c)
    PROVE  LadderInv'
<1>1. /\ replica[w].pc = "LAUNCH" /\ claimRow' = claimRow /\ fate' = fate
      /\ voidAge' = voidAge /\ voider' = voider /\ faults' = faults
      /\ attemptRow' = attemptRow /\ c \notin onChain /\ onChain' = onChain \cup {c}
      /\ replica' = [replica EXCEPT ![w].pc = "CREATED", ![w].child = c]
  BY DEF CreateClaim, IsNext
<1>2. OthersStay
  BY <1>1, UnchangedRows
<1>3. /\ replica'[w].pc = "CREATED" /\ replica'[w].cur = replica[w].cur
      /\ replica'[w].copy = replica[w].copy /\ replica' \in [Replicas -> Ticks] /\ Alone'
      /\ (/\ Launching(w)' => Successors(w)' = {} /\ replica[w].copy.attempt < MaxAttempts
          /\ c \in onChain' /\ ~HasRow(c)' /\ fate'[c] = "OPEN" /\ c \notin claimRow')
         => TicksAreSound'
  BY <1>1, <1>2, LaunchStep
<1>4. Successors(w)' = Successors(w)
  BY <1>1, <1>3 DEF Successors, HasRow
<1>5. Successors(w) = {} /\ replica[w].copy.attempt < MaxAttempts
  BY <1>1 DEF LadderInv, TicksAreSound, TickIsSound, Launching
<1>6. c \notin claimRow /\ ~HasRow(c)' /\ fate'[c] = "OPEN"
  BY <1>1 DEF LadderInv, Types, TypeOK, RowsAreSound, DecidedIsSaved, HasRow
<1> QED BY <1>1, <1>2, <1>3, <1>4, <1>5, <1>6, TickStep DEF LadderInv, Types, TypeOK

\* Its row follows; the attempt row is still to come.
LEMMA SaveClaimKeeps ==
    ASSUME LadderInv, NEW w \in Replicas, SaveClaim(w)
    PROVE  LadderInv'
<1> DEFINE c == replica[w].child
<1>1. /\ replica[w].pc = "CREATED" /\ claimRow' = claimRow \cup {c} /\ fate' = fate
      /\ voidAge' = voidAge /\ voider' = voider /\ faults' = faults
      /\ attemptRow' = attemptRow /\ onChain' = onChain
      /\ replica' = [replica EXCEPT ![w].pc = "SAVED"]
  BY DEF SaveClaim
<1>2. OthersStay
  BY <1>1, UnchangedRows
<1>3. /\ c \in Claims /\ c \in onChain /\ ~HasRow(c) /\ fate[c] = "OPEN"
      /\ replica' = [replica EXCEPT ![w].pc = "SAVED", ![w].child = c]
  BY <1>1, Launched DEF LadderInv, Types, Ticks
<1> HIDE DEF c
<1>4. /\ replica'[w].pc = "SAVED" /\ replica'[w].cur = replica[w].cur
      /\ replica'[w].copy = replica[w].copy /\ replica' \in [Replicas -> Ticks] /\ Alone'
      /\ (/\ Launching(w)' => Successors(w)' = {} /\ replica[w].copy.attempt < MaxAttempts
          /\ c \in onChain' /\ attemptRow'[c].status = "NONE" /\ fate'[c] = "OPEN"
          /\ c \in claimRow')
         => TicksAreSound'
  BY <1>1, <1>2, <1>3, LaunchStep DEF HasRow
<1>5. Successors(w)' = Successors(w)
  BY <1>1, <1>4 DEF Successors, HasRow
<1>6. Successors(w) = {} /\ replica[w].copy.attempt < MaxAttempts
  BY <1>1 DEF LadderInv, TicksAreSound, TickIsSound, Launching
<1>7. TicksAreSound'
  BY <1>1, <1>3, <1>4, <1>5, <1>6 DEF HasRow
<1> QED BY <1>1, <1>2, <1>3, <1>4, <1>7, TickStep DEF LadderInv, Types, TypeOK

\* The attempt row of the new claim.
NextRow(w) ==
    LaunchedRow(replica[w].copy.verification, replica[w].copy.attempt + 1, replica[w].cur)

\* It continues the voided attempt, and it alone does.
LEMMA SaveVerificationAttemptRow ==
    ASSUME LadderInv, NEW w \in Replicas, SaveVerificationAttempt(w)
    PROVE  Extends(replica[w].child, replica[w].cur, NextRow(w))
<1> DEFINE c == replica[w].child
           p == replica[w].cur
           row == NextRow(w)
<1>1. replica[w].pc = "SAVED" /\ attemptRow' = [attemptRow EXCEPT ![c] = row]
  BY DEF SaveVerificationAttempt, NextRow
<1>3. c \in Claims /\ ~HasRow(c)
  BY <1>1, Launched
<1>4. /\ p \in Claims /\ HasRow(p) /\ attemptRow[p].status = "VOIDED" /\ fate[p] \in Lost
      /\ replica[w].copy \in Rows /\ Same(replica[w].copy, attemptRow[p])
      /\ \A d \in Claims : d \in Successors(w) <=> Continues(d, p)
  BY <1>1, CurrentRow
<1>5. Successors(w) = {} /\ replica[w].copy.attempt < MaxAttempts
  BY <1>1 DEF LadderInv, TicksAreSound, TickIsSound, Launching
<1>6. /\ row.verification = replica[w].copy.verification /\ row.parent = p
      /\ row.attempt = replica[w].copy.attempt + 1 /\ row.status = "ACTIVE"
      /\ row.relaunchedAs = None
  BY DEF LaunchedRow, NextRow
<1>7. row \in Rows
  <2>1. replica[w].copy.verification \in Claims \cup {None}
        /\ replica[w].copy.attempt \in 0 .. MaxAttempts
    BY <1>4 DEF Rows
  <2>2. replica[w].copy.attempt + 1 \in 0 .. MaxAttempts
    BY <1>5, <2>1, Sizes
  <2> QED BY <1>4, <2>1, <2>2 DEF LaunchedRow, NextRow, Rows, Statuses
<1> HIDE DEF row, c, p
<1>8. Extends(c, p, row)
  BY <1>1, <1>3, <1>4, <1>5, <1>6, <1>7 DEF Extends, Same
<1> QED BY <1>8 DEF c, p, row

\* So the ladder stays.
LEMMA SaveVerificationAttemptKeeps ==
    ASSUME LadderInv, NEW w \in Replicas, SaveVerificationAttempt(w)
    PROVE  LadderInv'
<1> DEFINE c == replica[w].child
           p == replica[w].cur
           row == NextRow(w)
<1>1. /\ replica[w].pc = "SAVED" /\ world' = world /\ voidAge' = voidAge /\ voider' = voider
      /\ faults' = faults
      /\ replica' = [replica EXCEPT ![w].pc = "ROWED"]
  BY DEF SaveVerificationAttempt, world
<1>2. Types /\ RowsAreSound /\ OneLadder /\ DecidedIsSaved
  BY DEF LadderInv
<1>3. /\ c \in Claims /\ c \in onChain /\ c \in claimRow /\ ~HasRow(c) /\ fate[c] = "OPEN"
      /\ replica' = [replica EXCEPT ![w].pc = "ROWED", ![w].child = c]
  BY <1>1, Launched DEF LadderInv, Types, Ticks, TicksAreSound, TickIsSound
<1>8. Extends(c, p, row)
  BY SaveVerificationAttemptRow
<1> HIDE DEF row, c, p
<1>6. /\ p \in Claims /\ HasRow(p) /\ attemptRow[p].status = "VOIDED"
      /\ row.verification = attemptRow[p].verification /\ row.parent = p
      /\ row.attempt = attemptRow[p].attempt + 1 /\ row.status = "ACTIVE"
      /\ row \in Rows /\ attemptRow' = [attemptRow EXCEPT ![c] = row]
  BY <1>8 DEF Extends
<1>7. Same(replica[w].copy, attemptRow[p])
  BY <1>1, CurrentRow DEF p
<1>9. RowsAreSound' /\ OneLadder' /\ attemptRow' \in [Claims -> Rows] /\ DecidedIsSaved'
  <2>1. RowsAreSound'
    <3>1. FatesStay
      BY <1>1 DEF FatesStay, world
    <3> QED BY <1>1, <1>2, <1>3, <1>8, <3>1, NewRowKeepsSound DEF world
  <2>2. OneLadder'
    BY <1>2, <1>3, <1>8, ExtensionKeepsLadder
  <2> QED BY <1>1, <1>2, <1>6, <2>1, <2>2 DEF Types, TypeOK, DecidedIsSaved, world
<1>10. /\ \A d \in Claims : attemptRow'[d] = IF d = c THEN row ELSE attemptRow[d]
       /\ \A d \in Claims : HasRow(d)' <=> HasRow(d) \/ d = c
  <2>1. PICK e \in Claims : e = c
    BY <1>3
  <2>2. ~HasRow(e) /\ row.status # "NONE" /\ attemptRow' = [attemptRow EXCEPT ![e] = row]
    BY <1>3, <1>6, <2>1
  <2>3. /\ \A d \in Claims : attemptRow'[d] = IF d = e THEN row ELSE attemptRow[d]
        /\ \A d \in Claims : HasRow(d)' <=> HasRow(d) \/ d = e
    BY <1>2, <2>2, NewRowKeepsRows
  <2> QED BY <2>1, <2>3
<1>11. RowsStay
  BY <1>1, <1>3, <1>10 DEF RowsStay, FatesStay, Same, world
<1>12. OthersStay
  BY <1>1, <1>9, <1>11, CopyStays DEF OthersStay, VoidersHoldCopies
<1>13. \A d \in Claims : attemptRow[d].status = "VOIDED" => attemptRow'[d].status = "VOIDED"
  BY <1>3, <1>10 DEF HasRow
<1>14. /\ replica'[w].pc = "ROWED" /\ replica'[w].cur = p /\ replica'[w].copy = replica[w].copy
       /\ replica' \in [Replicas -> Ticks] /\ Alone'
       /\ ~Launching(w)' /\ c \in Successors(w)' => TicksAreSound'
  BY <1>1, <1>3, <1>12, <1>13, LaunchStep DEF p
<1>15. c \in Successors(w)' /\ ~Launching(w)'
  BY <1>3, <1>6, <1>7, <1>10, <1>14 DEF Same, Successors, Launching, HasRow
<1> QED BY <1>1, <1>12, <1>14, <1>15, TickStep DEF LadderInv, Types, TypeOK, world

\* The parent is linked to it.
LEMMA LinkKeeps ==
    ASSUME LadderInv, NEW w \in Replicas, LinkRelaunchedAttempt(w)
    PROVE  LadderInv'
<1> DEFINE c == replica[w].cur
           d == replica[w].child
           row == LinkedRow(w, d)
<1>1. /\ replica[w].pc = "ROWED" /\ world' = world /\ voidAge' = voidAge /\ voider' = voider
      /\ faults' = faults /\ attemptRow' = Linked(c, d)
      /\ replica' = [replica EXCEPT ![w].pc = "LINKED"]
  BY DEF LinkRelaunchedAttempt, world
<1>2. /\ d \in Claims /\ d \in Successors(w)
      /\ replica' = [replica EXCEPT ![w].pc = "LINKED", ![w].child = d]
  BY <1>1 DEF LadderInv, TicksAreSound, TickIsSound, Successors, Types, Ticks
<1>3. c \in Claims /\ fate[c] \in Lost
  BY <1>1, CurrentRow
<1>4. Rewrites(c, row) /\ row.status = "VOIDED"
  BY <1>1, <1>2, LinkRewrites
<1> HIDE DEF row, c, d
<1>5. OthersStay /\ \A e \in Claims : attemptRow'[e] = IF e = c THEN row ELSE attemptRow[e]
  BY <1>1, <1>3, <1>4, RewrittenRow DEF world
<1>6. \A e \in Claims : attemptRow[e].status = "VOIDED" => attemptRow'[e].status = "VOIDED"
  BY <1>4, <1>5
<1>7. /\ replica'[w].pc = "LINKED" /\ replica'[w].cur = replica[w].cur
      /\ replica'[w].copy = replica[w].copy /\ replica' \in [Replicas -> Ticks] /\ Alone'
      /\ ~Launching(w)' /\ d \in Successors(w)' => TicksAreSound'
  BY <1>1, <1>2, <1>5, <1>6, LaunchStep
<1>8. d \in Successors(w)' /\ ~Launching(w)'
  <2>1. PICK e \in Claims : e = d
    BY <1>2
  <2>2. HasRow(e) /\ HasRow(e)' /\ Same(attemptRow'[e], attemptRow[e])
    BY <1>2, <1>5, <2>1 DEF OthersStay, RowsStay, Successors
  <2>3. e \in Successors(w)'
    BY <1>2, <1>7, <2>1, <2>2 DEF Successors, Same
  <2> QED BY <1>7, <2>1, <2>3 DEF Launching
<1> QED BY <1>1, <1>5, <1>7, <1>8, TickStep DEF LadderInv, Types, TypeOK, world

-----------------------------------------------------------------------------
(* The theorems                                                            *)

\* Nothing is there at first.
LEMMA LadderInit == Init => LadderInv
<1> SUFFICES ASSUME Init PROVE LadderInv
  OBVIOUS
<1>1. NoRow \in Rows /\ NoRow.status = "NONE"
  BY Sizes DEF NoRow, Rows
<1>2. /\ attemptRow = [c \in Claims |-> NoRow] /\ \A c \in Claims : ~HasRow(c)
      /\ fate = [c \in Claims |-> "OPEN"]
  BY <1>1 DEF Init, HasRow
<1>3. Idle \in Ticks /\ Idle.pc = "IDLE" /\ Idle.todo = {}
  BY <1>1 DEF Idle, Ticks, Stages
<1>4. \A w \in Replicas : replica[w] = Idle
  BY DEF Init
<1>5. NotVoiding \in [claim : Claims \cup {None}, copy : Rows]
  BY <1>1 DEF NotVoiding
<1>6. Types
  <2>1. 0 \in 0 .. GiveUpAfter + 1 /\ 0 \in 0 .. MaxFaults
    BY Sizes
  <2>2. replica \in [Replicas -> Ticks]
    BY <1>3 DEF Init
  <2> QED BY <1>1, <1>3, <1>4, <1>5, <2>1, <2>2 DEF Init, Types, TypeOK
<1>7. RowsAreSound /\ OneLadder /\ DecidedIsSaved
  BY <1>2 DEF RowsAreSound, OneLadder, DecidedIsSaved
<1>8. VoidersHoldCopies
  BY DEF Init, VoidersHoldCopies, HoldsCopy
<1>9. TicksAreSound
  BY <1>3, <1>4 DEF TicksAreSound, TickIsSound, Launching
<1> QED BY <1>6, <1>7, <1>8, <1>9 DEF LadderInv

\* Every step keeps the inductive invariant.
LEMMA LadderNext == LadderInv /\ [Next]_vars => LadderInv'
<1> SUFFICES ASSUME LadderInv, [Next]_vars PROVE LadderInv'
  OBVIOUS
<1>1. ASSUME NEW c \in Claims, FactCheckStart(c) \/ Fail(c) \/ Tear(c) \/ Settle(c)
      PROVE  LadderInv'
  BY <1>1, FactCheckStartKeeps, FailKeeps, SettleKeeps
<1>2. ASSUME NEW v \in Voiders, VoidAttempt(v) \/ \E c \in Claims : ReadAttempt(v, c)
      PROVE  LadderInv'
  BY <1>2, VoidAttemptKeeps, ReadAttemptKeeps
<1>3. ASSUME NEW w \in Replicas, RelaunchStep(w) PROVE LadderInv'
  <2>1. CASE StartTick(w) \/ TakeAttempt(w)
    BY <2>1, StartTickKeeps, TakeAttemptKeeps
  <2>2. CASE AdoptSuccessor(w) \/ GiveUpVerificationAttempt(w)
    BY <2>2, AdoptSuccessorKeeps, GiveUpKeeps
  <2>3. CASE WaitForLaunch(w) \/ PassWeatherGate(w)
    BY <2>3, IdleSteps, PassWeatherGateKeeps
  <2>4. CASE SaveClaim(w) \/ \E c \in Claims : CreateClaim(w, c)
    BY <2>4, SaveClaimKeeps, CreateClaimKeeps
  <2>5. CASE SaveVerificationAttempt(w) \/ LinkRelaunchedAttempt(w) \/ SaveRelaunchedAs(w)
    BY <2>5, SaveVerificationAttemptKeeps, LinkKeeps, SaveRelaunchedAsKeeps
  <2> QED BY <1>3, <2>1, <2>2, <2>3, <2>4, <2>5 DEF RelaunchStep
<1>4. ASSUME NEW w \in Replicas, CallFails(w) \/ Crash(w) PROVE LadderInv'
  BY <1>4, IdleSteps
<1>5. CASE Tick
  BY <1>5, TickKeeps
<1>6. CASE UNCHANGED vars
  <2>1. OthersStay
    BY <1>6, UnchangedRows DEF vars
  <2>2. TicksAreSound'
    <3>1. Calm
      BY <1>6, <2>1, Launched DEF vars, Calm, OthersStay, HasRow
    <3> QED BY <3>1, CalmKeepsTicks
  <2>3. Types'
    BY <1>6 DEF vars, LadderInv, Types, TypeOK
  <2> QED BY <2>1, <2>2, <2>3 DEF LadderInv, OthersStay
<1> QED BY <1>1, <1>2, <1>3, <1>4, <1>5, <1>6 DEF Next

\* The inductive invariant of the relaunches.
LEMMA LadderAlways == Spec => []LadderInv
BY LadderInit, LadderNext, PTL DEF Spec

\* Whatever dies between two saves, and however many replicas of the worker and calls of
\* voidAttempt there are, the attempts of a verification stay one ladder: each number
\* once, each later attempt the continuation of the voided one before it.
THEOREM AttemptsAreOneLadder == Spec => []OneLadder
<1>1. LadderInv => OneLadder
  BY DEF LadderInv
<1> QED BY LadderAlways, <1>1, PTL

\* No verification is attempted more often than MAX_VERIFICATION_ATTEMPTS allows, and one
\* replica at a time is inside its tick.
THEOREM AttemptTypes == Spec => []TypeOK
<1>1. LadderInv => TypeOK
  BY DEF LadderInv, Types
<1> QED BY LadderAlways, <1>1, PTL

-----------------------------------------------------------------------------
(* How high a ladder is                                                    *)

\* The attempts of a verification.
Of(r) == {c \in Claims : attemptRow[c].verification = r}

\* Its attempts bear the numbers from one to their count.
Dense(r) ==
    /\ \A c \in Of(r) : attemptRow[c].attempt <= Level(r)
    /\ \A n \in 1 .. Level(r) : \E c \in Of(r) : attemptRow[c].attempt = n

EmptyRows == \A c \in Claims : HasRow(c) \/ attemptRow[c] = NoRow

\* What a step of the ladder needs to know.
RungsInv == Types /\ RowsAreSound /\ OneLadder /\ EmptyRows /\ \A r \in Claims : Dense(r)

\* Finitely many attempts are counted by a number.
LEMMA LevelIsNumber ==
    ASSUME NEW r
    PROVE  /\ IsFiniteSet(Of(r)) /\ Level(r) = Cardinality(Of(r)) /\ Level(r) \in Nat
           /\ Level(r) = 0 <=> Of(r) = {}
<1>1. IsFiniteSet(Of(r))
  BY SizesAssumption, FS_Subset DEF Of
<1>2. Level(r) = Cardinality(Of(r))
  BY DEF Level, Of
<1> QED BY <1>1, <1>2, FS_CardinalityType, FS_EmptySet

\* The attempts of a verification have rows.
LEMMA AttemptsHaveRows ==
    ASSUME RungsInv, NEW r \in Claims, NEW c \in Of(r)
    PROVE  /\ c \in Claims /\ HasRow(c) /\ attemptRow[c].verification = r
           /\ attemptRow[c].attempt \in 1 .. Level(r) /\ attemptRow[c].attempt \in Nat
           /\ attemptRow[c] \in Rows
<1>1. c \in Claims /\ attemptRow[c].verification = r /\ HasRow(c)
  BY Sizes DEF RungsInv, EmptyRows, Of, NoRow
<1>2. attemptRow[c].attempt \in Nat /\ attemptRow[c] \in Rows
  BY <1>1 DEF RungsInv, Types, TypeOK, Rows
<1>3. attemptRow[c].attempt >= 1
  BY <1>1 DEF RungsInv, RowsAreSound
<1>4. attemptRow[c].attempt <= Level(r)
  BY DEF RungsInv, Dense
<1> QED BY <1>1, <1>2, <1>3, <1>4, LevelIsNumber

\* The last attempt is the one that bears the count as its number.
LEMMA LastAttempt ==
    ASSUME RungsInv, NEW r \in Claims, NEW c \in Of(r), attemptRow[c].attempt = Level(r)
    PROVE  Standing(r) = attemptRow[c].status /\ Level(r) # 0
<1>1. /\ c \in Claims /\ HasRow(c) /\ attemptRow[c].verification = r
      /\ attemptRow[c].attempt \in 1 .. Level(r)
  BY AttemptsHaveRows
<1>2. Level(r) # 0
  BY <1>1, LevelIsNumber
<1> DEFINE Last(row) == row.verification = r /\ row.attempt = Level(r)
           All == {attemptRow[d] : d \in Claims}
<1>3. ASSUME NEW row \in All, Last(row) PROVE row = attemptRow[c]
  <2>1. PICK d \in Claims : row = attemptRow[d]
    OBVIOUS
  <2>2. d \in Of(r)
    BY <1>3, <2>1 DEF Of
  <2>3. HasRow(d) /\ attemptRow[d].verification = r /\ attemptRow[d].attempt = Level(r)
    BY <1>3, <2>1, <2>2, AttemptsHaveRows
  <2>4. d = c
    BY <1>1, <2>3 DEF RungsInv, OneLadder
  <2> QED BY <2>1, <2>4
<1>4. attemptRow[c] \in All /\ Last(attemptRow[c])
  BY <1>1
<1>5. (CHOOSE row \in All : Last(row)) = attemptRow[c]
  <2> HIDE DEF All, Last
  <2> QED BY <1>3, <1>4
<1> QED BY <1>2, <1>5 DEF Standing

\* An attempt that is not the last is continued.
LEMMA EarlierIsContinued ==
    ASSUME RungsInv, NEW r \in Claims, NEW c \in Of(r), attemptRow[c].attempt # Level(r)
    PROVE  \E d \in Of(r) : Continues(d, c)
<1>1. /\ c \in Claims /\ HasRow(c) /\ attemptRow[c].verification = r
      /\ attemptRow[c].attempt \in 1 .. Level(r) /\ attemptRow[c].attempt \in Nat
  BY AttemptsHaveRows
<1>2. attemptRow[c].attempt + 1 \in 1 .. Level(r)
  BY <1>1, LevelIsNumber
<1>3. PICK d \in Of(r) : attemptRow[d].attempt = attemptRow[c].attempt + 1
  BY <1>2 DEF RungsInv, Dense
<1>4. /\ d \in Claims /\ HasRow(d) /\ attemptRow[d].verification = r
      /\ attemptRow[d].attempt > 1
  BY <1>1, <1>3, AttemptsHaveRows
<1> DEFINE p == attemptRow[d].parent
<1>5. p \in Claims /\ HasRow(p) /\ Continues(d, p)
  BY <1>4, LaterContinues DEF RungsInv
<1>6. attemptRow[p].verification = r /\ attemptRow[p].attempt \in Nat
      /\ attemptRow[d].attempt = attemptRow[p].attempt + 1
  BY <1>4, <1>5 DEF Continues, RungsInv, Types, TypeOK, Rows
<1>7. attemptRow[p].attempt = attemptRow[c].attempt
  BY <1>1, <1>3, <1>6
<1>8. p = c
  BY <1>1, <1>5, <1>6, <1>7 DEF RungsInv, OneLadder
<1> QED BY <1>5, <1>8

\* Every verification that was attempted has a last attempt.
LEMMA LastExists ==
    ASSUME RungsInv, NEW r \in Claims, Level(r) # 0
    PROVE  \E c \in Of(r) : attemptRow[c].attempt = Level(r)
<1>1. Level(r) \in 1 .. Level(r)
  BY LevelIsNumber
<1> QED BY <1>1 DEF RungsInv, Dense

-----------------------------------------------------------------------------
(* What a written row does to the ladder                                   *)

\* One step of the ladder of r, in terms of what a reader is told.
Climbs(r) ==
    \/ Level(r)' = Level(r) /\ Standing(r)' = Standing(r)
    \/ /\ Level(r) = 0 /\ Standing(r) = "NONE"
       /\ Level(r)' = 1 /\ Standing(r)' \in {"ACTIVE", "SETTLED"}
    \/ /\ Level(r) < MaxAttempts /\ Standing(r) = "VOIDED"
       /\ Level(r)' = Level(r) + 1 /\ Standing(r)' = "ACTIVE"
    \/ /\ Level(r)' = Level(r)
       /\ \/ Standing(r) = "ACTIVE" /\ Standing(r)' \in {"VOIDED", "SETTLED"}
          \/ Torn(r) /\ Standing(r) = "VOIDED" /\ Standing(r)' = "SETTLED"
          \/ Torn(r) /\ Standing(r) = "SETTLED" /\ Standing(r)' = "VOIDED"
          \/ Standing(r) = "VOIDED" /\ Standing(r)' = "GAVE_UP"
          \/ /\ Level(r) = MaxAttempts
             /\ Standing(r) = "GAVE_UP" /\ Standing(r)' = "VOIDED"

\* That is a step of the abstract ladder.
LEMMA ClimbsIsStep ==
    ASSUME \A r \in Claims : Climbs(r)
    PROVE  \A r \in Claims : Ladder!Step(r)
<1> SUFFICES ASSUME NEW r \in Claims PROVE Ladder!Step(r)
  OBVIOUS
<1>1. Climbs(r) /\ Level(r) \in Nat
  BY LevelIsNumber
<1>2. CASE Level(r)' = Level(r) /\ Standing(r)' = Standing(r)
  BY <1>2 DEF Ladder!Step, Ladder!Stay
<1>3. CASE /\ Level(r) = 0 /\ Standing(r) = "NONE"
           /\ Level(r)' = 1 /\ Standing(r)' \in {"ACTIVE", "SETTLED"}
  BY <1>3 DEF Ladder!Step, Ladder!Submit, Ladder!SettleAtOnce, Ladder!Move
<1>4. CASE /\ Level(r) < MaxAttempts /\ Standing(r) = "VOIDED"
           /\ Level(r)' = Level(r) + 1 /\ Standing(r)' = "ACTIVE"
  BY <1>4 DEF Ladder!Step, Ladder!Relaunch, Ladder!Move
<1>5. CASE /\ Level(r)' = Level(r)
           /\ Standing(r) = "ACTIVE" /\ Standing(r)' \in {"VOIDED", "SETTLED"}
  BY <1>1, <1>5 DEF Ladder!Step, Ladder!Void, Ladder!Settle, Ladder!Move
<1>6. CASE /\ Level(r)' = Level(r)
           /\ Standing(r) = "VOIDED" /\ Standing(r)' = "GAVE_UP"
  BY <1>1, <1>6 DEF Ladder!Step, Ladder!GiveUp, Ladder!Move
<1>7. CASE /\ Level(r)' = Level(r) /\ Level(r) = MaxAttempts
           /\ Standing(r) = "GAVE_UP" /\ Standing(r)' = "VOIDED"
  BY <1>1, <1>7 DEF Ladder!Step, Ladder!ReportAgain, Ladder!Move
<1>8. CASE /\ Level(r)' = Level(r) /\ Torn(r)
           /\ \/ Standing(r) = "VOIDED" /\ Standing(r)' = "SETTLED"
              \/ Standing(r) = "SETTLED" /\ Standing(r)' = "VOIDED"
  BY <1>1, <1>8 DEF Ladder!Step, Ladder!SettleTorn, Ladder!VoidTorn, Ladder!Move
<1> QED BY <1>1, <1>2, <1>3, <1>4, <1>5, <1>6, <1>7, <1>8 DEF Climbs

\* Where the rows of a verification stay, so does its ladder.
LEMMA SameRowsSameLadder ==
    ASSUME Types, NEW r \in Claims, \A d \in Claims : Same(attemptRow'[d], attemptRow[d]),
           Dense(r)
    PROVE  Of(r)' = Of(r) /\ Level(r)' = Level(r) /\ Dense(r)'
<1>1. Of(r)' = Of(r)
  BY DEF Of, Same
<1>2. Level(r)' = Level(r)
  BY <1>1 DEF Level, Of
<1>3. \A d \in Of(r) : attemptRow'[d].attempt = attemptRow[d].attempt
  BY DEF Of, Same
<1> QED BY <1>1, <1>2, <1>3 DEF Dense

\* The turns a row takes in its place.
Turns(c, row) ==
    \/ row.status = attemptRow[c].status
    \/ attemptRow[c].status = "ACTIVE" /\ row.status \in {"VOIDED", "SETTLED"}
    \/ /\ fate[c] \in {"TORN", "BOTH"}
       /\ attemptRow[c].status \in {"VOIDED", "SETTLED"} /\ row.status \in {"VOIDED", "SETTLED"}
    \/ attemptRow[c].status = "VOIDED" /\ row.status = "GAVE_UP"
    \/ /\ attemptRow[c].status = "GAVE_UP" /\ row.status = "VOIDED"
       /\ attemptRow[c].attempt = MaxAttempts

\* Before and after a step the last attempt tells the standing.
LastTells ==
    \A r \in Claims : \A c \in Of(r) :
        attemptRow[c].attempt = Level(r) => Standing(r) = attemptRow[c].status /\ Level(r) # 0

\* The row that bears the count is the last, after the step too.
LEMMA LastTellsAfter == RungsInv' => LastTells'
<1>1. RungsInv => LastTells
  BY LastAttempt DEF LastTells
<1> QED BY <1>1, PTL

\* A row written again keeps the rows dense.
LEMMA RewriteKeepsDense ==
    ASSUME RungsInv, NEW c \in Claims, NEW row, Rewrites(c, row)
    PROVE  /\ EmptyRows' /\ \A r \in Claims : Dense(r)'
           /\ \A r \in Claims : Of(r)' = Of(r) /\ Level(r)' = Level(r)
<1>1. Types
  BY DEF RungsInv
<1>2. /\ \A d \in Claims : HasRow(d)' <=> HasRow(d)
      /\ \A d \in Claims : Same(attemptRow'[d], attemptRow[d])
  BY <1>1, RewriteKeepsContinues
<1>3. \A d \in Claims : attemptRow'[d] = IF d = c THEN row ELSE attemptRow[d]
  BY <1>1 DEF Rewrites, Types, TypeOK
<1>4. EmptyRows'
  BY <1>2, <1>3 DEF RungsInv, EmptyRows, Rewrites
<1>5. ASSUME NEW r \in Claims PROVE Of(r)' = Of(r) /\ Level(r)' = Level(r) /\ Dense(r)'
  BY <1>1, <1>2, SameRowsSameLadder DEF RungsInv
<1> QED BY <1>4, <1>5

\* What a row written again does to the standing of its verification: nothing, unless it
\* is the last, and then the verification takes the turn of the row.
LEMMA RewriteClimbs ==
    ASSUME RungsInv, RungsInv', NEW c \in Claims, NEW row, Rewrites(c, row), Turns(c, row),
           NEW r \in Claims
    PROVE  Climbs(r)
<1>1. \A d \in Claims : attemptRow'[d] = IF d = c THEN row ELSE attemptRow[d]
  BY DEF Rewrites, RungsInv, Types, TypeOK
<1>2. Of(r)' = Of(r) /\ Level(r)' = Level(r) /\ Level(r) \in Nat
  BY RewriteKeepsDense, LevelIsNumber
<1>3. CASE Level(r) = 0
  BY <1>2, <1>3 DEF Standing, Climbs
<1>4. CASE Level(r) # 0
  <2>1. PICK d \in Of(r) : attemptRow[d].attempt = Level(r)
    BY <1>4, LastExists
  <2>2. d \in Claims
    BY DEF Of
  <2>3. \A e \in Claims : Same(attemptRow'[e], attemptRow[e])
    BY RewriteKeepsContinues DEF RungsInv
  <2>4. d \in Of(r)' /\ attemptRow'[d].attempt = Level(r)'
    BY <1>2, <2>1, <2>2, <2>3 DEF Same
  <2>5. Standing(r) = attemptRow[d].status
    BY <2>1, LastAttempt
  <2>6. Standing(r)' = attemptRow'[d].status
    BY <2>4, LastTellsAfter DEF LastTells
  <2>7. CASE d # c
    BY <1>1, <1>2, <2>2, <2>5, <2>6, <2>7 DEF Climbs
  <2>8. CASE d = c
    <3>1. Standing(r)' = row.status /\ Standing(r) = attemptRow[c].status
          /\ attemptRow[c].attempt = Level(r)
      BY <1>1, <2>1, <2>5, <2>6, <2>8
    <3>2. fate[c] \in {"TORN", "BOTH"} => Torn(r)
      BY <2>1, <2>8, <3>1 DEF Torn, Of
    <3> QED BY <1>2, <3>1, <3>2 DEF Climbs, Turns
  <2> QED BY <2>7, <2>8
<1> QED BY <1>3, <1>4

\* A new row is written at the top of its ladder.
Tops(c, row) ==
    /\ ~HasRow(c) /\ row \in Rows /\ row.status # "NONE" /\ row.verification \in Claims
    /\ row.attempt = Level(row.verification) + 1
    /\ attemptRow' = [attemptRow EXCEPT ![c] = row]

\* A first attempt is at the top of an empty ladder.
LEMMA FirstIsTop ==
    ASSUME RungsInv, NEW c \in Claims, NEW row, Starts(c, row)
    PROVE  Tops(c, row) /\ Level(c) = 0
<1>1. ~HasRow(c) /\ row.verification = c /\ row.attempt = 1
  BY DEF Starts
<1>2. Level(c) = 0
  <2> SUFFICES ASSUME Level(c) # 0 PROVE FALSE
    OBVIOUS
  <2>1. 1 \in 1 .. Level(c)
    BY LevelIsNumber
  <2>2. PICK e \in Of(c) : attemptRow[e].attempt = 1
    BY <2>1 DEF RungsInv, Dense
  <2>3. e \in Claims /\ HasRow(e) /\ attemptRow[e].verification = c
    BY AttemptsHaveRows
  <2>4. e = c
    BY <2>2, <2>3 DEF RungsInv, RowsAreSound
  <2> QED BY <1>1, <2>3, <2>4
<1> QED BY <1>1, <1>2 DEF Starts, Tops

\* A relaunch continues the last attempt.
LEMMA RelaunchIsTop ==
    ASSUME RungsInv, NEW c \in Claims, NEW p, NEW row, Extends(c, p, row)
    PROVE  /\ Tops(c, row) /\ p \in Of(row.verification)
           /\ attemptRow[p].attempt = Level(row.verification)
           /\ attemptRow[p].status = "VOIDED" /\ Level(row.verification) < MaxAttempts
<1> DEFINE r == row.verification
<1>1. /\ ~HasRow(c) /\ row \in Rows /\ row.status = "ACTIVE"
      /\ p \in Claims /\ HasRow(p) /\ attemptRow[p].status = "VOIDED"
      /\ r = attemptRow[p].verification /\ row.attempt = attemptRow[p].attempt + 1
      /\ \A d \in Claims : ~Continues(d, p)
      /\ attemptRow' = [attemptRow EXCEPT ![c] = row]
  BY DEF Extends
<1>2. r \in Claims /\ p \in Of(r)
  BY <1>1 DEF RungsInv, RowsAreSound, Of
<1> HIDE DEF r
<1>3. attemptRow[p].attempt = Level(r)
  BY <1>1, <1>2, EarlierIsContinued DEF Of
<1>4. row.attempt \in 0 .. MaxAttempts /\ Level(r) \in Nat
  BY <1>1, LevelIsNumber DEF Rows
<1>5. Level(r) < MaxAttempts
  BY <1>1, <1>3, <1>4, Sizes
<1> QED BY <1>1, <1>2, <1>3, <1>5 DEF Tops, r

\* The count of its verification, and of no other, is one more, and the numbers stay dense.
LEMMA TopKeepsDense ==
    ASSUME RungsInv, NEW c \in Claims, NEW row, Tops(c, row)
    PROVE  /\ EmptyRows' /\ \A r \in Claims : Dense(r)'
           /\ \A r \in Claims : r # row.verification => Of(r)' = Of(r) /\ Level(r)' = Level(r)
           /\ c \in Of(row.verification)'
           /\ Level(row.verification)' = Level(row.verification) + 1
<1>1. /\ ~HasRow(c) /\ row.status # "NONE" /\ row.verification \in Claims
      /\ row.attempt = Level(row.verification) + 1
      /\ attemptRow' = [attemptRow EXCEPT ![c] = row]
  BY DEF Tops
<1>2. \A d \in Claims : attemptRow'[d] = IF d = c THEN row ELSE attemptRow[d]
  BY <1>1 DEF RungsInv, Types, TypeOK
<1>3. EmptyRows'
  BY <1>1, <1>2 DEF RungsInv, EmptyRows, HasRow
<1>4. \A r \in Claims : c \notin Of(r)
  BY <1>1, AttemptsHaveRows
<1>5. \A r \in Claims : Of(r)' = IF r = row.verification THEN Of(r) \cup {c} ELSE Of(r)
  <2> SUFFICES ASSUME NEW r \in Claims
               PROVE  Of(r)' = IF r = row.verification THEN Of(r) \cup {c} ELSE Of(r)
    OBVIOUS
  <2>1. \A d : d \in Of(r)' <=> d \in Claims /\ attemptRow'[d].verification = r
    BY DEF Of
  <2>2. \A d : d \in Of(r)' <=> (d \in Of(r) /\ d # c) \/ (d = c /\ r = row.verification)
    BY <1>2, <2>1 DEF Of
  <2> QED BY <1>4, <2>2
<1>6. ASSUME NEW r \in Claims, r # row.verification
      PROVE  Of(r)' = Of(r) /\ Level(r)' = Level(r)
  <2>1. Of(r)' = Of(r)
    BY <1>5, <1>6
  <2> QED BY <2>1 DEF Level, Of
<1>7. PICK v \in Claims : v = row.verification
  BY <1>1
<1>8. Of(v)' = Of(v) \cup {c} /\ Level(v)' = Level(v) + 1
  <2>1. Of(v)' = Of(v) \cup {c} /\ c \notin Of(v)
    BY <1>4, <1>5, <1>7
  <2>2. Cardinality(Of(v) \cup {c}) = Cardinality(Of(v)) + 1
    BY <2>1, LevelIsNumber, FS_AddElement
  <2>3. Level(v)' = Cardinality(Of(v)')
    BY DEF Level, Of
  <2> QED BY <2>1, <2>2, <2>3, LevelIsNumber
<1>9. ASSUME NEW r \in Claims PROVE Dense(r)'
  <2>1. CASE r # v
    <3>1. Of(r)' = Of(r) /\ Level(r)' = Level(r) /\ Dense(r)
      BY <1>6, <1>7, <2>1 DEF RungsInv
    <3>2. \A d \in Of(r) : attemptRow'[d] = attemptRow[d]
      BY <1>2, <1>4 DEF Of
    <3> QED BY <3>1, <3>2 DEF Dense
  <2>2. CASE r = v
    <3>1. Dense(v) /\ Level(v) \in Nat
      BY LevelIsNumber DEF RungsInv
    <3>2. \A d \in Of(v) : attemptRow'[d] = attemptRow[d] /\ attemptRow[d].attempt \in 1 .. Level(v)
      BY <1>2, <1>4, AttemptsHaveRows DEF Of
    <3>3. attemptRow'[c].attempt = Level(v) + 1
      BY <1>1, <1>2, <1>7
    <3>4. \A d \in Of(v)' : attemptRow'[d].attempt <= Level(v)'
      BY <1>8, <3>1, <3>2, <3>3
    <3>5. ASSUME NEW n \in 1 .. Level(v)' PROVE \E d \in Of(v)' : attemptRow'[d].attempt = n
      <4>1. CASE n = Level(v) + 1
        BY <1>8, <3>3, <4>1
      <4>2. CASE n # Level(v) + 1
        <5>1. n \in 1 .. Level(v)
          BY <1>8, <3>1, <4>2
        <5>2. PICK d \in Of(v) : attemptRow[d].attempt = n
          BY <3>1, <5>1 DEF Dense
        <5> QED BY <1>8, <3>2, <5>2
      <4> QED BY <4>1, <4>2
    <3> QED BY <2>2, <3>4, <3>5 DEF Dense
  <2> QED BY <2>1, <2>2
<1> QED BY <1>3, <1>6, <1>7, <1>8, <1>9

\* A verification takes the standing of its new last attempt; the others keep theirs.
LEMMA TopStanding ==
    ASSUME RungsInv, RungsInv', NEW c \in Claims, NEW row, Tops(c, row)
    PROVE  /\ Standing(row.verification)' = row.status
           /\ \A r \in Claims : r # row.verification => Standing(r)' = Standing(r)
<1>1. \A d \in Claims : attemptRow'[d] = IF d = c THEN row ELSE attemptRow[d]
  BY DEF Tops, RungsInv, Types, TypeOK
<1>2. PICK v \in Claims : v = row.verification
  BY DEF Tops
<1>3. /\ c \in Of(v)' /\ Level(v)' = Level(v) + 1 /\ row.attempt = Level(v) + 1
  BY <1>2, TopKeepsDense DEF Tops
<1>4. Standing(v)' = row.status
  BY <1>1, <1>3, LastTellsAfter DEF LastTells
<1>5. ASSUME NEW r \in Claims, r # v PROVE Standing(r)' = Standing(r)
  <2>1. Of(r)' = Of(r) /\ Level(r)' = Level(r)
    BY <1>2, <1>5, TopKeepsDense
  <2>2. CASE Level(r) = 0
    BY <2>1, <2>2 DEF Standing
  <2>3. CASE Level(r) # 0
    <3>1. PICK d \in Of(r) : attemptRow[d].attempt = Level(r)
      BY <2>3, LastExists
    <3>2. d \in Claims /\ HasRow(d)
      BY AttemptsHaveRows
    <3>3. attemptRow'[d] = attemptRow[d]
      BY <1>1, <3>2 DEF Tops
    <3>4. Standing(r) = attemptRow[d].status
      BY <3>1, LastAttempt
    <3>5. Standing(r)' = attemptRow'[d].status
      BY <2>1, <3>1, <3>3, LastTellsAfter DEF LastTells
    <3> QED BY <3>3, <3>4, <3>5
  <2> QED BY <2>2, <2>3
<1> QED BY <1>2, <1>4, <1>5

\* A first attempt is the first step of a ladder, and a relaunch one step up.
LEMMA NewRowClimbs ==
    ASSUME RungsInv, RungsInv', NEW c \in Claims, NEW row,
           Starts(c, row) \/ \E p : Extends(c, p, row), NEW r \in Claims
    PROVE  Climbs(r)
<1>1. Tops(c, row)
  BY FirstIsTop, RelaunchIsTop
<1>2. CASE r # row.verification
  BY <1>1, <1>2, TopKeepsDense, TopStanding DEF Climbs
<1>3. CASE r = row.verification
  <2>1. Level(r)' = Level(r) + 1 /\ Standing(r)' = row.status
    BY <1>1, <1>3, TopKeepsDense, TopStanding
  <2>2. CASE Starts(c, row)
    <3>1. Level(r) = 0 /\ row.status \in {"ACTIVE", "SETTLED"}
      BY <1>3, <2>2, FirstIsTop DEF Starts
    <3>2. Standing(r) = "NONE"
      BY <3>1 DEF Standing
    <3> QED BY <2>1, <3>1, <3>2 DEF Climbs
  <2>3. CASE \E p : Extends(c, p, row)
    <3>1. PICK p : Extends(c, p, row)
      BY <2>3
    <3>2. /\ p \in Of(r) /\ attemptRow[p].attempt = Level(r) /\ attemptRow[p].status = "VOIDED"
          /\ Level(r) < MaxAttempts
      BY <1>3, <3>1, RelaunchIsTop
    <3>3. Standing(r) = "VOIDED"
      BY <3>2, LastAttempt
    <3> QED BY <2>1, <3>1, <3>2, <3>3 DEF Climbs, Extends
  <2> QED BY <2>2, <2>3
<1> QED BY <1>2, <1>3

-----------------------------------------------------------------------------
(* Which rows the steps write                                              *)

\* A certified claim stays certified, and only its attempt is settled.
Certified == {"CERTIFIED", "BOTH"}
CertificatesStay == \A c \in Claims : fate[c] \in Certified => fate'[c] \in Certified
SettledAreCertified ==
    \A c \in Claims : attemptRow[c].status = "SETTLED" => fate[c] \in Certified

\* While a call of voidAttempt is about to write, the clock stands: a row voided in the
\* meantime is not old enough to be given up, but by the count of its attempts.
RowIsFresh(c) ==
    /\ attemptRow[c].status \in {"VOIDED", "GAVE_UP"} => voidAge[c] = 0
    /\ attemptRow[c].status = "GAVE_UP" => attemptRow[c].attempt = MaxAttempts
ReportsAreTimely ==
    \A v \in Voiders : voider[v] # NotVoiding => RowIsFresh(voider[v].claim)

ClimbInv ==
    /\ LadderInv /\ EmptyRows /\ \A r \in Claims : Dense(r)
    /\ SettledAreCertified /\ ReportsAreTimely

\* A step writes no row, writes one again at a turn of it, or writes a new one.
Writes ==
    \/ attemptRow' = attemptRow
    \/ \E c \in Claims : \E row :
          \/ Rewrites(c, row) /\ Turns(c, row)
          \/ Starts(c, row)
          \/ \E p : Extends(c, p, row)

\* What ClimbInv adds to LadderInv, of the rows alone.
StaysTimely == SettledAreCertified' /\ ReportsAreTimely'

\* A step that writes a row and no fate keeps the reports timely, if the rows that are
\* reported stay fresh.
LEMMA TimelyByRows ==
    ASSUME ClimbInv, \A c \in Claims : RowIsFresh(c) => RowIsFresh(c)',
           \A v \in Voiders : voider'[v] \in {voider[v], NotVoiding}
    PROVE  ReportsAreTimely'
<1> SUFFICES ASSUME NEW v \in Voiders, voider'[v] # NotVoiding PROVE RowIsFresh(voider[v].claim)'
  BY DEF ReportsAreTimely, NotVoiding
<1>1. voider'[v] = voider[v]
  BY DEF NotVoiding
<1>2. voider[v].claim \in Claims /\ RowIsFresh(voider[v].claim)
  BY <1>1 DEF ClimbInv, ReportsAreTimely, LadderInv, VoidersHoldCopies, HoldsCopy, NotVoiding
<1>3. PICK c \in Claims : c = voider[v].claim
  BY <1>2
<1>4. RowIsFresh(c)'
  BY <1>2, <1>3
<1>5. voider'[v].claim = c
  BY <1>1, <1>3
<1> QED BY <1>4, <1>5 DEF RowIsFresh

\* One row written, the others as they were.
LEMMA OneRow ==
    ASSUME Types, NEW c \in Claims, NEW row,
           Rewrites(c, row) \/ Starts(c, row) \/ \E p : Extends(c, p, row)
    PROVE  \A d \in Claims : attemptRow'[d] = IF d = c THEN row ELSE attemptRow[d]
BY DEF Rewrites, Starts, Extends, Types, TypeOK

\* A row that is neither voided nor given up, or has its status and its number still,
\* leaves the reports and the certificates alone.
LEMMA QuietRow ==
    ASSUME ClimbInv, NEW c \in Claims, NEW row,
           Rewrites(c, row) \/ Starts(c, row) \/ \E p : Extends(c, p, row),
           row.status \in {"VOIDED", "GAVE_UP"} =>
               row.status = attemptRow[c].status /\ row.attempt = attemptRow[c].attempt,
           row.status = "SETTLED" => fate'[c] \in Certified, CertificatesStay,
           voidAge' = voidAge, \A v \in Voiders : voider'[v] \in {voider[v], NotVoiding}
    PROVE  StaysTimely
<1>1. \A d \in Claims : attemptRow'[d] = IF d = c THEN row ELSE attemptRow[d]
  BY OneRow DEF ClimbInv, LadderInv
<1>2. SettledAreCertified'
  BY <1>1 DEF ClimbInv, SettledAreCertified, CertificatesStay
<1>3. \A d \in Claims : RowIsFresh(d) => RowIsFresh(d)'
  BY <1>1 DEF RowIsFresh
<1> QED BY <1>2, <1>3, TimelyByRows DEF StaysTimely

\* Steps that write no row.
LEMMA SilentStep ==
    ASSUME ClimbInv, attemptRow' = attemptRow, voidAge' = voidAge, voider' = voider,
           fate' = fate \/ CertificatesStay
    PROVE  Writes /\ StaysTimely
<1>1. SettledAreCertified'
  BY DEF ClimbInv, SettledAreCertified, CertificatesStay
<1>2. \A d \in Claims : RowIsFresh(d) => RowIsFresh(d)'
  BY DEF RowIsFresh
<1>3. ReportsAreTimely'
  BY <1>2, TimelyByRows
<1> QED BY <1>1, <1>3 DEF Writes, StaysTimely

\* A submission starts a ladder.
LEMMA FactCheckStartWrites ==
    ASSUME ClimbInv, NEW c \in Claims, FactCheckStart(c)
    PROVE  Writes /\ StaysTimely
<1>1. Starts(c, LaunchedRow(c, 1, None))
  BY FactCheckStartRow DEF ClimbInv
<1>2. LaunchedRow(c, 1, None).status = "ACTIVE"
  BY DEF LaunchedRow
<1>3. voidAge' = voidAge /\ voider' = voider /\ fate' = fate
  BY DEF FactCheckStart
<1>4. PICK row : row = LaunchedRow(c, 1, None)
  OBVIOUS
<1>5. StaysTimely
  <2>1. Starts(c, row) /\ row.status = "ACTIVE"
    BY <1>1, <1>2, <1>4
  <2>2. row.status \notin {"VOIDED", "GAVE_UP"} /\ row.status # "SETTLED"
    BY <2>1
  <2>3. CertificatesStay /\ \A v \in Voiders : voider'[v] \in {voider[v], NotVoiding}
    BY <1>3 DEF CertificatesStay
  <2> QED BY <1>3, <2>1, <2>2, <2>3, QuietRow
<1> QED BY <1>1, <1>5 DEF Writes

\* A claim that fails writes no row.
LEMMA FailWrites ==
    ASSUME ClimbInv, NEW c \in Claims, Fail(c) \/ Tear(c)
    PROVE  Writes /\ StaysTimely
<1>1. /\ attemptRow' = attemptRow /\ voidAge' = voidAge /\ voider' = voider
      /\ fate[c] = "OPEN" /\ \A d \in Claims \ {c} : fate'[d] = fate[d]
  BY DEF Fail, Tear, Decidable, ClimbInv, LadderInv, Types, TypeOK
<1>2. CertificatesStay
  BY <1>1 DEF CertificatesStay, Certified
<1> QED BY <1>1, <1>2, SilentStep

\* The clock ticks when nobody is about to write.
LEMMA TickWrites == ASSUME ClimbInv, Tick PROVE Writes /\ StaysTimely
<1>1. /\ attemptRow' = attemptRow /\ voider' = voider /\ fate' = fate
      /\ \A v \in Voiders : voider[v] = NotVoiding
  BY DEF Tick, world
<1>2. ReportsAreTimely'
  BY <1>1 DEF ReportsAreTimely, NotVoiding
<1>3. SettledAreCertified'
  BY <1>1 DEF ClimbInv, SettledAreCertified
<1> QED BY <1>1, <1>2, <1>3 DEF Writes, StaysTimely

\* A certificate settles the attempt, or records it settled.
LEMMA SettleWrites ==
    ASSUME ClimbInv, NEW c \in Claims, Settle(c)
    PROVE  Writes /\ StaysTimely
<1> DEFINE row == SettledRow(c)
<1>1. /\ row.status = "SETTLED"
      /\ \/ /\ Rewrites(c, row) /\ attemptRow[c].status # "GAVE_UP"
            /\ attemptRow[c].status = "VOIDED" => fate[c] = "TORN"
         \/ Starts(c, row)
  BY SettleRow DEF ClimbInv
<1>2. /\ voidAge' = voidAge /\ voider' = voider
      /\ fate' = [fate EXCEPT ![c] = IF @ = "TORN" THEN "BOTH" ELSE "CERTIFIED"]
  BY DEF Settle
<1>3. fate'[c] \in Certified /\ CertificatesStay
  BY <1>2 DEF ClimbInv, LadderInv, Types, TypeOK, Certified, CertificatesStay
<1> HIDE DEF row
<1>4. StaysTimely
  <2>1. \A v \in Voiders : voider'[v] \in {voider[v], NotVoiding}
    BY <1>2
  <2>2. PICK r : r = row
    OBVIOUS
  <2>3. /\ Rewrites(c, r) \/ Starts(c, r)
        /\ r.status = "SETTLED" /\ r.status \notin {"VOIDED", "GAVE_UP"}
    BY <1>1, <2>2
  <2> QED BY <1>2, <1>3, <2>1, <2>3, QuietRow
<1>5. Rewrites(c, row) => Turns(c, row)
  <2>1. attemptRow[c].status \in Statuses \cup {"NONE"}
    BY DEF ClimbInv, LadderInv, Types, TypeOK, Rows
  <2>2. Rewrites(c, row) => attemptRow[c].status # "NONE"
    BY DEF Rewrites, HasRow
  <2>3. Rewrites(c, row) => /\ attemptRow[c].status # "GAVE_UP"
                            /\ attemptRow[c].status = "VOIDED" => fate[c] = "TORN"
    BY <1>1 DEF Rewrites, Starts
  <2> QED BY <1>1, <2>1, <2>2, <2>3 DEF Turns, Statuses
<1> QED BY <1>1, <1>4, <1>5 DEF Writes

\* voidAttempt finds an active attempt, or makes it.
LEMMA ReadAttemptWrites ==
    ASSUME ClimbInv, NEW c \in Claims, NEW v \in Voiders, ReadAttempt(v, c)
    PROVE  Writes /\ StaysTimely
<1> DEFINE row == EnsuredRow(c)
<1>1. /\ row.status = "ACTIVE"
      /\ \/ Rewrites(c, row) /\ row = attemptRow[c]
         \/ Starts(c, row)
  BY ReadRow DEF ClimbInv
<1>2. /\ voidAge' = voidAge /\ fate' = fate
      /\ voider' = [voider EXCEPT ![v] = [claim |-> c, copy |-> row]]
  BY DEF ReadAttempt, world
<1> HIDE DEF row
<1>3. Writes
  BY <1>1 DEF Writes, Turns
<1>4. \A d \in Claims : attemptRow'[d] = IF d = c THEN row ELSE attemptRow[d]
  BY <1>1, OneRow DEF ClimbInv, LadderInv
<1>5. SettledAreCertified'
  BY <1>1, <1>2, <1>4 DEF ClimbInv, SettledAreCertified
<1>6. \A d \in Claims : RowIsFresh(d) => RowIsFresh(d)'
  BY <1>1, <1>2, <1>4 DEF RowIsFresh
<1>7. RowIsFresh(c)'
  BY <1>1, <1>4 DEF RowIsFresh
<1>8. ReportsAreTimely'
  <2> SUFFICES ASSUME NEW u \in Voiders, voider'[u] # NotVoiding
               PROVE  RowIsFresh(voider[u].claim)'
    BY DEF ReportsAreTimely, NotVoiding
  <2>1. voider'[u] = IF u = v THEN [claim |-> c, copy |-> row] ELSE voider[u]
    BY <1>2 DEF ClimbInv, LadderInv, Types, TypeOK
  <2>2. CASE u = v
    <3>1. voider'[u].claim = c
      BY <2>1, <2>2
    <3> QED BY <1>7, <3>1 DEF RowIsFresh
  <2>3. CASE u # v
    <3>1. voider'[u] = voider[u] /\ voider[u] # NotVoiding
      BY <2>1, <2>3 DEF NotVoiding
    <3>2. voider[u].claim \in Claims /\ RowIsFresh(voider[u].claim)
      BY <3>1 DEF ClimbInv, ReportsAreTimely, LadderInv, VoidersHoldCopies, HoldsCopy
    <3>3. PICK d \in Claims : d = voider[u].claim
      BY <3>2
    <3>4. RowIsFresh(d)' /\ voider'[u].claim = d
      BY <1>6, <3>1, <3>2, <3>3
    <3> QED BY <3>4 DEF RowIsFresh
  <2> QED BY <2>2, <2>3
<1> QED BY <1>3, <1>5, <1>8 DEF StaysTimely

\* voidAttempt voids an active attempt, one that is voided, one that was given up for the
\* count of its attempts, or a settled one of a torn claim.
LEMMA VoidAttemptWrites ==
    ASSUME ClimbInv, NEW v \in Voiders, VoidAttempt(v)
    PROVE  Writes /\ StaysTimely
<1> DEFINE row == VoidedRow(v)
<1>0. PICK c \in Claims : c = voider[v].claim
  BY VoidRow DEF ClimbInv
<1>1. fate[c] \in Failed /\ row.status = "VOIDED" /\ Rewrites(c, row)
  BY <1>0, VoidRow DEF ClimbInv
<1>2. /\ fate' = fate /\ voidAge' = [voidAge EXCEPT ![c] = 0]
      /\ voider' = [voider EXCEPT ![v] = NotVoiding] /\ voider[v] # NotVoiding
  BY <1>0 DEF VoidAttempt, world
<1> HIDE DEF row
<1>3. \A d \in Claims : attemptRow'[d] = IF d = c THEN row ELSE attemptRow[d]
  BY <1>1, OneRow DEF ClimbInv, LadderInv
<1>4. \A d \in Claims : voidAge'[d] = IF d = c THEN 0 ELSE voidAge[d]
  BY <1>2 DEF ClimbInv, LadderInv, Types, TypeOK
<1>5. SettledAreCertified'
  BY <1>1, <1>2, <1>3 DEF ClimbInv, SettledAreCertified
<1>6. \A d \in Claims : RowIsFresh(d) => RowIsFresh(d)'
  BY <1>1, <1>3, <1>4 DEF RowIsFresh
<1>7. \A u \in Voiders : voider'[u] \in {voider[u], NotVoiding}
  BY <1>2 DEF ClimbInv, LadderInv, Types, TypeOK
<1>8. Turns(c, row)
  <2>1. attemptRow[c].status \in Statuses
    BY <1>1 DEF ClimbInv, LadderInv, Types, TypeOK, Rows, Rewrites, HasRow
  <2>2. attemptRow[c].status = "SETTLED" => fate[c] = "BOTH"
    BY <1>1 DEF ClimbInv, SettledAreCertified, Certified, Failed, Lost
  <2>3. attemptRow[c].status = "GAVE_UP" => attemptRow[c].attempt = MaxAttempts
    BY <1>0, <1>2 DEF ClimbInv, ReportsAreTimely, RowIsFresh
  <2> QED BY <1>1, <2>1, <2>2, <2>3 DEF Turns, Statuses
<1> QED BY <1>1, <1>5, <1>6, <1>7, <1>8, TimelyByRows DEF Writes, StaysTimely

\* An attempt is given up for its age, which no report is waiting to write, or for the
\* count of attempts.
LEMMA GiveUpWrites ==
    ASSUME ClimbInv, NEW w \in Replicas, GiveUpVerificationAttempt(w)
    PROVE  Writes /\ StaysTimely
<1> DEFINE row == GivenUpRow(w)
<1>0. PICK c \in Claims : c = replica[w].cur
  BY CurrentRow DEF ClimbInv, GiveUpVerificationAttempt
<1>1. /\ Rewrites(c, row) /\ row.status = "GAVE_UP"
      /\ attemptRow[c].attempt = replica[w].copy.attempt
  BY <1>0, GiveUpRow DEF ClimbInv
<1>2. attemptRow[c].status = "VOIDED"
  BY <1>0, CurrentRow DEF ClimbInv, GiveUpVerificationAttempt
<1>3. /\ fate' = fate /\ voidAge' = voidAge /\ voider' = voider
      /\ Exhausted(w) \/ TimedOut(w)
  BY DEF GiveUpVerificationAttempt, world
<1> HIDE DEF row
<1>4. \A d \in Claims : attemptRow'[d] = IF d = c THEN row ELSE attemptRow[d]
  BY <1>1, OneRow DEF ClimbInv, LadderInv
<1>5. SettledAreCertified'
  BY <1>1, <1>3, <1>4 DEF ClimbInv, SettledAreCertified
<1>6. RowIsFresh(c) => attemptRow[c].attempt = MaxAttempts
  <2> SUFFICES ASSUME RowIsFresh(c) PROVE attemptRow[c].attempt = MaxAttempts
    OBVIOUS
  <2>1. voidAge[c] = 0
    BY <1>2 DEF RowIsFresh
  <2>2. ~TimedOut(w)
    BY <1>0, <2>1, Sizes DEF TimedOut
  <2>3. attemptRow[c].attempt >= MaxAttempts /\ attemptRow[c].attempt \in 0 .. MaxAttempts
    BY <1>1, <1>3, <2>2 DEF Exhausted, ClimbInv, LadderInv, Types, TypeOK, Rows
  <2> QED BY <2>3, Sizes
<1>7. row.attempt = attemptRow[c].attempt
  BY <1>1 DEF Rewrites, Same
<1>8. \A d \in Claims : RowIsFresh(d) => RowIsFresh(d)'
  BY <1>1, <1>2, <1>3, <1>4, <1>6, <1>7 DEF RowIsFresh
<1>9. Turns(c, row)
  BY <1>1, <1>2 DEF Turns
<1> QED BY <1>1, <1>3, <1>5, <1>8, <1>9, TimelyByRows DEF Writes, StaysTimely

\* A link leaves the row voided.
LEMMA LinkWrites ==
    ASSUME ClimbInv, NEW w \in Replicas,
           AdoptSuccessor(w) \/ LinkRelaunchedAttempt(w) \/ SaveRelaunchedAs(w)
    PROVE  Writes /\ StaysTimely
<1>1. replica[w].pc \notin {"IDLE", "NEXT"}
  BY DEF AdoptSuccessor, LinkRelaunchedAttempt, SaveRelaunchedAs
<1>2. PICK c \in Claims : c = replica[w].cur
  BY <1>1, CurrentRow DEF ClimbInv
<1>3. attemptRow[c].status = "VOIDED"
  BY <1>1, <1>2, CurrentRow DEF ClimbInv
<1>4. fate' = fate /\ voidAge' = voidAge /\ voider' = voider
  BY DEF AdoptSuccessor, LinkRelaunchedAttempt, SaveRelaunchedAs, world
<1>5. \E row : Rewrites(c, row) /\ row.status = "VOIDED"
  <2>1. CASE AdoptSuccessor(w)
    <3>1. PICK d \in Successors(w) : attemptRow' = Linked(replica[w].cur, d)
      BY <2>1 DEF AdoptSuccessor
    <3>2. d \in Claims
      BY DEF Successors
    <3> QED BY <1>1, <1>2, <3>1, <3>2, LinkRewrites DEF ClimbInv
  <2>2. CASE LinkRelaunchedAttempt(w)
    <3>1. attemptRow' = Linked(replica[w].cur, replica[w].child) /\ replica[w].pc = "ROWED"
      BY <2>2 DEF LinkRelaunchedAttempt
    <3>2. replica[w].child \in Successors(w) /\ replica[w].child \in Claims
      BY <3>1 DEF ClimbInv, LadderInv, TicksAreSound, TickIsSound, Successors
    <3> QED BY <1>1, <1>2, <3>1, <3>2, LinkRewrites DEF ClimbInv
  <2>3. CASE SaveRelaunchedAs(w)
    BY <1>2, <2>3, SaveRelaunchedAsRow DEF ClimbInv
  <2> QED BY <2>1, <2>2, <2>3
<1>6. PICK row : Rewrites(c, row) /\ row.status = "VOIDED"
  BY <1>5
<1>7. row.attempt = attemptRow[c].attempt
  BY <1>6 DEF Rewrites, Same
<1>8. StaysTimely
  <2>1. CertificatesStay
    BY <1>4 DEF CertificatesStay
  <2> QED BY <1>3, <1>4, <1>6, <1>7, <2>1, QuietRow
<1> QED BY <1>3, <1>6, <1>8 DEF Writes, Turns

\* A relaunch is one step up.
LEMMA RelaunchWrites ==
    ASSUME ClimbInv, NEW w \in Replicas, SaveVerificationAttempt(w)
    PROVE  Writes /\ StaysTimely
<1>1. Extends(replica[w].child, replica[w].cur, NextRow(w))
  BY SaveVerificationAttemptRow DEF ClimbInv
<1>2. replica[w].child \in Claims
  BY Launched DEF ClimbInv, SaveVerificationAttempt
<1>3. NextRow(w).status = "ACTIVE"
  BY DEF NextRow, LaunchedRow
<1>4. fate' = fate /\ voidAge' = voidAge /\ voider' = voider
  BY DEF SaveVerificationAttempt, world
<1>5. PICK c, row, p :
         c \in Claims /\ c = replica[w].child /\ row = NextRow(w) /\ p = replica[w].cur
  BY <1>2
<1>6. c \in Claims /\ Extends(c, p, row) /\ row.status = "ACTIVE"
  BY <1>1, <1>3, <1>5
<1>7. StaysTimely
  <2>1. row.status \notin {"VOIDED", "GAVE_UP"} /\ row.status # "SETTLED"
    BY <1>6
  <2>2. CertificatesStay /\ \A v \in Voiders : voider'[v] \in {voider[v], NotVoiding}
    BY <1>4 DEF CertificatesStay
  <2> QED BY <1>4, <1>6, <2>1, <2>2, QuietRow
<1> QED BY <1>6, <1>7 DEF Writes

\* Every step.
LEMMA StepsWrite == ASSUME ClimbInv, [Next]_vars PROVE Writes /\ StaysTimely
<1>1. ASSUME NEW c \in Claims, FactCheckStart(c) \/ Fail(c) \/ Tear(c) \/ Settle(c)
      PROVE  Writes /\ StaysTimely
  BY <1>1, FactCheckStartWrites, FailWrites, SettleWrites
<1>2. ASSUME NEW v \in Voiders, VoidAttempt(v) \/ \E c \in Claims : ReadAttempt(v, c)
      PROVE  Writes /\ StaysTimely
  BY <1>2, VoidAttemptWrites, ReadAttemptWrites
<1>3. ASSUME NEW w \in Replicas, RelaunchStep(w) PROVE Writes /\ StaysTimely
  <2>1. CASE /\ attemptRow' = attemptRow /\ voidAge' = voidAge /\ voider' = voider
             /\ fate' = fate
    BY <2>1, SilentStep
  <2>2. CASE AdoptSuccessor(w) \/ LinkRelaunchedAttempt(w) \/ SaveRelaunchedAs(w)
    BY <2>2, LinkWrites
  <2>3. CASE GiveUpVerificationAttempt(w)
    BY <2>3, GiveUpWrites
  <2>4. CASE SaveVerificationAttempt(w)
    BY <2>4, RelaunchWrites
  <2>5. CASE StartTick(w)
    <3>1. attemptRow' = attemptRow /\ voidAge' = voidAge /\ voider' = voider
      BY <2>5 DEF StartTick
    <3>2. CertificatesStay
      BY <2>5 DEF StartTick, CertificatesStay, Certified
    <3> QED BY <3>1, <3>2, SilentStep
  <2> QED BY <1>3, <2>1, <2>2, <2>3, <2>4, <2>5
      DEF RelaunchStep, TakeAttempt, CreateClaim, WaitForLaunch, PassWeatherGate,
          SaveClaim, world
<1>4. ASSUME NEW w \in Replicas, CallFails(w) \/ Crash(w) PROVE Writes /\ StaysTimely
  BY <1>4, SilentStep DEF CallFails, Crash, world
<1>5. CASE Tick
  BY <1>5, TickWrites
<1>6. CASE UNCHANGED vars
  BY <1>6, SilentStep DEF vars
<1> QED BY <1>1, <1>2, <1>3, <1>4, <1>5, <1>6 DEF Next

-----------------------------------------------------------------------------
(* The refinement                                                          *)

\* A step keeps the rungs in order, and every verification climbs.
LEMMA ClimbNext == ClimbInv /\ [Next]_vars => ClimbInv' /\ \A r \in Claims : Climbs(r)
<1> SUFFICES ASSUME ClimbInv, [Next]_vars PROVE ClimbInv' /\ \A r \in Claims : Climbs(r)
  OBVIOUS
<1>1. LadderInv' /\ Writes /\ StaysTimely /\ RungsInv
  BY LadderNext, StepsWrite DEF ClimbInv, RungsInv, LadderInv
<1>2. CASE attemptRow' = attemptRow
  <2>1. \A r \in Claims : Of(r)' = Of(r) /\ Level(r)' = Level(r) /\ Standing(r)' = Standing(r)
    BY <1>2 DEF Of, Level, Standing
  <2>2. EmptyRows' /\ \A r \in Claims : Dense(r)'
    BY <1>1, <1>2, <2>1 DEF RungsInv, EmptyRows, HasRow, Dense
  <2> QED BY <1>1, <2>1, <2>2 DEF ClimbInv, StaysTimely, Climbs
<1>3. ASSUME NEW c \in Claims, NEW row, Rewrites(c, row), Turns(c, row)
      PROVE  ClimbInv' /\ \A r \in Claims : Climbs(r)
  <2>1. EmptyRows' /\ \A r \in Claims : Dense(r)'
    BY <1>1, <1>3, RewriteKeepsDense
  <2>2. RungsInv'
    BY <1>1, <2>1 DEF RungsInv, LadderInv
  <2> QED BY <1>1, <1>3, <2>1, <2>2, RewriteClimbs DEF ClimbInv, StaysTimely
<1>4. ASSUME NEW c \in Claims, NEW row, Starts(c, row) \/ \E p : Extends(c, p, row)
      PROVE  ClimbInv' /\ \A r \in Claims : Climbs(r)
  <2>1. Tops(c, row)
    BY <1>1, <1>4, FirstIsTop, RelaunchIsTop
  <2>2. EmptyRows' /\ \A r \in Claims : Dense(r)'
    BY <1>1, <2>1, TopKeepsDense
  <2>3. RungsInv'
    BY <1>1, <2>2 DEF RungsInv, LadderInv
  <2> QED BY <1>1, <1>4, <2>2, <2>3, NewRowClimbs DEF ClimbInv, StaysTimely
<1> QED BY <1>1, <1>2, <1>3, <1>4 DEF Writes

\* At first there is no attempt of any verification.
LEMMA ClimbInit == Init => ClimbInv /\ Ladder!Start
<1> SUFFICES ASSUME Init PROVE ClimbInv /\ Ladder!Start
  OBVIOUS
<1>1. LadderInv
  BY LadderInit
<1>2. attemptRow = [c \in Claims |-> NoRow] /\ NoRow.status = "NONE" /\ NoRow.verification = None
  BY DEF Init, NoRow
<1>3. \A r \in Claims : Of(r) = {} /\ Level(r) = 0 /\ Standing(r) = "NONE"
  <2>1. \A r \in Claims : Of(r) = {}
    BY <1>2, Sizes DEF Of
  <2>2. \A r \in Claims : Level(r) = 0
    BY <2>1, LevelIsNumber
  <2> QED BY <2>1, <2>2 DEF Standing
<1>4. EmptyRows /\ SettledAreCertified
  BY <1>2 DEF EmptyRows, SettledAreCertified
<1>5. \A r \in Claims : Dense(r)
  BY <1>3 DEF Dense
<1>6. ReportsAreTimely
  BY DEF Init, ReportsAreTimely
<1>7. Ladder!Start
  BY <1>3 DEF Ladder!Start
<1> QED BY <1>1, <1>4, <1>5, <1>6, <1>7 DEF ClimbInv

\* What a reader is told of the attempts of a verification is a ladder that is climbed:
\* the next attempt only after the last was voided, at most MaxAttempts of them, none
\* after the end unless the end was torn, whatever dies between two saves.
THEOREM AttemptsClimb == Spec => ClimbsTheLadder
<1>1. ClimbInv /\ [Next]_vars =>
         [\A v \in Claims : Ladder!Step(v)]_<<[r \in Claims |-> Level(r)],
                                              [r \in Claims |-> Standing(r)],
                                              [r \in Claims |-> Torn(r)]>>
  BY ClimbNext, ClimbsIsStep
<1>2. Init => ClimbInv /\ Ladder!Start
  BY ClimbInit
<1>3. ClimbInv /\ [Next]_vars => ClimbInv'
  BY ClimbNext
<1> QED BY <1>1, <1>2, <1>3, PTL DEF Spec, ClimbsTheLadder, Ladder!Climb
=============================================================================
