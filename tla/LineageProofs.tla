--------------------------- MODULE LineageProofs ---------------------------
(***************************************************************************)
(* What the operators of Trust and Lineage return, for every value of the  *)
(* constants.                                                              *)
(***************************************************************************)
EXTENDS Lineage, FiniteSetTheorems, TLAPS

\* Decay is never negative: time since the last signal is a natural number.
LEMMA ProductNat ==
    ASSUME NEW x \in Nat, NEW y \in Nat
    PROVE  x * y \in Nat /\ x * (y + 1) = x * y + x
OBVIOUS

\* Clamp stays in the scale, and leaves a value of the scale alone.
LEMMA ClampInScale ==
    ASSUME NEW x \in Int
    PROVE  /\ Clamp(x) \in TrustValues
           /\ x \in TrustValues => Clamp(x) = x
BY TrustAssumption DEF Clamp, Lower, AtLeastZero, TrustValues

\* Decay lowers the stored value or leaves it, and stays in the scale.
LEMMA DecayedInScale ==
    ASSUME NEW s \in Scorers, NEW t \in Nat, s.signal <= t
    PROVE  /\ Decayed(s, t) \in TrustValues
           /\ Decayed(s, t) <= s.stored
<1>1. /\ s.stored \in TrustValues /\ s.signal \in Nat
  BY DEF Scorers
<1>2. DecayRate * (t - s.signal) \in Nat
  BY <1>1, ProductNat, TrustAssumption
<1> DEFINE d == DecayRate * (t - s.signal)
<1>3. d \in Nat BY <1>2
<1> HIDE DEF d
<1>4. Decayed(s, t) = AtLeastZero(s.stored - d)
  BY DEF Decayed, d
<1>5. QED
  BY <1>1, <1>3, <1>4, TrustAssumption DEF AtLeastZero, TrustValues

\* A reader of a scorer sees a value of the scale, at most the ceiling.
LEMMA ValueBounds ==
    ASSUME NEW s \in Scorers, NEW t \in Nat, s.signal <= t
    PROVE  /\ Value(s, t) \in TrustValues
           /\ Value(s, t) <= s.ceiling
           /\ Value(s, t) <= Decayed(s, t)
<1>1. s.ceiling \in TrustValues BY DEF Scorers
<1>2. Decayed(s, t) \in TrustValues BY DecayedInScale
<1>3. QED BY <1>1, <1>2, TrustAssumption DEF Value, Lower, TrustValues

\* As time passes the value a reader sees only falls.
LEMMA ValueFalls ==
    ASSUME NEW s \in Scorers, NEW t \in Nat, s.signal <= t
    PROVE  Value(s, t + 1) <= Value(s, t)
<1>1. /\ s.stored \in TrustValues /\ s.signal \in Nat /\ s.ceiling \in TrustValues
  BY DEF Scorers
<1> DEFINE d == DecayRate * (t - s.signal)
<1>2. d \in Nat BY <1>1, ProductNat, TrustAssumption
<1>3. DecayRate * ((t + 1) - s.signal) = d + DecayRate
  <2>1. t - s.signal \in Nat /\ (t + 1) - s.signal = (t - s.signal) + 1 BY <1>1
  <2>2. QED BY <2>1, ProductNat, TrustAssumption
<1>4. Decayed(s, t) = AtLeastZero(s.stored - d)
  BY DEF Decayed
<1> HIDE DEF d
<1>5. Decayed(s, t + 1) = AtLeastZero(s.stored - (d + DecayRate))
  BY <1>3 DEF Decayed
<1>6. QED
  BY <1>1, <1>2, <1>4, <1>5, TrustAssumption DEF Value, Lower, AtLeastZero, TrustValues

LEMMA NewScorerType ==
    ASSUME NEW v \in TrustValues, NEW c \in TrustValues, NEW t \in Nat
    PROVE  /\ NewScorer(v, c, t) \in Scorers
           /\ NewScorer(v, c, t).ceiling = c
           /\ NewScorer(v, c, t).signal = t
BY ClampInScale, TrustAssumption DEF NewScorer, Scorers, TrustValues

\* Neither an event nor an override touches the ceiling.
LEMMA RecordEventType ==
    ASSUME NEW s \in Scorers, NEW t \in Nat, s.signal <= t, NEW e \in TrustEvents
    PROVE  /\ RecordEvent(s, e, t) \in Scorers
           /\ RecordEvent(s, e, t).ceiling = s.ceiling
           /\ RecordEvent(s, e, t).signal <= t
<1>1. Delta(e) \in Int
  BY TrustAssumption DEF Delta, TrustEvents
<1>2. Decayed(s, t) \in TrustValues BY DecayedInScale
<1>3. Clamp(Decayed(s, t) + Delta(e)) \in TrustValues
  BY <1>1, <1>2, ClampInScale, TrustAssumption DEF TrustValues
<1>4. s.ceiling \in TrustValues /\ s.signal \in Nat BY DEF Scorers
<1>5. QED BY <1>3, <1>4 DEF RecordEvent, Scorers

LEMMA SetValueType ==
    ASSUME NEW s \in Scorers, NEW t \in Nat, NEW v \in TrustValues
    PROVE  /\ SetValue(s, v, t) \in Scorers
           /\ SetValue(s, v, t).ceiling = s.ceiling
           /\ SetValue(s, v, t).signal = t
BY ClampInScale, TrustAssumption DEF SetValue, Scorers, TrustValues

\* What register() computes for a child is bounded by its parent: ceiling by
\* the parent's ceiling and trust, own trust by the new ceiling.
LEMMA ChildBounded ==
    ASSUME NEW r \in RequestType, NEW parent \in Records, FirstStatus \in Statuses
    PROVE  /\ ChildRecord(r, parent) \in Records
           /\ ChildRecord(r, parent).ceiling <= parent.ceiling
           /\ ChildRecord(r, parent).ceiling <= parent.trust
           /\ ChildRecord(r, parent).trust <= ChildRecord(r, parent).ceiling
           /\ ChildRecord(r, parent).trust <= parent.trust
           /\ ChildRecord(r, parent).ceiling \in TrustValues
           /\ ChildRecord(r, parent).trust \in TrustValues
           /\ ChildRecord(r, parent).parent = r.parent
           /\ ChildRecord(r, parent).grants = r.grants
           /\ ChildRecord(r, parent).depth = ChildDepth(parent)
<1>1. /\ r.trust \in TrustValues /\ r.ceiling \in TrustValues /\ r.id \in Ids
      /\ r.grants \in Seq(Grants) /\ r.parent \in Ids \cup {NoParent} /\ r.key \in Keys
  BY DEF RequestType
<1>2. /\ parent.trust \in TrustValues /\ parent.ceiling \in TrustValues
      /\ parent.depth \in Nat
  BY DEF Records
<1> DEFINE c == ChildCeiling(parent, r.ceiling)
<1>3. /\ c \in TrustValues /\ c <= parent.ceiling /\ c <= parent.trust
  BY <1>1, <1>2, TrustAssumption DEF ChildCeiling, Lower, TrustValues
<1>4. Lower(r.trust, c) \in TrustValues /\ Lower(r.trust, c) <= c
  BY <1>1, <1>3, TrustAssumption DEF Lower, TrustValues
<1> HIDE DEF c
<1>5. ChildRecord(r, parent) =
        [id |-> r.id, parent |-> r.parent, grants |-> r.grants,
         trust |-> Lower(r.trust, c), ceiling |-> c, depth |-> parent.depth + 1,
         status |-> FirstStatus, key |-> r.key, revision |-> 1]
  BY DEF ChildRecord, NewRecord, ChildDepth, c
<1>6. Lower(r.trust, c) <= parent.trust
  BY <1>2, <1>3, <1>4, TrustAssumption DEF TrustValues
<1>7. QED
  BY <1>1, <1>2, <1>3, <1>4, <1>5, <1>6 DEF Records, ChildDepth

LEMMA RootType ==
    ASSUME NEW r \in RequestType, r.parent = NoParent, FirstStatus \in Statuses
    PROVE  /\ RootRecord(r) \in Records
           /\ RootRecord(r).grants = r.grants
           /\ RootRecord(r).parent = NoParent
           /\ RootRecord(r).ceiling = r.ceiling /\ r.ceiling \in TrustValues
           /\ RootRecord(r).trust = r.trust /\ r.trust \in TrustValues
BY DEF RootRecord, NewRecord, Records, RequestType

\* A grant list holds pairs of the universe; appending a grant adds its pairs.
LEMMA PairsOfType ==
    ASSUME NEW gs \in Seq(Grants)
    PROVE  PairsOf(gs) \subseteq Pairs
<1>1. \A i \in DOMAIN gs : gs[i] \in Grants OBVIOUS
<1>2. \A i \in DOMAIN gs : gs[i].pairs \subseteq Pairs BY <1>1 DEF Grants
<1>3. QED BY <1>2 DEF PairsOf

LEMMA PairsOfAppend ==
    ASSUME NEW gs \in Seq(Grants), NEW g \in Grants
    PROVE  /\ Append(gs, g) \in Seq(Grants)
           /\ PairsOf(Append(gs, g)) = PairsOf(gs) \cup g.pairs
           /\ PairsOf(<<g>>) = g.pairs
<1>1. Append(gs, g) \in Seq(Grants) OBVIOUS
<1>2. DOMAIN Append(gs, g) = 1 .. Len(gs) + 1 /\ DOMAIN gs = 1 .. Len(gs)
  OBVIOUS
<1>3. \A i \in DOMAIN gs : Append(gs, g)[i] = gs[i] OBVIOUS
<1>4. Append(gs, g)[Len(gs) + 1] = g OBVIOUS
<1>5. Len(gs) \in Nat OBVIOUS
<1>6. DOMAIN Append(gs, g) = DOMAIN gs \cup {Len(gs) + 1}
  BY <1>2, <1>5
<1>7. PairsOf(Append(gs, g)) = PairsOf(gs) \cup g.pairs
  BY <1>3, <1>4, <1>6 DEF PairsOf
<1>8. PairsOf(<<g>>) = g.pairs
  <2>1. DOMAIN <<g>> = {1} /\ <<g>>[1] = g OBVIOUS
  <2>2. QED BY <2>1 DEF PairsOf
<1>9. QED BY <1>1, <1>7, <1>8

\* Removing one grant leaves a list of grants and no new pair.
LEMMA PairsOfRemove ==
    ASSUME NEW gs \in Seq(Grants), NEW i \in DOMAIN gs
    PROVE  /\ SubSeq(gs, 1, i - 1) \o SubSeq(gs, i + 1, Len(gs)) \in Seq(Grants)
           /\ PairsOf(SubSeq(gs, 1, i - 1) \o SubSeq(gs, i + 1, Len(gs))) \subseteq PairsOf(gs)
<1> DEFINE front == SubSeq(gs, 1, i - 1)
           back  == SubSeq(gs, i + 1, Len(gs))
<1>1. i \in 1 .. Len(gs) /\ Len(gs) \in Nat /\ DOMAIN gs = 1 .. Len(gs)
  OBVIOUS
<1>2. /\ front \in Seq(Grants) /\ Len(front) = i - 1
      /\ \A j \in 1 .. i - 1 : front[j] = gs[j]
  BY <1>1
<1>3. /\ back \in Seq(Grants) /\ Len(back) = Len(gs) - i
      /\ \A j \in 1 .. Len(gs) - i : back[j] = gs[i + j]
  BY <1>1
<1> HIDE DEF front, back
<1>4. front \o back \in Seq(Grants) BY <1>2, <1>3
<1>5. ASSUME NEW j \in DOMAIN (front \o back)
      PROVE  \E k \in DOMAIN gs : (front \o back)[j] = gs[k]
  <2>1. j \in 1 .. (i - 1) + (Len(gs) - i) BY <1>1, <1>2, <1>3
  <2>2. CASE j <= i - 1
    BY <1>1, <1>2, <1>3, <2>1, <2>2
  <2>3. CASE j > i - 1
    <3>1. (front \o back)[j] = back[j - (i - 1)] BY <1>1, <1>2, <1>3, <2>1, <2>3
    <3>2. j - (i - 1) \in 1 .. Len(gs) - i BY <1>1, <2>1, <2>3
    <3>3. back[j - (i - 1)] = gs[i + (j - (i - 1))] BY <1>3, <3>2
    <3>4. i + (j - (i - 1)) \in DOMAIN gs BY <1>1, <3>2
    <3>5. QED BY <3>1, <3>3, <3>4
  <2>4. QED BY <1>1, <2>1, <2>2, <2>3
<1>6. PairsOf(front \o back) \subseteq PairsOf(gs)
  BY <1>5 DEF PairsOf
<1>7. QED BY <1>4, <1>6 DEF front, back

LEMMA WithGrantFacts ==
    ASSUME NEW record \in Records, NEW g \in Grants
    PROVE  /\ WithGrant(record, g) \in Records
           /\ WithGrant(record, g).revision = record.revision
           /\ WithGrant(record, g).ceiling = record.ceiling
           /\ WithGrant(record, g).trust = record.trust
           /\ WithGrant(record, g).parent = record.parent
           /\ PairsOf(WithGrant(record, g).grants) = PairsOf(record.grants) \cup g.pairs
<1>1. record.grants \in Seq(Grants) BY DEF Records
<1>2. /\ Append(record.grants, g) \in Seq(Grants)
      /\ PairsOf(Append(record.grants, g)) = PairsOf(record.grants) \cup g.pairs
  BY <1>1, PairsOfAppend
<1>3. QED BY <1>2 DEF WithGrant, Records

LEMMA WithoutGrantFacts ==
    ASSUME NEW record \in Records, NEW i \in DOMAIN record.grants
    PROVE  /\ WithoutGrant(record, i) \in Records
           /\ WithoutGrant(record, i).revision = record.revision
           /\ WithoutGrant(record, i).ceiling = record.ceiling
           /\ WithoutGrant(record, i).trust = record.trust
           /\ WithoutGrant(record, i).parent = record.parent
           /\ PairsOf(WithoutGrant(record, i).grants) \subseteq PairsOf(record.grants)
<1>1. record.grants \in Seq(Grants) BY DEF Records
<1> DEFINE rest == SubSeq(record.grants, 1, i - 1)
                     \o SubSeq(record.grants, i + 1, Len(record.grants))
<1>2. rest \in Seq(Grants) /\ PairsOf(rest) \subseteq PairsOf(record.grants)
  BY <1>1, PairsOfRemove
<1>3. WithoutGrant(record, i) = [record EXCEPT !.grants = rest] BY DEF WithoutGrant
<1> HIDE DEF rest
<1>4. QED BY <1>2, <1>3 DEF Records

-----------------------------------------------------------------------------
(* What one mutation changes of a record                                   *)

\* Two records with the same content; only the trust may differ.
Alike(r, s) ==
    /\ r.id = s.id /\ r.parent = s.parent /\ r.grants = s.grants
    /\ r.ceiling = s.ceiling /\ r.depth = s.depth
    /\ r.status = s.status /\ r.key = s.key /\ r.revision = s.revision

ContentFields == {"grants", "status", "key"}

\* One mutation changes at most one field of the content, the grants by one.
OneChange(old, new) ==
    /\ new.id = old.id /\ new.parent = old.parent /\ new.ceiling = old.ceiling
    /\ new.depth = old.depth /\ new.revision = old.revision
    /\ \E f \in ContentFields : \A g \in ContentFields \ {f} : new[g] = old[g]
    /\ Len(new.grants) - Len(old.grants) \in -1 .. 1

LEMMA GrantAdded ==
    ASSUME NEW old \in Records, NEW own \in Records, Alike(own, old), NEW g \in Grants
    PROVE  OneChange(old, WithGrant(own, g))
<1>1. own.grants \in Seq(Grants) BY DEF Records
<1>2. Len(Append(own.grants, g)) = Len(own.grants) + 1 /\ Len(own.grants) \in Nat
  BY <1>1
<1> DEFINE longer == Append(own.grants, g)
           new == [own EXCEPT !.grants = longer]
<1>3. WithGrant(own, g) = new BY DEF WithGrant
<1>4. Len(longer) - Len(old.grants) \in -1 .. 1 BY <1>2 DEF Alike
<1> HIDE DEF longer
<1>5. /\ new.grants = longer /\ new.id = own.id /\ new.parent = own.parent
      /\ new.ceiling = own.ceiling /\ new.depth = own.depth
      /\ new.revision = own.revision /\ new.status = own.status /\ new.key = own.key
  BY DEF Records
<1> HIDE DEF new
<1>6. \A f \in ContentFields \ {"grants"} : new[f] = old[f]
  BY <1>5 DEF ContentFields, Alike
<1>7. QED BY <1>3, <1>4, <1>5, <1>6 DEF OneChange, Alike, ContentFields

LEMMA GrantRemoved ==
    ASSUME NEW old \in Records, NEW own \in Records, Alike(own, old),
           NEW i \in DOMAIN own.grants
    PROVE  OneChange(old, WithoutGrant(own, i))
<1> DEFINE gs == own.grants
           front == SubSeq(gs, 1, i - 1)
           back == SubSeq(gs, i + 1, Len(gs))
           shorter == front \o back
           new == [own EXCEPT !.grants = shorter]
<1>1. gs \in Seq(Grants) BY DEF Records
<1> HIDE DEF gs
<1>2. i \in 1 .. Len(gs) /\ Len(gs) \in Nat BY <1>1 DEF gs
<1>3. /\ front \in Seq(Grants) /\ Len(front) = i - 1
      /\ back \in Seq(Grants) /\ Len(back) = Len(gs) - i
  BY <1>1, <1>2
<1> HIDE DEF front, back
<1>4. Len(shorter) = (i - 1) + (Len(gs) - i) BY <1>3
<1>5. WithoutGrant(own, i) = new BY DEF WithoutGrant, gs, front, back
<1>6. Len(shorter) - Len(old.grants) \in -1 .. 1 BY <1>2, <1>4 DEF Alike, gs
<1> HIDE DEF shorter
<1>7. /\ new.grants = shorter /\ new.id = own.id /\ new.parent = own.parent
      /\ new.ceiling = own.ceiling /\ new.depth = own.depth
      /\ new.revision = own.revision /\ new.status = own.status /\ new.key = own.key
  BY DEF Records
<1> HIDE DEF new
<1>8. \A f \in ContentFields \ {"grants"} : new[f] = old[f]
  BY <1>7 DEF ContentFields, Alike
<1>9. QED BY <1>5, <1>6, <1>7, <1>8 DEF OneChange, Alike, ContentFields

\* A new status, key or trust.
LEMMA FieldChanged ==
    ASSUME NEW old \in Records, NEW own \in Records, Alike(own, old)
    PROVE  /\ \A v \in Statuses : LET new == [own EXCEPT !.status = v]
                                  IN  new \in Records /\ OneChange(old, new)
                                      /\ new.grants = old.grants /\ new.parent = old.parent
           /\ \A v \in Keys : LET new == [own EXCEPT !.key = v]
                              IN  new \in Records /\ OneChange(old, new)
                                  /\ new.grants = old.grants /\ new.parent = old.parent
           /\ \A v \in TrustValues : LET new == [own EXCEPT !.trust = v]
                                     IN  new \in Records /\ OneChange(old, new)
                                         /\ new.grants = old.grants /\ new.parent = old.parent
<1>1. old.grants \in Seq(Grants) BY DEF Records
<1>2. Len(old.grants) - Len(old.grants) \in -1 .. 1 BY <1>1
<1>3. ASSUME NEW v \in Statuses
      PROVE  LET new == [own EXCEPT !.status = v]
             IN  new \in Records /\ OneChange(old, new)
                 /\ new.grants = old.grants /\ new.parent = old.parent
  BY <1>2 DEF Records, OneChange, Alike, ContentFields
<1>4. ASSUME NEW v \in Keys
      PROVE  LET new == [own EXCEPT !.key = v]
             IN  new \in Records /\ OneChange(old, new)
                 /\ new.grants = old.grants /\ new.parent = old.parent
  BY <1>2 DEF Records, OneChange, Alike, ContentFields
<1>5. ASSUME NEW v \in TrustValues
      PROVE  LET new == [own EXCEPT !.trust = v]
             IN  new \in Records /\ OneChange(old, new)
                 /\ new.grants = old.grants /\ new.parent = old.parent
  BY <1>2 DEF Records, OneChange, Alike, ContentFields
<1>6. QED BY <1>3, <1>4, <1>5

\* At most one of a set of content fields changes.
LEMMA OneFieldChanges ==
    ASSUME NEW old, NEW new, NEW f \in ContentFields,
           \A g \in ContentFields \ {f} : new[g] = old[g]
    PROVE  Cardinality({g \in ContentFields : old[g] # new[g]}) <= 1
<1> DEFINE changed == {g \in ContentFields : old[g] # new[g]}
<1>1. changed \subseteq {f} OBVIOUS
<1>2. IsFiniteSet({f}) /\ Cardinality({f}) = 1 BY FS_Singleton
<1>3. IsFiniteSet(changed) /\ Cardinality(changed) <= Cardinality({f})
  BY <1>1, <1>2, FS_Subset
<1>4. QED BY <1>2, <1>3
=============================================================================
