-------------------------- MODULE MergeDriverProofs --------------------------
(***************************************************************************)
(* What holds of two branches and the merge driver for any names, people,  *)
(* clocks and numbers of commands and merges: what the gate lets a command *)
(* open does open, no one-sided edit is lost, both sides get the same      *)
(* secrets, and a revoked recipient stays out.                             *)
(*                                                                         *)
(* A command is taken apart once, by the lemmas about Outcomes and         *)
(* AfterSet: what it makes of a pair is typed, opens if the old one did,   *)
(* and follows it record by record (Next1).  A merge is taken apart by     *)
(* what is in `result` when it ends (ResultInv).                           *)
(***************************************************************************)
EXTENDS MergeDriver, TLAPS

(* The functions from some of I to W. *)
Partial(I, W) == UNION {[D -> W] : D \in SUBSET I}

RecordIds == Names \X Nat
Wrapping  == [sdk : Nat, under : Nat]
Wraps     == Partial(RecordIds, Wrapping)
Grants    == [dek : Nat, sdks : Partial(RecordIds, Nat), full : BOOLEAN,
              by : Sides \cup {"none"}]
Secrets   == [Names -> Records]
Vaults    == [epoch : Nat, kek : Nat, dek : Nat, hash : Secrets, sealed : BOOLEAN,
              wraps : Wraps, signers : SUBSET Sides, rcpt : [People -> Grants]]
Pairs     == [vault : Vaults, secrets : Secrets]

(* A record of n is minted under its name, by the number f at the latest. *)
Minted(n, r, f) ==
  r # NoRecord => /\ r.id \in {n} \X (0 .. f)
                  /\ r.val \in 0 .. f
AllMinted(s, f) == \A n \in Names : Minted(n, s[n], f)

(* y is what one command with the number f + 1 can make of the record x. *)
OneStep(n, x, y, f) ==
  \/ y = x
  \/ y = NoRecord
  \/ /\ x # NoRecord /\ y # NoRecord
     /\ y.id = x.id /\ y.ver > x.ver /\ y.val \in {x.val, f + 1}
  \/ /\ y # NoRecord /\ y.id = <<n, f + 1>> /\ y.val = f + 1
Follow(x, y, f) == \A n \in Names : OneStep(n, x[n], y[n], f)

AllOpen(p) == \A n \in Names : Openable(p, n)

-----------------------------------------------------------------------------
(* Functions with a domain that changes.                                     *)

(* To and from the definition of Partial. *)
LEMMA PartialIn ==
  ASSUME NEW I, NEW W, NEW D, D \subseteq I, NEW f \in [D -> W]
  PROVE  f \in Partial(I, W)
  BY DEF Partial

(* ... back. *)
LEMMA PartialOut ==
  ASSUME NEW I, NEW W, NEW f \in Partial(I, W)
  PROVE  f \in [DOMAIN f -> W] /\ DOMAIN f \subseteq I
  BY DEF Partial

(* Insert adds an entry, *)
LEMMA InsertPartial ==
  ASSUME NEW I, NEW W, NEW f \in Partial(I, W), NEW k \in I, NEW x \in W,
         NEW g, g = Insert(f, k, x)
  PROVE  g \in Partial(I, W)
<1>1. f \in [DOMAIN f -> W] /\ DOMAIN f \subseteq I
  BY PartialOut
<1>2. g \in [DOMAIN f \cup {k} -> W] /\ DOMAIN f \cup {k} \subseteq I
  BY <1>1 DEF Insert
<1>3. QED
  BY <1>2, PartialIn

(* Without removes some, *)
LEMMA WithoutPartial ==
  ASSUME NEW I, NEW W, NEW f \in Partial(I, W), NEW ks, NEW g, g = Without(f, ks)
  PROVE  g \in Partial(I, W)
<1>1. f \in [DOMAIN f -> W] /\ DOMAIN f \subseteq I
  BY PartialOut
<1>2. g \in [DOMAIN f \ ks -> W] /\ DOMAIN f \ ks \subseteq I
  BY <1>1 DEF Without
<1>3. QED
  BY <1>2, PartialIn

(* and UnionOf joins two sets of wrappings. *)
LEMMA UnionPartial ==
  ASSUME NEW I, NEW W, NEW f \in Partial(I, W), NEW g \in Partial(I, W), NEW won,
         NEW u, u = UnionOf(f, g, won)
  PROVE  u \in Partial(I, W)
<1>1. /\ f \in [DOMAIN f -> W] /\ DOMAIN f \subseteq I
      /\ g \in [DOMAIN g -> W] /\ DOMAIN g \subseteq I
  BY PartialOut
<1>2. /\ u \in [DOMAIN f \cup DOMAIN g -> W]
      /\ DOMAIN f \cup DOMAIN g \subseteq I
  BY <1>1 DEF UnionOf
<1>3. QED
  BY <1>2, PartialIn

-----------------------------------------------------------------------------
(* One command.                                                              *)

(* What is assumed of the constants. *)
LEMMA Constants == /\ Times \subseteq Nat \ {0} /\ 1 \in Times /\ Version \in Nat \ {0}
                   /\ MaxOps \in Nat /\ MaxMerges \in Nat
  BY TimesAssumption, VersionAssumption, BoundsAssumption

(* The record that is not there is one by its type. *)
LEMMA NoRecordIn == NoRecord \in Records
  BY DEF NoRecord, Records, None

(* The numbers of a record, and its fields: two that agree on all are one. *)
LEMMA RecordNumbers ==
  ASSUME NEW r \in Records
  PROVE  /\ r.ver \in Nat /\ r.time \in Nat /\ r.val \in Nat
         /\ r = [id |-> r.id, ver |-> r.ver, time |-> r.time, sdk |-> r.sdk, val |-> r.val]
<1>1. r.time \in Times \cup {0}
  BY DEF Records
<1>2. r.time \in Nat
  <2>1. \A t \in Times : t \in Nat
    BY TimesAssumption
  <2>2. QED
    BY <1>1, <2>1
<1>3. QED
  BY <1>2 DEF Records

(* Every command ends in a commit. *)
LEMMA CommittedTyped ==
  ASSUME NEW v \in Vaults, NEW s \in Secrets
  PROVE  /\ Committed(v, s) \in Pairs
         /\ Committed(v, s).secrets = s
         /\ Committed(v, s).vault.hash = s
         /\ Committed(v, s).vault.wraps = v.wraps
         /\ Committed(v, s).vault.dek = v.dek
         /\ Committed(v, s).vault.rcpt = v.rcpt
         /\ Committed(v, s).vault.signers = v.signers
<1> DEFINE w == [v EXCEPT !.epoch = @ + 1, !.sealed = TRUE, !.hash = s]
<1>1. w \in Vaults
  <2>1. ASSUME NEW e \in Nat, NEW b \in BOOLEAN
        PROVE  [v EXCEPT !.epoch = e, !.sealed = b, !.hash = s] \in Vaults
    BY DEF Vaults
  <2>2. v.epoch + 1 \in Nat
    BY DEF Vaults
  <2>3. QED
    BY <2>1, <2>2
<1>2. /\ w.hash = s /\ w.wraps = v.wraps /\ w.dek = v.dek
      /\ w.rcpt = v.rcpt /\ w.signers = v.signers
  BY DEF Vaults
<1>3. Committed(v, s) = [vault |-> w, secrets |-> s]
  BY DEF Committed
<1> HIDE DEF w
<1>4. QED
  BY <1>1, <1>2, <1>3 DEF Pairs

(* A pair opens if its hash and its wrappings are those of its records. *)
LEMMA CommittedOpens ==
  ASSUME NEW v \in Vaults, NEW s \in Secrets,
         \A n \in Names : Openable([vault |-> v, secrets |-> s], n)
  PROVE  Usable(Committed(v, s))
  BY CommittedTyped DEF Usable, Openable

(* `dl set`: the record is new or newer, and wrapped under the project key of
   the metadata that the command holds. *)
LEMMA SetOutcome ==
  ASSUME NEW v \in Vaults, NEW s \in Secrets, fresh \in Nat, AllMinted(s, fresh),
         NEW n \in Names, NEW t \in Times
  PROVE  /\ AfterSet(v, s, n, t) \in Pairs
         /\ Follow(s, AfterSet(v, s, n, t).secrets, fresh)
         /\ AllOpen([vault |-> v, secrets |-> s]) => Usable(AfterSet(v, s, n, t))
<1> DEFINE old == s[n]
           new == old = NoRecord
           id  == IF new THEN <<n, fresh + 1>> ELSE old.id
           sdk == IF ~new /\ id \in DOMAIN v.wraps THEN v.wraps[id].sdk ELSE fresh + 1
           record == [id |-> id, ver |-> old.ver + 1, time |-> t, sdk |-> sdk,
                      val |-> fresh + 1]
           rcpt == [q \in People |->
                     IF v.rcpt[q].full /\ MayGet(v, q)
                     THEN [v.rcpt[q] EXCEPT !.sdks = Insert(@, id, sdk)] ELSE v.rcpt[q]]
           wraps == Insert(v.wraps, id, [sdk |-> sdk, under |-> v.dek])
           v2 == [v EXCEPT !.wraps = wraps, !.rcpt = rcpt]
           s2 == [s EXCEPT ![n] = record]
<1>1. AfterSet(v, s, n, t) = Committed(v2, s2)
  BY DEF AfterSet
<1>2. /\ old \in Records /\ t \in Nat /\ t \in Times \cup {0}
      /\ v.dek \in Nat /\ v.wraps \in Wraps /\ v.rcpt \in [People -> Grants]
  BY Constants DEF Secrets, Vaults
<1>3. /\ id \in RecordIds /\ id[1] = n
      /\ ~new => id = old.id
  BY <1>2 DEF AllMinted, Minted, RecordIds
<1>4. sdk \in Nat
  <2>1. v.wraps \in [DOMAIN v.wraps -> Wrapping]
    BY <1>2, PartialOut DEF Wraps
  <2>2. QED
    BY <2>1 DEF Wrapping
<1>5. record \in Records /\ record # NoRecord
  BY <1>2, <1>3, <1>4 DEF Records, NoRecord, RecordIds
<1>6. s2 \in Secrets
  BY <1>5 DEF Secrets
<1>7. /\ wraps \in Wraps
      /\ id \in DOMAIN wraps /\ wraps[id] = [sdk |-> sdk, under |-> v.dek]
      /\ \A i \in DOMAIN v.wraps : i # id => i \in DOMAIN wraps /\ wraps[i] = v.wraps[i]
  <2> HIDE DEF id, sdk
  <2>1. [sdk |-> sdk, under |-> v.dek] \in Wrapping
    BY <1>2, <1>4 DEF Wrapping
  <2>2. v.wraps \in Partial(RecordIds, Wrapping) /\ id \in RecordIds
    BY <1>2, <1>3 DEF Wraps
  <2> DEFINE x == [sdk |-> sdk, under |-> v.dek]
             f == v.wraps
  <2>3. x \in Wrapping /\ f \in Partial(RecordIds, Wrapping) /\ wraps = Insert(f, id, x)
    BY <2>1, <2>2
  <2> HIDE DEF wraps, x, f
  <2>4. wraps \in Partial(RecordIds, Wrapping)
    BY <2>2, <2>3, InsertPartial
  <2>5. /\ id \in DOMAIN wraps /\ wraps[id] = x
        /\ \A i \in DOMAIN f : i # id => i \in DOMAIN wraps /\ wraps[i] = f[i]
    BY <2>3 DEF Insert
  <2>6. QED
    BY <2>4, <2>5 DEF Wraps, x, f
<1>8. rcpt \in [People -> Grants]
  <2> SUFFICES ASSUME NEW q \in People
               PROVE  [v.rcpt[q] EXCEPT !.sdks = Insert(@, id, sdk)] \in Grants
    BY <1>2
  <2>1. v.rcpt[q] \in Grants
    BY <1>2
  <2> HIDE DEF id, sdk
  <2>2. Insert(v.rcpt[q].sdks, id, sdk) \in Partial(RecordIds, Nat)
    BY <2>1, <1>3, <1>4, InsertPartial DEF Grants
  <2>3. QED
    BY <2>1, <2>2 DEF Grants
<1>9. v2 \in Vaults /\ v2.wraps = wraps /\ v2.dek = v.dek
  BY <1>7, <1>8 DEF Vaults
<1>10. Follow(s, s2, fresh)
  BY <1>2, <1>3, <1>5 DEF Follow, OneStep, Secrets, Records
<1>11. ASSUME AllOpen([vault |-> v, secrets |-> s])
       PROVE  \A m \in Names : Openable([vault |-> v2, secrets |-> s2], m)
  <2> SUFFICES ASSUME NEW m \in Names, s2[m] # NoRecord
               PROVE  /\ s2[m].id \in DOMAIN wraps
                      /\ wraps[s2[m].id] = [sdk |-> s2[m].sdk, under |-> v.dek]
    BY <1>9 DEF Openable
  <2>1. CASE m = n
    BY <1>7, <2>1 DEF Secrets
  <2>2. CASE m # n
    <3>1. s2[m] = s[m]
      BY <2>2 DEF Secrets
    <3>2. s[m].id[1] = m
      BY <3>1 DEF AllMinted, Minted
    <3>3. /\ s[m].id \in DOMAIN v.wraps
          /\ v.wraps[s[m].id] = [sdk |-> s[m].sdk, under |-> v.dek]
      BY <3>1, <1>11 DEF AllOpen, Openable
    <3>4. QED
      BY <1>3, <1>7, <2>2, <3>1, <3>2, <3>3
  <2>3. QED
    BY <2>1, <2>2
<1> HIDE DEF v2, s2
<1>12. QED
  BY <1>1, <1>6, <1>9, <1>10, <1>11, CommittedTyped, CommittedOpens

(* `dl unset`: the record and its wrappings go. *)
LEMMA UnsetOutcome ==
  ASSUME NEW v \in Vaults, NEW s \in Secrets, fresh \in Nat, AllMinted(s, fresh),
         NEW n \in Names
  PROVE  /\ AfterUnset(v, s, n) \in Pairs
         /\ Follow(s, AfterUnset(v, s, n).secrets, fresh)
         /\ AllOpen([vault |-> v, secrets |-> s]) /\ s[n] # NoRecord
              => Usable(AfterUnset(v, s, n))
<1> DEFINE gone  == {s[n].id}
           wraps == Without(v.wraps, gone)
           rcpt  == [q \in People |-> [v.rcpt[q] EXCEPT !.sdks = Without(@, gone)]]
           v2    == [v EXCEPT !.wraps = wraps, !.rcpt = rcpt]
           s2    == [s EXCEPT ![n] = NoRecord]
<1>1. AfterUnset(v, s, n) = Committed(v2, s2)
  BY DEF AfterUnset
<1>2. v.wraps \in Partial(RecordIds, Wrapping) /\ v.rcpt \in [People -> Grants]
  BY DEF Vaults, Wraps
<1>3. /\ wraps \in Wraps
      /\ \A i \in DOMAIN v.wraps : i \notin gone => i \in DOMAIN wraps /\ wraps[i] = v.wraps[i]
  <2> DEFINE f == v.wraps
  <2>1. wraps = Without(f, gone) /\ f \in Partial(RecordIds, Wrapping)
    BY <1>2
  <2> HIDE DEF wraps, f, gone
  <2>2. wraps \in Partial(RecordIds, Wrapping)
    BY <2>1, WithoutPartial
  <2>3. \A i \in DOMAIN f : i \notin gone => i \in DOMAIN wraps /\ wraps[i] = f[i]
    BY <2>1 DEF Without
  <2>4. QED
    BY <2>2, <2>3 DEF Wraps, f
<1>4. rcpt \in [People -> Grants]
  <2> HIDE DEF gone
  <2> SUFFICES ASSUME NEW q \in People
               PROVE  [v.rcpt[q] EXCEPT !.sdks = Without(@, gone)] \in Grants
    OBVIOUS
  <2>1. v.rcpt[q] \in Grants
    BY <1>2
  <2>2. Without(v.rcpt[q].sdks, gone) \in Partial(RecordIds, Nat)
    BY <2>1, WithoutPartial DEF Grants
  <2>3. QED
    BY <2>1, <2>2 DEF Grants
<1>5. s2 \in Secrets /\ Follow(s, s2, fresh)
  BY NoRecordIn DEF Secrets, Follow, OneStep
<1>6. v2 \in Vaults /\ v2.wraps = wraps /\ v2.dek = v.dek
  BY <1>3, <1>4 DEF Vaults
<1>7. ASSUME AllOpen([vault |-> v, secrets |-> s]), s[n] # NoRecord
      PROVE  \A m \in Names : Openable([vault |-> v2, secrets |-> s2], m)
  <2> SUFFICES ASSUME NEW m \in Names, s2[m] # NoRecord
               PROVE  /\ s2[m].id \in DOMAIN wraps
                      /\ wraps[s2[m].id] = [sdk |-> s2[m].sdk, under |-> v.dek]
    BY <1>6 DEF Openable
  <2>1. m # n /\ s2[m] = s[m]
    BY DEF Secrets
  <2>2. s[m].id[1] = m /\ s[n].id[1] = n
    BY <2>1, <1>7 DEF AllMinted, Minted
  <2>3. s[m].id \notin gone
    BY <2>1, <2>2
  <2>4. /\ s[m].id \in DOMAIN v.wraps
        /\ v.wraps[s[m].id] = [sdk |-> s[m].sdk, under |-> v.dek]
    BY <2>1, <1>7 DEF AllOpen, Openable
  <2> HIDE DEF wraps, gone
  <2>5. QED
    BY <1>3, <2>1, <2>3, <2>4
<1> HIDE DEF v2, s2
<1>8. QED
  BY <1>1, <1>5, <1>6, <1>7, CommittedTyped, CommittedOpens

(* The end of a person's access to one secret: it is encrypted anew. *)
LEMMA RemovalOutcome ==
  ASSUME NEW v \in Vaults, NEW s \in Secrets, fresh \in Nat, AllMinted(s, fresh),
         NEW n \in Names, s[n] # NoRecord, NEW who, NEW t \in Times
  PROVE  /\ AfterRemoval(v, s, n, who, t) \in Pairs
         /\ Follow(s, AfterRemoval(v, s, n, who, t).secrets, fresh)
         /\ AllOpen([vault |-> v, secrets |-> s]) => Usable(AfterRemoval(v, s, n, who, t))
<1> DEFINE id   == s[n].id
           sdk  == fresh + 1
           Kept(g) == [g EXCEPT !.sdks = Insert(@, id, sdk)]
           Gone(g) == [g EXCEPT !.sdks = Without(@, {id}), !.full = FALSE]
           rcpt == [q \in People |->
                 CASE q = who -> Gone(v.rcpt[q])
                   [] q # who /\ MayGet(v, q)
                        /\ (v.rcpt[q].full \/ id \in DOMAIN v.rcpt[q].sdks)
                      -> Kept(v.rcpt[q])
                   [] OTHER -> v.rcpt[q]]
           wraps == Insert(v.wraps, id, [sdk |-> sdk, under |-> v.dek])
           v2    == [v EXCEPT !.wraps = wraps, !.rcpt = rcpt]
           s2    == [s EXCEPT ![n].ver = @ + 1, ![n].time = t, ![n].sdk = sdk]
<1>1. AfterRemoval(v, s, n, who, t) = Committed(v2, s2)
  BY DEF AfterRemoval
<1>2. /\ v.dek \in Nat /\ v.wraps \in Partial(RecordIds, Wrapping)
      /\ v.rcpt \in [People -> Grants] /\ s[n] \in Records /\ t \in Times \cup {0}
      /\ id \in RecordIds /\ id[1] = n /\ sdk \in Nat
  BY DEF Secrets, Vaults, Wraps, AllMinted, Minted, RecordIds
<1>3. /\ wraps \in Wraps
      /\ id \in DOMAIN wraps /\ wraps[id] = [sdk |-> sdk, under |-> v.dek]
      /\ \A i \in DOMAIN v.wraps : i # id => i \in DOMAIN wraps /\ wraps[i] = v.wraps[i]
  <2> HIDE DEF id, sdk
  <2>1. [sdk |-> sdk, under |-> v.dek] \in Wrapping
    BY <1>2 DEF Wrapping
  <2> DEFINE x == [sdk |-> sdk, under |-> v.dek]
             f == v.wraps
  <2>2. x \in Wrapping /\ f \in Partial(RecordIds, Wrapping) /\ wraps = Insert(f, id, x)
        /\ id \in RecordIds
    BY <1>2, <2>1
  <2> HIDE DEF wraps, x, f
  <2>3. wraps \in Partial(RecordIds, Wrapping)
    BY <2>2, InsertPartial
  <2>4. /\ id \in DOMAIN wraps /\ wraps[id] = x
        /\ \A i \in DOMAIN f : i # id => i \in DOMAIN wraps /\ wraps[i] = f[i]
    BY <2>2 DEF Insert
  <2>5. QED
    BY <2>3, <2>4 DEF Wraps, x, f
<1>4. rcpt \in [People -> Grants]
  <2>1. ASSUME NEW q \in People PROVE Kept(v.rcpt[q]) \in Grants
    <3> HIDE DEF id, sdk
    <3>1. v.rcpt[q] \in Grants
      BY <1>2
    <3>2. Insert(v.rcpt[q].sdks, id, sdk) \in Partial(RecordIds, Nat)
      BY <1>2, <3>1, InsertPartial DEF Grants
    <3>3. QED
      BY <3>1, <3>2 DEF Grants
  <2>2. ASSUME NEW q \in People PROVE Gone(v.rcpt[q]) \in Grants
    <3> HIDE DEF id
    <3>1. v.rcpt[q] \in Grants
      BY <1>2
    <3>2. Without(v.rcpt[q].sdks, {id}) \in Partial(RecordIds, Nat)
      BY <3>1, WithoutPartial DEF Grants
    <3>3. ASSUME NEW b \in BOOLEAN, NEW w \in Partial(RecordIds, Nat)
          PROVE  [v.rcpt[q] EXCEPT !.sdks = w, !.full = b] \in Grants
      BY <3>1 DEF Grants
    <3>4. QED
      BY <3>2, <3>3
  <2> HIDE DEF Kept, Gone, id
  <2>3. ASSUME NEW q \in People PROVE v.rcpt[q] \in Grants
    BY <1>2
  <2>4. QED
    BY <2>1, <2>2, <2>3
<1>5. s2 \in Secrets /\ Follow(s, s2, fresh)
  <2> DEFINE r == [s[n] EXCEPT !.ver = @ + 1, !.time = t, !.sdk = sdk]
  <2>1. ASSUME NEW k \in Nat, NEW d \in Nat
        PROVE  /\ [s[n] EXCEPT !.ver = k, !.time = t, !.sdk = d] \in Records
               /\ [s[n] EXCEPT !.ver = k, !.time = t, !.sdk = d].id = s[n].id
               /\ [s[n] EXCEPT !.ver = k, !.time = t, !.sdk = d].val = s[n].val
               /\ [s[n] EXCEPT !.ver = k, !.time = t, !.sdk = d].ver = k
    BY <1>2 DEF Records
  <2>2. s2 = [s EXCEPT ![n] = r]
    BY DEF Secrets
  <2>3. /\ s[n].ver \in Nat /\ s[n].ver + 1 \in Nat /\ sdk \in Nat
    BY <1>2 DEF Records
  <2>4. /\ r \in Records /\ r.id = s[n].id /\ r.val = s[n].val /\ r.ver = s[n].ver + 1
    BY <2>1, <2>3
  <2> HIDE DEF r
  <2>5. r # NoRecord /\ r.ver > s[n].ver
    BY <2>3, <2>4 DEF NoRecord
  <2> HIDE DEF r, s2
  <2>6. QED
    BY <2>2, <2>4, <2>5 DEF Secrets, Follow, OneStep
<1>6. v2 \in Vaults /\ v2.wraps = wraps /\ v2.dek = v.dek
  <2> HIDE DEF wraps, rcpt
  <2>1. QED
    BY <1>3, <1>4 DEF Vaults
<1>7. ASSUME AllOpen([vault |-> v, secrets |-> s])
      PROVE  \A m \in Names : Openable([vault |-> v2, secrets |-> s2], m)
  <2> SUFFICES ASSUME NEW m \in Names, s2[m] # NoRecord
               PROVE  /\ s2[m].id \in DOMAIN wraps
                      /\ wraps[s2[m].id] = [sdk |-> s2[m].sdk, under |-> v.dek]
    BY <1>6 DEF Openable
  <2>1. CASE m = n
    <3>1. s2[n].id = id /\ s2[n].sdk = sdk
      BY <1>2 DEF Secrets, Records
    <3> HIDE DEF wraps, s2
    <3>2. QED
      BY <1>3, <2>1, <3>1
  <2>2. CASE m # n
    <3>1. s2[m] = s[m]
      BY <2>2 DEF Secrets
    <3>2. s[m].id[1] = m
      BY <3>1 DEF AllMinted, Minted
    <3>3. /\ s[m].id \in DOMAIN v.wraps
          /\ v.wraps[s[m].id] = [sdk |-> s[m].sdk, under |-> v.dek]
      BY <3>1, <1>7 DEF AllOpen, Openable
    <3>4. s[m].id # id
      BY <1>2, <2>2, <3>2
    <3> HIDE DEF wraps, id, s2
    <3>5. QED
      BY <1>3, <3>1, <3>3, <3>4
  <2>3. QED
    BY <2>1, <2>2
<1> HIDE DEF v2, s2
<1>8. QED
  BY <1>1, <1>5, <1>6, <1>7, CommittedTyped, CommittedOpens

(* `dl rotate`: every wrapping moves to the new project key. *)
LEMMA RotateOutcome ==
  ASSUME NEW v \in Vaults, NEW s \in Secrets, fresh \in Nat
  PROVE  /\ AfterRotate(v, s) \in Pairs
         /\ AfterRotate(v, s).secrets = s
         /\ AllOpen([vault |-> v, secrets |-> s]) => Usable(AfterRotate(v, s))
<1> DEFINE dek   == fresh + 1
           wraps == [i \in DOMAIN v.wraps |-> [sdk |-> v.wraps[i].sdk, under |-> dek]]
           rcpt  == [q \in People |-> IF v.rcpt[q].dek # None /\ MayGet(v, q)
                                      THEN [v.rcpt[q] EXCEPT !.dek = dek] ELSE v.rcpt[q]]
           v2    == [v EXCEPT !.kek = @ + 1, !.dek = dek, !.wraps = wraps, !.rcpt = rcpt]
<1>1. AfterRotate(v, s) = Committed(v2, s)
  BY DEF AfterRotate
<1>2. /\ v.wraps \in [DOMAIN v.wraps -> Wrapping] /\ DOMAIN v.wraps \subseteq RecordIds
      /\ v.rcpt \in [People -> Grants] /\ dek \in Nat /\ v.kek + 1 \in Nat
  BY PartialOut DEF Vaults, Wraps
<1>3. wraps \in Wraps
  <2>1. wraps \in [DOMAIN v.wraps -> Wrapping]
    BY <1>2 DEF Wrapping
  <2>2. QED
    BY <1>2, <2>1, PartialIn DEF Wraps
<1>4. rcpt \in [People -> Grants]
  <2>1. ASSUME NEW q \in People PROVE [v.rcpt[q] EXCEPT !.dek = dek] \in Grants
    BY <1>2 DEF Grants
  <2> HIDE DEF dek
  <2>2. QED
    BY <1>2, <2>1
<1>5. v2 \in Vaults /\ v2.wraps = wraps /\ v2.dek = dek
  <2> HIDE DEF wraps, rcpt, dek
  <2>1. ASSUME NEW k \in Nat
        PROVE  /\ [v EXCEPT !.kek = k, !.dek = dek, !.wraps = wraps, !.rcpt = rcpt] \in Vaults
               /\ [v EXCEPT !.kek = k, !.dek = dek, !.wraps = wraps, !.rcpt = rcpt].wraps = wraps
               /\ [v EXCEPT !.kek = k, !.dek = dek, !.wraps = wraps, !.rcpt = rcpt].dek = dek
    BY <1>2, <1>3, <1>4 DEF Vaults
  <2>2. QED
    BY <1>2, <2>1
<1>6. ASSUME AllOpen([vault |-> v, secrets |-> s])
      PROVE  \A m \in Names : Openable([vault |-> v2, secrets |-> s], m)
  <2> SUFFICES ASSUME NEW m \in Names, s[m] # NoRecord
               PROVE  /\ s[m].id \in DOMAIN wraps
                      /\ wraps[s[m].id] = [sdk |-> s[m].sdk, under |-> dek]
    BY <1>5 DEF Openable
  <2>1. /\ s[m].id \in DOMAIN v.wraps
        /\ v.wraps[s[m].id] = [sdk |-> s[m].sdk, under |-> v.dek]
    BY <1>6 DEF AllOpen, Openable
  <2>2. QED
    BY <2>1
<1> HIDE DEF v2
<1>7. QED
  BY <1>1, <1>5, <1>6, CommittedTyped, CommittedOpens

(* A grant changes neither the records nor their wrappings. *)
LEMMA GrantOutcome ==
  ASSUME NEW v \in Vaults, NEW s \in Secrets, NEW who, NEW side \in Sides
  PROVE  /\ AfterGrant(v, s, who, side) \in Pairs
         /\ AfterGrant(v, s, who, side).secrets = s
         /\ AllOpen([vault |-> v, secrets |-> s]) => Usable(AfterGrant(v, s, who, side))
<1> DEFINE signers == v.signers \cup {side}
           all  == [dek |-> v.dek, sdks |-> [i \in DOMAIN v.wraps |-> v.wraps[i].sdk],
                    full |-> TRUE, by |-> side]
           rcpt == [q \in People |->
                    CASE q = who -> all
                      [] q # who /\ q \in Known(v) /\ ~ValidGrant(v.rcpt[q], signers)
                         -> [v.rcpt[q] EXCEPT !.by = side]
                      [] OTHER -> v.rcpt[q]]
           v2 == [v EXCEPT !.signers = signers, !.rcpt = rcpt]
<1>1. AfterGrant(v, s, who, side) = Committed(v2, s)
  BY DEF AfterGrant
<1>2. /\ v.wraps \in [DOMAIN v.wraps -> Wrapping] /\ DOMAIN v.wraps \subseteq RecordIds
      /\ v.rcpt \in [People -> Grants] /\ v.dek \in Nat /\ signers \in SUBSET Sides
  BY PartialOut DEF Vaults, Wraps
<1>3. all \in Grants
  <2> DEFINE sdks == [i \in DOMAIN v.wraps |-> v.wraps[i].sdk]
  <2>1. sdks \in [DOMAIN v.wraps -> Nat]
    BY <1>2 DEF Wrapping
  <2>2. sdks \in Partial(RecordIds, Nat)
    BY <1>2, <2>1, PartialIn
  <2> HIDE DEF sdks
  <2>3. QED
    BY <1>2, <2>2 DEF Grants, sdks
<1>4. rcpt \in [People -> Grants]
  <2>1. ASSUME NEW q \in People
        PROVE  [v.rcpt[q] EXCEPT !.by = side] \in Grants /\ v.rcpt[q] \in Grants
    BY <1>2 DEF Grants
  <2> HIDE DEF all, signers
  <2>2. QED
    BY <1>3, <2>1
<1>5. v2 \in Vaults /\ v2.wraps = v.wraps /\ v2.dek = v.dek
  <2> HIDE DEF rcpt, signers
  <2>1. QED
    BY <1>2, <1>4 DEF Vaults
<1>6. AllOpen([vault |-> v, secrets |-> s])
        => \A m \in Names : Openable([vault |-> v2, secrets |-> s], m)
  BY <1>5 DEF AllOpen, Openable
<1> HIDE DEF v2
<1>7. QED
  BY <1>1, <1>5, <1>6, CommittedTyped, CommittedOpens

(* Every command of either developer. *)
LEMMA OutcomesFollow ==
  ASSUME NEW p \in Pairs, fresh \in Nat, AllMinted(p.secrets, fresh),
         NEW side \in Sides, NEW p2 \in Outcomes(p, side)
  PROVE  /\ p2 \in Pairs
         /\ Follow(p.secrets, p2.secrets, fresh)
         /\ Usable(p) => Usable(p2)
<1> DEFINE v == p.vault
           s == p.secrets
<1>1. v \in Vaults /\ s \in Secrets
  BY DEF Pairs
<1>2. Usable(p) => AllOpen([vault |-> v, secrets |-> s])
  BY DEF Usable, AllOpen, Openable
<1>3. \/ \E n \in Names, t \in Times : p2 = AfterSet(v, s, n, t)
      \/ \E n \in Names : s[n] # NoRecord /\ p2 = AfterUnset(v, s, n)
      \/ \E n \in Names, q \in People, t \in Times :
           s[n] # NoRecord /\ p2 = AfterRemoval(v, s, n, q, t)
      \/ p2 = AfterRotate(v, s)
      \/ \E q \in People : p2 = AfterGrant(v, s, q, side)
      \/ \E q \in People : p2 = AfterRevoke(v, s, q)
  BY DEF Outcomes, Known
<1> HIDE DEF v, s
<1>4. Follow(s, s, fresh)
  BY DEF Follow, OneStep
<1>5. ASSUME NEW q \in People
      PROVE  /\ AfterRevoke(v, s, q) \in Pairs
             /\ AfterRevoke(v, s, q).secrets = s
             /\ AllOpen([vault |-> v, secrets |-> s]) => Usable(AfterRevoke(v, s, q))
  <2> DEFINE w == [v EXCEPT !.rcpt[q] = Absent]
  <2>1. Absent \in Grants
    <3>1. [i \in {} |-> 0] \in [{} -> Nat]
      OBVIOUS
    <3>2. [i \in {} |-> 0] \in Partial(RecordIds, Nat)
      BY <3>1, PartialIn
    <3>3. QED
      BY <3>2 DEF Absent, Grants, None
  <2>2. w \in Vaults /\ w.wraps = v.wraps /\ w.dek = v.dek
    BY <1>1, <2>1 DEF Vaults
  <2>3. AllOpen([vault |-> v, secrets |-> s]) => AllOpen([vault |-> w, secrets |-> s])
    BY <2>2 DEF AllOpen, Openable
  <2>4. AfterRevoke(v, s, q) = AfterRotate(w, s)
    BY DEF AfterRevoke
  <2> HIDE DEF w
  <2>5. QED
    BY <1>1, <2>2, <2>3, <2>4, RotateOutcome
<1>6. AllMinted(s, fresh) /\ side \in Sides
  BY DEF s
<1>7. p2 \in Pairs /\ Follow(s, p2.secrets, fresh)
      /\ (AllOpen([vault |-> v, secrets |-> s]) => Usable(p2))
  <2>1. CASE \E n \in Names, t \in Times : p2 = AfterSet(v, s, n, t)
    BY <1>1, <1>6, <2>1, SetOutcome
  <2>2. CASE \E n \in Names : s[n] # NoRecord /\ p2 = AfterUnset(v, s, n)
    BY <1>1, <1>6, <2>2, UnsetOutcome
  <2>3. CASE \E n \in Names, q \in People, t \in Times :
               s[n] # NoRecord /\ p2 = AfterRemoval(v, s, n, q, t)
    BY <1>1, <1>6, <2>3, RemovalOutcome
  <2>4. CASE p2 = AfterRotate(v, s)
    BY <1>1, <1>4, <2>4, RotateOutcome
  <2>5. CASE \E q \in People : p2 = AfterGrant(v, s, q, side)
    BY <1>1, <1>4, <1>6, <2>5, GrantOutcome
  <2>6. CASE \E q \in People : p2 = AfterRevoke(v, s, q)
    BY <1>4, <1>5, <2>6
  <2>7. QED
    BY <1>3, <2>1, <2>2, <2>3, <2>4, <2>5, <2>6
<1>8. QED
  BY <1>2, <1>7 DEF s

-----------------------------------------------------------------------------
(* One merge.                                                                *)

(* s is what git takes, or what the driver writes without asking. *)
SecretsMerged(s, o, t, b) ==
  s \in Trivial(o, t, b) \/ (s = MergedSecrets(o, t, b) /\ ~NeedsHand(s))

(* Every record of s is one of the two, or gone. *)
Drawn(s, o, t) == \A n \in Names : s[n] \in {o[n], t[n], NoRecord}

(* A record that y has of its base is the same, or newer. *)
Descends(y, b) ==
  \A n \in Names : y[n] # NoRecord /\ b[n] # NoRecord /\ y[n].id = b[n].id
                     => (y[n] = b[n] \/ y[n].ver > b[n].ver)

(* Who has the same value of a secret has it in the same record. *)
SameOrigin(x, y) ==
  \A n \in Names : x[n] # NoRecord /\ y[n] # NoRecord /\ x[n].val = y[n].val
                     => x[n].id = y[n].id

(* The merge of secrets.lock makes no record of its own. *)
LEMMA MergeDraws ==
  ASSUME NEW o \in Secrets, NEW t \in Secrets, NEW b \in Secrets,
         NEW s, SecretsMerged(s, o, t, b)
  PROVE  s \in Secrets /\ Drawn(s, o, t)
<1>1. CASE s \in Trivial(o, t, b)
  BY <1>1 DEF Trivial, Drawn
<1>2. CASE s = MergedSecrets(o, t, b) /\ ~NeedsHand(s)
  <2>1. ASSUME NEW n \in Names PROVE s[n] \in {o[n], t[n], NoRecord}
    <3>1. s[n] = Choose(o[n], t[n], b[n]) /\ s[n] # Manual
      BY <1>2 DEF MergedSecrets, NeedsHand
    <3>2. o[n] \in Records /\ t[n] \in Records
      BY DEF Secrets
    <3>3. Latest(o[n], t[n]) \in {o[n], t[n], Manual}
      BY <3>2 DEF Latest, Records
    <3> HIDE DEF Manual
    <3>4. QED
      BY <3>1, <3>3 DEF Choose
  <2>2. \A n \in Names : s[n] \in Records
    BY <2>1, NoRecordIn DEF Secrets
  <2>3. s = [n \in Names |-> s[n]]
    BY <1>2 DEF MergedSecrets
  <2>4. QED
    BY <2>1, <2>2, <2>3 DEF Secrets, Drawn
<1>3. QED
  BY <1>1, <1>2 DEF SecretsMerged

(* What one side alone has edited is merged as it is. *)
LEMMA MergeKeepsEdits ==
  ASSUME NEW o \in Secrets, NEW t \in Secrets, NEW b \in Secrets,
         NEW s, SecretsMerged(s, o, t, b), Descends(t, b), NEW n \in Names
  PROVE  /\ o[n] = b[n] /\ SameRecord(t[n], b[n]) => s[n] = t[n]
         /\ t[n] = b[n] /\ Follows(o[n], b[n])    => s[n] = o[n]
<1>0. /\ o[n].ver \in Nat /\ t[n].ver \in Nat /\ b[n].ver \in Nat
      /\ o[n].time \in Nat /\ t[n].time \in Nat /\ b[n].time \in Nat
  BY RecordNumbers DEF Secrets
<1>1. CASE s \in Trivial(o, t, b)
  BY <1>1 DEF Trivial
<1>2. CASE s = MergedSecrets(o, t, b) /\ ~NeedsHand(s)
  <2>1. s[n] = Choose(o[n], t[n], b[n]) /\ s[n] # Manual
    BY <1>2 DEF MergedSecrets, NeedsHand
  <2> HIDE DEF Manual
  <2>2. ASSUME o[n] = b[n], SameRecord(t[n], b[n]) PROVE s[n] = t[n]
    <3>1. CASE o[n] # NoRecord /\ t[n] # NoRecord
      <4>1. t[n] = o[n] \/ t[n].ver > o[n].ver
        BY <2>2, <3>1 DEF SameRecord, Descends
      <4>2. s[n] = Latest(o[n], t[n])
        BY <2>1, <3>1 DEF Choose
      <4>3. QED
        BY <1>0, <4>1, <4>2 DEF Latest
    <3>2. CASE ~(o[n] # NoRecord /\ t[n] # NoRecord)
      BY <2>1, <2>2, <3>2 DEF Choose
    <3>3. QED
      BY <3>1, <3>2
  <2>3. ASSUME t[n] = b[n], Follows(o[n], b[n]) PROVE s[n] = o[n]
    <3>1. CASE o[n] # NoRecord /\ t[n] # NoRecord
      <4>1. ~Older(o[n], t[n])
        BY <2>3, <3>1 DEF Follows
      <4>2. s[n] = Latest(o[n], t[n])
        BY <2>1, <3>1 DEF Choose
      <4>3. QED
        BY <1>0, <2>1, <4>1, <4>2 DEF Latest, Older
    <3>2. CASE ~(o[n] # NoRecord /\ t[n] # NoRecord)
      BY <2>1, <2>3, <3>2 DEF Choose
    <3>3. QED
      BY <3>1, <3>2
  <2>4. QED
    BY <2>2, <2>3
<1>3. QED
  BY <1>1, <1>2 DEF SecretsMerged

(* choose_latest does not mind whose record comes first. *)
LEMMA MergeIsSymmetric ==
  ASSUME NEW o \in Secrets, NEW t \in Secrets, NEW b \in Secrets, SameOrigin(o, t)
  PROVE  MergedSecrets(o, t, b) = MergedSecrets(t, o, b)
<1>1. ASSUME NEW n \in Names PROVE Choose(o[n], t[n], b[n]) = Choose(t[n], o[n], b[n])
  <2>0. o[n] \in Records /\ t[n] \in Records
    BY DEF Secrets
  <2>1. CASE o[n] # NoRecord /\ t[n] # NoRecord
    <3>1. /\ o[n].ver \in Nat /\ t[n].ver \in Nat /\ o[n].time \in Nat /\ t[n].time \in Nat
      BY <2>0, RecordNumbers
    <3>2. ASSUME o[n].ver = t[n].ver, o[n].time = t[n].time,
                 o[n].sdk = t[n].sdk, o[n].val = t[n].val
          PROVE  o[n] = t[n]
      BY <2>0, <2>1, <3>2, RecordNumbers DEF SameOrigin
    <3>3. Latest(o[n], t[n]) = Latest(t[n], o[n])
      BY <3>1, <3>2 DEF Latest
    <3>4. QED
      BY <2>1, <3>3 DEF Choose
  <2>2. CASE ~(o[n] # NoRecord /\ t[n] # NoRecord)
    BY <2>2 DEF Choose
  <2>3. QED
    BY <2>1, <2>2
<1>2. QED
  BY <1>1 DEF MergedSecrets

(* The merged vault.toml: the keys and the hash of ours, the wrappings of both,
   and no recipient that is not of ours or has joined. *)
LEMMA MergedVaultIs ==
  ASSUME NEW o \in Vaults, NEW t \in Vaults, NEW b \in Vaults, NEW won,
         NEW m, m = MergedVault(o, t, b, won)
  PROVE  /\ m \in Vaults /\ m.dek = o.dek /\ m.hash = o.hash /\ m.epoch = MergedEpoch(o, t)
         /\ m.wraps = UnionOf(o.wraps, t.wraps, won)
         /\ \A q \in People : m.rcpt[q] # Absent /\ o.rcpt[q] = Absent
                             => Joins(o, t, b, q) /\ m.rcpt[q].by = t.rcpt[q].by
<1> DEFINE member(q) == IF Joins(o, t, b, q) THEN t.rcpt[q] ELSE o.rcpt[q]
           Both(q) == [member(q) EXCEPT !.sdks = UnionOf(@, t.rcpt[q].sdks, won)]
           rcpt == [q \in People |->
                     IF member(q) # Absent /\ q \in Known(t) THEN Both(q) ELSE member(q)]
           epoch   == MergedEpoch(o, t)
           signers == MergedSigners(o, t, b)
           wraps   == UnionOf(o.wraps, t.wraps, won)
           v == [o EXCEPT !.epoch = epoch, !.signers = signers, !.rcpt = rcpt, !.wraps = wraps]
<1>1. m = IF v = o THEN o ELSE [v EXCEPT !.sealed = FALSE]
  BY DEF MergedVault
<1>2. epoch \in Nat /\ signers \in SUBSET Sides
  BY DEF MergedEpoch, MergedSigners, Vaults
<1>3. wraps \in Wraps
  <2>1. o.wraps \in Partial(RecordIds, Wrapping) /\ t.wraps \in Partial(RecordIds, Wrapping)
    BY DEF Vaults, Wraps
  <2>2. QED
    BY <2>1, UnionPartial DEF Wraps
<1>4. ASSUME NEW q \in People
      PROVE  /\ member(q) \in Grants /\ Both(q) \in Grants /\ Both(q).by = member(q).by
             /\ rcpt[q] = IF member(q) # Absent /\ q \in Known(t) THEN Both(q) ELSE member(q)
  <2>1. o.rcpt[q] \in Grants /\ t.rcpt[q] \in Grants
    BY DEF Vaults
  <2>2. member(q) \in Grants
    BY <2>1
  <2> HIDE DEF member
  <2>3. /\ member(q).sdks \in Partial(RecordIds, Nat)
        /\ t.rcpt[q].sdks \in Partial(RecordIds, Nat)
    BY <2>1, <2>2 DEF Grants
  <2>4. UnionOf(member(q).sdks, t.rcpt[q].sdks, won) \in Partial(RecordIds, Nat)
    BY <2>3, UnionPartial
  <2>5. Both(q) \in Grants /\ Both(q).by = member(q).by
    BY <2>2, <2>4 DEF Grants
  <2> HIDE DEF Both
  <2>6. QED
    BY <2>2, <2>5
<1>5. rcpt \in [People -> Grants]
  <2> HIDE DEF member, Both
  <2>1. QED
    BY <1>4
<1>6. /\ v \in Vaults /\ v.dek = o.dek /\ v.hash = o.hash /\ v.wraps = wraps /\ v.rcpt = rcpt
      /\ v.epoch = epoch
  <2> HIDE DEF epoch, signers, rcpt, wraps
  <2>1. QED
    BY <1>2, <1>3, <1>5 DEF Vaults
<1>7. /\ m \in Vaults /\ m.dek = o.dek /\ m.hash = o.hash /\ m.wraps = wraps /\ m.rcpt = rcpt
      /\ m.epoch = epoch
  <2> HIDE DEF v, wraps, rcpt, epoch
  <2>1. ASSUME NEW c \in BOOLEAN, NEW x \in Vaults
        PROVE  /\ [x EXCEPT !.sealed = c] \in Vaults
               /\ [x EXCEPT !.sealed = c].dek = x.dek /\ [x EXCEPT !.sealed = c].hash = x.hash
               /\ [x EXCEPT !.sealed = c].wraps = x.wraps /\ [x EXCEPT !.sealed = c].rcpt = x.rcpt
               /\ [x EXCEPT !.sealed = c].epoch = x.epoch
    BY DEF Vaults
  <2>2. CASE v = o
    BY <1>1, <1>6, <2>2
  <2>3. CASE v # o
    <3>1. m = [v EXCEPT !.sealed = FALSE]
      BY <1>1, <2>3
    <3>2. /\ [v EXCEPT !.sealed = FALSE] \in Vaults
          /\ [v EXCEPT !.sealed = FALSE].dek = v.dek
          /\ [v EXCEPT !.sealed = FALSE].hash = v.hash
          /\ [v EXCEPT !.sealed = FALSE].wraps = v.wraps
          /\ [v EXCEPT !.sealed = FALSE].rcpt = v.rcpt
          /\ [v EXCEPT !.sealed = FALSE].epoch = v.epoch
      BY <1>6, <2>1
    <3>3. QED
      BY <1>6, <3>1, <3>2
  <2>4. QED
    BY <2>2, <2>3
<1>8. ASSUME NEW q \in People, m.rcpt[q] # Absent, o.rcpt[q] = Absent
      PROVE  Joins(o, t, b, q) /\ m.rcpt[q].by = t.rcpt[q].by
  <2>1. /\ rcpt[q] # Absent
        /\ rcpt[q] = IF member(q) # Absent /\ q \in Known(t) THEN Both(q) ELSE member(q)
        /\ Both(q).by = member(q).by
    BY <1>4, <1>7, <1>8
  <2> HIDE DEF rcpt, Both
  <2>2. Joins(o, t, b, q)
    BY <1>8, <2>1
  <2>3. QED
    BY <1>7, <2>1, <2>2
<1> HIDE DEF rcpt, wraps
<1>9. QED
  BY <1>7, <1>8 DEF wraps

(* v is what git takes, or what the driver writes. *)
VaultMerged(v, o, t, b) ==
  \/ v \in Trivial(o, t, b)
  \/ Trivial(o, t, b) = {} /\ \E won : v = MergedVault(o, t, b, won)

(* ... and the driver saw no reason for a review. *)
VaultClean(v, o, t, b) ==
  \/ v \in Trivial(o, t, b)
  \/ /\ Trivial(o, t, b) = {} /\ o.hash = t.hash
     /\ v = MergedVault(o, t, b, {})

(* A recipient of the merge who is not of ours was not in the base, and comes
   with the grant of a signer. *)
LEMMA MergeJoins ==
  ASSUME NEW o \in Vaults, NEW t \in Vaults, NEW b \in Vaults, NEW v,
         VaultMerged(v, o, t, b), Trivial(o, t, b) = {}, NEW q \in Known(v) \ Known(o)
  PROVE  q \notin Known(b) /\ (o.signers # {} => v.rcpt[q].by \in o.signers)
<1>1. PICK won : v = MergedVault(o, t, b, won)
  BY DEF VaultMerged
<1>2. q \in People /\ v.rcpt[q] # Absent /\ o.rcpt[q] = Absent
  BY DEF Known
<1>3. Joins(o, t, b, q) /\ v.rcpt[q].by = t.rcpt[q].by
  BY <1>1, <1>2, MergedVaultIs
<1>4. QED
  BY <1>3 DEF Joins, ValidGrant, MergedSigners

(* The one pair that comes out of a merge without a review opens: it is that of
   one of the two sides, or ours with the wrappings of theirs beside its own. *)
LEMMA CleanMergeOpens ==
  ASSUME NEW o \in Pairs, NEW t \in Pairs, NEW b \in Pairs,
         Usable(o), Usable(t), Usable(b), NEW s, NEW v,
         s \in Trivial(o.secrets, t.secrets, b.secrets),
         VaultClean(v, o.vault, t.vault, b.vault)
  PROVE  Usable([vault |-> v, secrets |-> s])
<1>1. /\ o.vault.hash = o.secrets /\ t.vault.hash = t.secrets /\ b.vault.hash = b.secrets
      /\ \A n \in Names : Openable(o, n) /\ Openable(t, n)
  BY DEF Usable
<1>2. CASE v \in Trivial(o.vault, t.vault, b.vault)
  <2>1. \/ v = t.vault /\ s = t.secrets
        \/ v = o.vault /\ s = o.secrets
    BY <1>1, <1>2 DEF Trivial
  <2>2. QED
    BY <1>1, <2>1 DEF Usable, Openable
<1>3. CASE /\ o.vault.hash = t.vault.hash
           /\ v = MergedVault(o.vault, t.vault, b.vault, {})
  <2>1. s = o.secrets
    BY <1>1, <1>3 DEF Trivial
  <2>2. /\ v.dek = o.vault.dek /\ v.hash = o.vault.hash
        /\ v.wraps = UnionOf(o.vault.wraps, t.vault.wraps, {})
    BY <1>3, MergedVaultIs DEF Pairs
  <2>3. \A i \in DOMAIN o.vault.wraps : i \in DOMAIN v.wraps /\ v.wraps[i] = o.vault.wraps[i]
    BY <2>2 DEF UnionOf
  <2>4. QED
    BY <1>1, <2>1, <2>2, <2>3 DEF Usable, Openable
<1>4. QED
  BY <1>2, <1>3 DEF VaultClean

-----------------------------------------------------------------------------
(* The invariant.                                                            *)

Works   == [at : {"idle", "set", "blessed"}, name : Names \cup {"none"},
            meta : SUBSET Vaults, git : BOOLEAN]
Results == [secrets : SUBSET Secrets, vault : SUBSET Vaults, conflict : BOOLEAN]
IsMarker(m) == /\ m = [on |-> m.on, secrets |-> m.secrets, vault |-> m.vault,
                       ids |-> m.ids, won |-> m.won]
               /\ m.on \in BOOLEAN /\ (m.on \/ m = NoMarker)

Shape ==
  /\ tree \in Pairs /\ head \in Pairs /\ theirs \in Pairs /\ base \in Pairs
  /\ fresh \in Nat /\ ops \in 0 .. MaxOps /\ merges \in 0 .. MaxMerges
  /\ raced \in BOOLEAN
  /\ git \in {"none", "secrets", "vault", "finish", "conflict"}
  /\ IsMarker(marker) /\ result \in Results /\ work \in Works
  /\ work.at = "set" => work.name \in Names

(* What a number was minted for stays so, wherever the record has gone. *)
Live == {tree.secrets, head.secrets, theirs.secrets, base.secrets}
RecordsInv == /\ \A x \in Live : AllMinted(x, fresh)
              /\ \A x, y \in Live : SameOrigin(x, y)

(* What the driver has left for git to check out. *)
MergeInv ==
  /\ git # "none" => joined = NoMerge
  /\ git \in {"vault", "finish"} => \A s \in result.secrets :
       \/ SecretsMerged(s, head.secrets, theirs.secrets, base.secrets)
       \/ result.conflict /\ s = head.secrets
  /\ git = "finish" => \A v \in result.vault :
       \/ VaultMerged(v, head.vault, theirs.vault, base.vault)
       \/ result.conflict /\ v = head.vault

(* What opens: the other branch and the base always; the tree when the gate is
   open; the branch during a merge, for the abort; the tree under a command that
   no checkout has overtaken; and what the driver leaves without a marker. *)
Quiet == ~marker.on /\ ~raced
GateInv ==
  /\ Usable(theirs) /\ Usable(base)
  /\ git # "conflict" /\ Quiet => Usable(tree)
  /\ git # "none" /\ Quiet => Usable(head)
  /\ work.at = "blessed" /\ ~work.git => Usable(tree)
  /\ work.at = "set" /\ ~work.git /\ ~raced /\ git # "conflict"
       => work.meta = {tree.vault} /\ Usable(tree)
  /\ git \in {"vault", "finish"} /\ Quiet /\ ~result.conflict =>
       \A s \in result.secrets : s \in Trivial(head.secrets, theirs.secrets, base.secrets)
  /\ git = "finish" /\ Quiet /\ ~result.conflict =>
       \A v \in result.vault : VaultClean(v, head.vault, theirs.vault, base.vault)

Descent == Descends(theirs.secrets, base.secrets)

IInv == /\ Shape /\ RecordsInv /\ MergeInv /\ GateInv /\ Descent
        /\ NoEditLost /\ RevokedStaysOut

-----------------------------------------------------------------------------
(* What each action does to these.                                           *)

(* A command of the developer, and one of the other. *)
LEMMA CommandEffect ==
  ASSUME Shape, RecordsInv
  PROVE  /\ OurCommand => /\ tree' \in Pairs /\ Follow(tree.secrets, tree'.secrets, fresh)
                          /\ Usable(tree) => Usable(tree')
         /\ TheirCommand => /\ theirs' \in Pairs
                            /\ Follow(theirs.secrets, theirs'.secrets, fresh)
                            /\ Usable(theirs) => Usable(theirs')
<1>1. /\ tree \in Pairs /\ theirs \in Pairs /\ fresh \in Nat
      /\ AllMinted(tree.secrets, fresh) /\ AllMinted(theirs.secrets, fresh)
      /\ Ours \in Sides /\ Theirs \in Sides
  BY DEF Shape, RecordsInv, Live, Sides
<1>2. OurCommand => tree' \in Outcomes(tree, Ours)
  BY DEF OurCommand
<1>3. TheirCommand => theirs' \in Outcomes(theirs, Theirs)
  BY DEF TheirCommand
<1>4. QED
  BY <1>1, <1>2, <1>3, OutcomesFollow

(* The commit of a `dl set`: given up, or a record that is wrapped by the
   metadata of the working tree, unless a checkout came between. *)
LEMMA CommitEffect ==
  ASSUME Shape, RecordsInv, NEW t \in Times, CommitSet(t)
  PROVE  /\ work.at = "set" /\ work' = Idle /\ UNCHANGED <<repo, marker, git, result>>
         /\ \/ UNCHANGED <<tree, bounds, joined, raced>>
            \/ /\ Mint /\ joined' = NoMerge /\ raced' = (raced \/ work.git)
               /\ tree' \in Pairs /\ Follow(tree.secrets, tree'.secrets, fresh)
               /\ work.meta = {tree.vault} /\ Usable(tree) => Usable(tree')
<1>1. work.at = "set" /\ work' = Idle /\ UNCHANGED <<repo, marker, git, result>>
  BY DEF CommitSet
<1>2. PICK mine \in work.meta :
         \/ UNCHANGED <<tree, bounds, joined, raced>>
         \/ \E v \in {tree.vault, mine} :
              /\ tree' = AfterSet(v, tree.secrets, work.name, t)
              /\ Mint /\ joined' = NoMerge /\ raced' = (raced \/ work.git)
  BY DEF CommitSet
<1>3. CASE UNCHANGED <<tree, bounds, joined, raced>>
  BY <1>1, <1>3
<1>4. ASSUME NEW v \in {tree.vault, mine},
             tree' = AfterSet(v, tree.secrets, work.name, t),
             Mint, joined' = NoMerge, raced' = (raced \/ work.git)
      PROVE  /\ tree' \in Pairs /\ Follow(tree.secrets, tree'.secrets, fresh)
             /\ work.meta = {tree.vault} /\ Usable(tree) => Usable(tree')
  <2>1. /\ tree.vault \in Vaults /\ mine \in Vaults /\ tree.secrets \in Secrets
        /\ fresh \in Nat /\ AllMinted(tree.secrets, fresh) /\ work.name \in Names
    BY <1>1, <1>2 DEF Shape, Pairs, Works, RecordsInv, Live
  <2>2. v \in Vaults
    BY <2>1
  <2>3. Usable(tree) => AllOpen([vault |-> tree.vault, secrets |-> tree.secrets])
    BY DEF Usable, AllOpen, Openable
  <2>4. QED
    BY <1>4, <2>1, <2>2, <2>3, SetOutcome
<1>5. QED
  BY <1>1, <1>2, <1>3, <1>4

(* A reconcile seals the pair it found: the records stay, the hash is theirs. *)
LEMMA ReconcileEffect ==
  ASSUME Shape, Reconcile
  PROVE  /\ tree' \in Pairs /\ tree'.secrets = tree.secrets
         /\ tree'.vault.rcpt = tree.vault.rcpt /\ Usable(tree')
<1>1. tree.vault \in Vaults /\ tree.secrets \in Secrets
      /\ tree' = Committed(tree.vault, tree.secrets)
  BY DEF Shape, Pairs, Reconcile
<1>2. \A n \in Names : Openable([vault |-> tree.vault, secrets |-> tree.secrets], n)
  BY DEF Reconcile, Openable
<1>3. QED
  BY <1>1, <1>2, CommittedTyped, CommittedOpens

(* The first run of the driver. *)
LEMMA DriveSecretsEffect ==
  ASSUME Shape, DriveSecrets
  PROVE  /\ result' \in Results /\ IsMarker(marker')
         /\ \A s \in result'.secrets :
              \/ SecretsMerged(s, head.secrets, theirs.secrets, base.secrets)
              \/ result'.conflict /\ s = head.secrets
         /\ \/ marker'.on
            \/ /\ marker' = marker
               /\ result'.conflict \/ \A s \in result'.secrets :
                    s \in Trivial(head.secrets, theirs.secrets, base.secrets)
<1> DEFINE o == head.secrets  t == theirs.secrets  b == base.secrets
           m == MergedSecrets(o, t, b)
           easy == Trivial(o, t, b)
<1>1. /\ o \in Secrets /\ t \in Secrets /\ b \in Secrets
      /\ result \in Results /\ IsMarker(marker)
  BY DEF Shape, Pairs
<1>2. \/ easy # {} /\ result' = [result EXCEPT !.secrets = easy] /\ UNCHANGED marker
      \/ /\ NeedsHand(m) /\ UNCHANGED marker
         /\ result' = [result EXCEPT !.secrets = {o}, !.conflict = TRUE]
      \/ /\ ~NeedsHand(m)
         /\ result' = [result EXCEPT !.secrets = {m}]
         /\ marker' = [on |-> TRUE, secrets |-> {m}, vault |-> {},
                       ids |-> Ids(m), won |-> TheirsWon(o, m)]
  BY DEF DriveSecrets
<1>3. \A s \in easy : s \in Secrets
  BY <1>1 DEF Trivial
<1>4. ~NeedsHand(m) => m \in Secrets /\ SecretsMerged(m, o, t, b)
  <2>1. ~NeedsHand(m) => SecretsMerged(m, o, t, b)
    BY DEF SecretsMerged
  <2> HIDE DEF m, o, t, b
  <2>2. QED
    BY <1>1, <2>1, MergeDraws
<1>5. \A s \in easy : SecretsMerged(s, o, t, b)
  BY DEF SecretsMerged
<1> HIDE DEF m, easy, o, t, b
<1>6. ASSUME NEW c \in BOOLEAN, NEW ss \in SUBSET Secrets
      PROVE  /\ [result EXCEPT !.secrets = ss] \in Results
             /\ [result EXCEPT !.secrets = ss].secrets = ss
             /\ [result EXCEPT !.secrets = ss, !.conflict = c] \in Results
             /\ [result EXCEPT !.secrets = ss, !.conflict = c].secrets = ss
             /\ [result EXCEPT !.secrets = ss, !.conflict = c].conflict = c
  BY <1>1 DEF Results
<1>7. CASE easy # {} /\ result' = [result EXCEPT !.secrets = easy] /\ UNCHANGED marker
  BY <1>1, <1>3, <1>5, <1>6, <1>7 DEF easy, o, t, b
<1>8. CASE /\ NeedsHand(m) /\ UNCHANGED marker
           /\ result' = [result EXCEPT !.secrets = {o}, !.conflict = TRUE]
  <2>1. {o} \in SUBSET Secrets
    BY <1>1
  <2>2. result' \in Results /\ result'.secrets = {o} /\ result'.conflict
    BY <1>6, <1>8, <2>1
  <2>3. QED
    BY <1>1, <1>8, <2>2 DEF o
<1>9. CASE /\ ~NeedsHand(m)
           /\ result' = [result EXCEPT !.secrets = {m}]
           /\ marker' = [on |-> TRUE, secrets |-> {m}, vault |-> {},
                         ids |-> Ids(m), won |-> TheirsWon(o, m)]
  <2>1. {m} \in SUBSET Secrets /\ SecretsMerged(m, o, t, b)
    BY <1>4, <1>9
  <2>2. result' \in Results /\ result'.secrets = {m}
    BY <1>6, <1>9, <2>1
  <2>3. IsMarker(marker') /\ marker'.on
    BY <1>9 DEF IsMarker
  <2>4. QED
    BY <2>1, <2>2, <2>3 DEF o, t, b
<1>10. QED
  BY <1>2, <1>7, <1>8, <1>9

(* The second run.  Without a marker, nothing was won by theirs. *)
LEMMA DriveVaultEffect ==
  ASSUME Shape, DriveVault
  PROVE  /\ result' \in Results /\ IsMarker(marker')
         /\ result'.secrets = result.secrets /\ (result.conflict => result'.conflict)
         /\ \A v \in result'.vault :
              \/ VaultMerged(v, head.vault, theirs.vault, base.vault)
              \/ result'.conflict /\ v = head.vault
         /\ \/ marker'.on
            \/ /\ marker' = marker
               /\ result'.conflict \/ \A v \in result'.vault :
                    VaultClean(v, head.vault, theirs.vault, base.vault)
<1> DEFINE o == head.vault  t == theirs.vault  b == base.vault
           m == MergedVault(o, t, b, marker.won)
           easy == Trivial(o, t, b)
<1>1. /\ o \in Vaults /\ t \in Vaults /\ b \in Vaults
      /\ result \in Results /\ IsMarker(marker)
  BY DEF Shape, Pairs
<1>2. \/ easy # {} /\ result' = [result EXCEPT !.vault = easy] /\ UNCHANGED marker
      \/ /\ result' = [result EXCEPT !.vault = {o}, !.conflict = TRUE]
         /\ UNCHANGED marker
      \/ /\ easy = {} /\ result' = [result EXCEPT !.vault = {m}]
         /\ marker' = IF NeedsReview(o, t, b)
                      THEN [marker EXCEPT !.on = TRUE, !.vault = {m}] ELSE marker
  BY DEF DriveVault
<1>3. \A v \in easy : v \in Vaults /\ VaultMerged(v, o, t, b) /\ VaultClean(v, o, t, b)
  BY <1>1 DEF Trivial, VaultMerged, VaultClean
<1>4. easy = {} => m \in Vaults /\ VaultMerged(m, o, t, b)
  <2>1. easy = {} => VaultMerged(m, o, t, b)
    BY DEF VaultMerged
  <2> HIDE DEF m, o, t, b
  <2>2. m \in Vaults
    BY <1>1, MergedVaultIs DEF m
  <2>3. QED
    BY <2>1, <2>2
<1>5. easy = {} /\ ~NeedsReview(o, t, b) => ~marker.on /\ VaultClean(m, o, t, b)
  <2>1. ASSUME ~NeedsReview(o, t, b) PROVE ~marker.on /\ o.hash = t.hash
    BY <2>1 DEF NeedsReview
  <2>2. ~marker.on => marker.won = {}
    BY <1>1 DEF IsMarker, NoMarker
  <2>3. QED
    BY <2>1, <2>2 DEF VaultClean
<1> HIDE DEF m, easy, o, t, b
<1>6. ASSUME NEW c \in BOOLEAN, NEW vv \in SUBSET Vaults
      PROVE  /\ [result EXCEPT !.vault = vv] \in Results
             /\ [result EXCEPT !.vault = vv].vault = vv
             /\ [result EXCEPT !.vault = vv].secrets = result.secrets
             /\ [result EXCEPT !.vault = vv].conflict = result.conflict
             /\ [result EXCEPT !.vault = vv, !.conflict = c] \in Results
             /\ [result EXCEPT !.vault = vv, !.conflict = c].vault = vv
             /\ [result EXCEPT !.vault = vv, !.conflict = c].secrets = result.secrets
             /\ [result EXCEPT !.vault = vv, !.conflict = c].conflict = c
  BY <1>1 DEF Results
<1>7. CASE easy # {} /\ result' = [result EXCEPT !.vault = easy] /\ UNCHANGED marker
  BY <1>1, <1>3, <1>6, <1>7 DEF o, t, b
<1>8. CASE /\ result' = [result EXCEPT !.vault = {o}, !.conflict = TRUE]
           /\ UNCHANGED marker
  <2>1. {o} \in SUBSET Vaults
    BY <1>1
  <2>2. /\ result' \in Results /\ result'.vault = {o} /\ result'.conflict
        /\ result'.secrets = result.secrets
    BY <1>6, <1>8, <2>1
  <2>3. QED
    BY <1>1, <1>8, <2>2 DEF o
<1>9. CASE /\ easy = {} /\ result' = [result EXCEPT !.vault = {m}]
           /\ marker' = IF NeedsReview(o, t, b)
                        THEN [marker EXCEPT !.on = TRUE, !.vault = {m}] ELSE marker
  <2>1. /\ result' \in Results /\ result'.vault = {m}
        /\ result'.secrets = result.secrets /\ result'.conflict = result.conflict
    BY <1>4, <1>6, <1>9
  <2>2. CASE NeedsReview(o, t, b)
    <3>1. IsMarker(marker') /\ marker'.on
      BY <1>1, <1>9, <2>2 DEF IsMarker
    <3>2. QED
      BY <1>4, <1>9, <2>1, <3>1 DEF o, t, b
  <2>3. CASE ~NeedsReview(o, t, b)
    BY <1>1, <1>4, <1>5, <1>9, <2>1, <2>3 DEF o, t, b
  <2>4. QED
    BY <2>2, <2>3
<1>10. QED
  BY <1>2, <1>7, <1>8, <1>9

(* A command that is under way when git changes the files knows it for the
   history only: whatever it holds may be of other files now. *)
LEMMA CheckoutEffect ==
  ASSUME Shape, NEW pair, Checkout(pair)
  PROVE  /\ tree' = pair /\ work' \in Works
         /\ work'.at = work.at /\ work'.name = work.name
         /\ work.at # "idle" => work'.git
<1>1. tree' = pair /\ work' = [work EXCEPT !.git = (work # Idle)] /\ work \in Works
  BY DEF Checkout, Shape
<1>2. (work # Idle) \in BOOLEAN
  OBVIOUS
<1>3. \A g \in BOOLEAN : /\ [work EXCEPT !.git = g] \in Works
                         /\ [work EXCEPT !.git = g].at = work.at
                         /\ [work EXCEPT !.git = g].name = work.name
                         /\ [work EXCEPT !.git = g].git = g
  BY <1>1 DEF Works
<1>4. work.at # "idle" => work # Idle
  BY DEF Idle
<1> DEFINE g == (work # Idle)
<1> HIDE DEF g
<1>5. g \in BOOLEAN /\ work' = [work EXCEPT !.git = g] /\ (work.at # "idle" => g)
  BY <1>1, <1>2, <1>4 DEF g
<1>6. QED
  BY <1>1, <1>3, <1>5

(* The end of a merge: given up, left in conflict, or committed. *)
LEMMA FinishEffect ==
  ASSUME Shape, MergeInv, FinishMerge
  PROVE  /\ git = "finish" /\ result' = NoResult
         /\ UNCHANGED <<theirs, marker, bounds, raced>>
         /\ \/ git' = "none" /\ UNCHANGED <<tree, head, base, work, joined>>
            \/ \E v \in result.vault, s \in result.secrets :
                 /\ Checkout([vault |-> v, secrets |-> s])
                 /\ tree' = [vault |-> v, secrets |-> s] /\ tree' \in Pairs
                 /\ \/ /\ result.conflict /\ git' = "conflict"
                       /\ UNCHANGED <<head, base, joined>>
                    \/ /\ ~result.conflict /\ git' = "none"
                       /\ head' = tree' /\ base' = theirs
                       /\ joined' = {[o |-> head, t |-> theirs, b |-> base]}
<1>1. /\ git = "finish" /\ result' = NoResult
      /\ UNCHANGED <<theirs, marker, bounds, raced>>
  BY DEF FinishMerge
<1>2. CASE tree # head
  BY <1>1, <1>2 DEF FinishMerge
<1>3. CASE tree = head
  <2>1. PICK v \in result.vault, s \in result.secrets :
          /\ Checkout([vault |-> v, secrets |-> s])
          /\ IF result.conflict
             THEN git' = "conflict" /\ UNCHANGED <<head, base, joined>>
             ELSE /\ git' = "none" /\ head' = tree' /\ base' = theirs
                  /\ joined' = {[o |-> head, t |-> theirs, b |-> base]}
    BY <1>3 DEF FinishMerge
  <2>2. tree' = [vault |-> v, secrets |-> s]
    BY <2>1 DEF Checkout
  <2>3. v \in Vaults /\ s \in Secrets
    BY <2>1 DEF Shape, Results
  <2>4. tree' \in Pairs
    BY <2>2, <2>3 DEF Pairs
  <2>5. CASE result.conflict
    BY <1>1, <2>1, <2>2, <2>4, <2>5
  <2>6. CASE ~result.conflict
    BY <1>1, <2>1, <2>2, <2>4, <2>6
  <2>7. QED
    BY <2>5, <2>6
<1>4. QED
  BY <1>2, <1>3

(* The constants that stand for nothing going on are of their types. *)
LEMMA IdleIn == /\ Idle \in Works /\ Idle.at = "idle" /\ NoResult \in Results
                /\ IsMarker(NoMarker) /\ ~NoMarker.on
<1>1. Idle \in Works
  <2>1. {} \in SUBSET Vaults
    OBVIOUS
  <2>2. \A g \in BOOLEAN : [at |-> "idle", name |-> "none", meta |-> {}, git |-> g] \in Works
    BY <2>1 DEF Works
  <2>3. QED
    BY <2>2 DEF Idle
<1>2. NoResult \in Results
  <2>1. \A g \in BOOLEAN : [secrets |-> {}, vault |-> {}, conflict |-> g] \in Results
    BY DEF Results
  <2>2. QED
    BY <2>1 DEF NoResult
<1>3. QED
  BY <1>1, <1>2 DEF Idle, IsMarker, NoMarker

(* The shape of the state. *)
LEMMA ShapeStep ==
  ASSUME IInv, Next
  PROVE  Shape'
<1>0. Shape /\ RecordsInv /\ MergeInv
  BY DEF IInv
<1> DEFINE PairsIn   == tree \in Pairs /\ head \in Pairs /\ theirs \in Pairs /\ base \in Pairs
           CountsIn  == fresh \in Nat /\ ops \in 0 .. MaxOps /\ merges \in 0 .. MaxMerges
           GitIn     == git \in {"none", "secrets", "vault", "finish", "conflict"}
           DriverIn  == IsMarker(marker) /\ result \in Results
           WorkIn    == work \in Works /\ (work.at = "set" => work.name \in Names)
           RacedIn   == raced \in BOOLEAN
<1>1. /\ Shape <=> PairsIn /\ CountsIn /\ GitIn /\ DriverIn /\ WorkIn /\ RacedIn
      /\ Shape' <=> PairsIn' /\ CountsIn' /\ GitIn' /\ DriverIn' /\ WorkIn' /\ RacedIn'
  BY DEF Shape
<1>2. PairsIn /\ CountsIn /\ GitIn /\ DriverIn /\ WorkIn /\ RacedIn
  BY <1>0, <1>1
<1>3. Mint => CountsIn'
  BY <1>2, Constants DEF Mint
<1>4. work' = Idle => WorkIn'
  BY IdleIn
<1>5. \A pair : Checkout(pair) => tree' = pair /\ WorkIn'
  BY <1>0, <1>2, CheckoutEffect
<1>6. \A n \in Names : tree.vault \in Vaults => \A g \in BOOLEAN :
        [at |-> "set", name |-> n, meta |-> {tree.vault}, git |-> g] \in Works
  BY DEF Works
<1> HIDE DEF CountsIn, GitIn, DriverIn, WorkIn, RacedIn
<1>7. CASE OurCommand
  BY <1>0, <1>1, <1>2, <1>3, <1>7, CommandEffect
     DEF OurCommand, repo, GitIn, DriverIn, WorkIn, RacedIn
<1>8. CASE TheirCommand
  BY <1>0, <1>1, <1>2, <1>3, <1>8, CommandEffect
     DEF TheirCommand, GitIn, DriverIn, WorkIn, RacedIn
<1>9. ASSUME NEW n \in Names, BeginSet(n) PROVE Shape'
  <2>1. work' \in Works /\ work'.name = n
    <3>1. tree.vault \in Vaults
      BY <1>2 DEF Pairs
    <3>2. work' = [at |-> "set", name |-> n, meta |-> {tree.vault}, git |-> FALSE]
      BY <1>9 DEF BeginSet
    <3>3. QED
      BY <1>6, <3>1, <3>2
  <2>2. QED
    BY <1>1, <1>2, <1>9, <2>1 DEF BeginSet, repo, bounds, CountsIn, GitIn, DriverIn, WorkIn, RacedIn
<1>10. ASSUME NEW t \in Times, CommitSet(t) PROVE Shape'
  <2>1. WorkIn' /\ GitIn' /\ DriverIn' /\ UNCHANGED <<head, theirs, base>>
    BY <1>0, <1>2, <1>4, <1>10, CommitEffect DEF repo, GitIn, DriverIn
  <2>2. (work.git \in BOOLEAN) /\ (raced \/ work.git) \in BOOLEAN
    BY <1>2 DEF RacedIn, WorkIn, Works
  <2>3. PairsIn' /\ CountsIn' /\ RacedIn'
    <3>1. CASE UNCHANGED <<tree, bounds, joined, raced>>
      BY <1>2, <2>1, <3>1 DEF bounds, CountsIn, RacedIn
    <3>2. CASE ~ UNCHANGED <<tree, bounds, joined, raced>>
      BY <1>0, <1>2, <1>3, <1>10, <2>1, <2>2, <3>2, CommitEffect DEF RacedIn
    <3>3. QED
      BY <3>1, <3>2
  <2>4. QED
    BY <1>1, <2>1, <2>3
<1>11. CASE StartMerge
  <2>1. merges \in Nat /\ merges' = merges + 1 /\ merges < MaxMerges /\ UNCHANGED <<fresh, ops>>
    BY <1>2, <1>11 DEF StartMerge, CountsIn
  <2>2. CountsIn'
    BY <1>2, <2>1, Constants DEF CountsIn
  <2>3. PairsIn' /\ WorkIn' /\ GitIn'
    <3>1. CASE tree = base
      BY <1>2, <1>5, <1>11, <3>1 DEF StartMerge, GitIn
    <3>2. CASE tree # base
      BY <1>2, <1>11, <3>2 DEF StartMerge, GitIn, WorkIn
    <3>3. QED
      BY <3>1, <3>2
  <2>4. DriverIn' /\ RacedIn'
    BY <1>2, <1>11 DEF StartMerge, DriverIn, RacedIn
  <2>5. QED
    BY <1>1, <2>2, <2>3, <2>4
<1>12. CASE DriveSecrets
  BY <1>0, <1>1, <1>2, <1>12, DriveSecretsEffect
     DEF DriveSecrets, repo, bounds, CountsIn, GitIn, DriverIn, WorkIn, RacedIn
<1>13. CASE DriveVault
  BY <1>0, <1>1, <1>2, <1>13, DriveVaultEffect
     DEF DriveVault, repo, bounds, CountsIn, GitIn, DriverIn, WorkIn, RacedIn
<1>14. CASE FinishMerge
  <2>1. CountsIn' /\ GitIn' /\ DriverIn' /\ RacedIn'
    BY <1>0, <1>2, <1>14, FinishEffect, IdleIn
       DEF bounds, CountsIn, GitIn, DriverIn, RacedIn
  <2>2. PairsIn' /\ WorkIn'
    <3>1. CASE UNCHANGED <<tree, head, base, work, joined>>
      BY <1>0, <1>2, <1>14, <3>1, FinishEffect DEF WorkIn
    <3>2. CASE ~ UNCHANGED <<tree, head, base, work, joined>>
      BY <1>0, <1>2, <1>5, <1>14, <3>2, FinishEffect
    <3>3. QED
      BY <3>1, <3>2
  <2>3. QED
    BY <1>1, <2>1, <2>2
<1>15. CASE KillMerge
  BY <1>1, <1>2, <1>15, IdleIn
     DEF KillMerge, repo, bounds, CountsIn, GitIn, DriverIn, WorkIn, RacedIn
<1>16. CASE Abort
  BY <1>1, <1>2, <1>5, <1>16 DEF Abort, repo, bounds, CountsIn, GitIn, DriverIn, RacedIn
<1>17. CASE TakeSide(head) \/ TakeSide(theirs)
  BY <1>1, <1>2, <1>5, <1>17 DEF TakeSide, bounds, CountsIn, GitIn, DriverIn, RacedIn
<1>18. CASE Reconcile
  <2>1. WorkIn'
    <3>1. work' = [Idle EXCEPT !.at = "blessed"]
      BY <1>18 DEF Reconcile
    <3>2. Idle \in Works
      BY IdleIn
    <3>3. QED
      BY <3>1, <3>2 DEF Works, WorkIn
  <2>2. QED
    BY <1>0, <1>1, <1>2, <1>3, <1>18, <2>1, ReconcileEffect
       DEF Reconcile, repo, GitIn, DriverIn, RacedIn
<1>19. CASE RemoveMarker
  <2>1. (raced \/ work.git \/ git # "none") \in BOOLEAN
    OBVIOUS
  <2>2. RacedIn'
    BY <1>19, <2>1 DEF RemoveMarker, RacedIn
  <2>3. QED
    BY <1>1, <1>2, <1>4, <1>19, <2>2, IdleIn
       DEF RemoveMarker, repo, bounds, CountsIn, GitIn, DriverIn
<1>20. CASE Die
  BY <1>1, <1>2, <1>4, <1>20 DEF Die, repo, bounds, CountsIn, GitIn, DriverIn, RacedIn
<1>21. QED
  BY <1>7, <1>8, <1>9, <1>10, <1>11, <1>12, <1>13, <1>14, <1>15, <1>16, <1>17, <1>18,
     <1>19, <1>20 DEF Next

-----------------------------------------------------------------------------
(* The records.                                                              *)

(* A step mints one number for one set of records, or moves records about. *)
LEMMA Moves ==
  ASSUME IInv, Next
  PROVE  \/ /\ fresh' = fresh
            /\ \A z \in Live' : \E x, y \in Live : Drawn(z, x, y)
         \/ /\ fresh' = fresh + 1
            /\ \E x \in Live : \E z : Follow(x, z, fresh) /\ \A y \in Live' : y = z \/ y \in Live
<1>0. Shape /\ RecordsInv /\ MergeInv
  BY DEF IInv
<1>1. \A x, y : Drawn(x, x, y)
  BY DEF Drawn
<1>2. ASSUME fresh' = fresh, \A z \in Live' : z \in Live
      PROVE  /\ fresh' = fresh
             /\ \A z \in Live' : \E x, y \in Live : Drawn(z, x, y)
  BY <1>1, <1>2
<1>3. Mint => fresh' = fresh + 1
  BY DEF Mint
<1>4. \A pair : Checkout(pair) => tree' = pair
  BY DEF Checkout
<1>5. CASE OurCommand
  <2>1. Follow(tree.secrets, tree'.secrets, fresh) /\ fresh' = fresh + 1
        /\ UNCHANGED <<head, theirs, base>>
    BY <1>0, <1>3, <1>5, CommandEffect DEF OurCommand, repo
  <2>2. QED
    BY <2>1 DEF Live
<1>6. CASE TheirCommand
  <2>1. Follow(theirs.secrets, theirs'.secrets, fresh) /\ fresh' = fresh + 1
        /\ UNCHANGED <<tree, head, base>>
    BY <1>0, <1>3, <1>6, CommandEffect DEF TheirCommand
  <2>2. QED
    BY <2>1 DEF Live
<1>7. CASE \E n \in Names : BeginSet(n)
  BY <1>2, <1>7 DEF BeginSet, repo, bounds, Live
<1>8. ASSUME NEW t \in Times, CommitSet(t)
      PROVE  \/ /\ fresh' = fresh
                /\ \A z \in Live' : \E x, y \in Live : Drawn(z, x, y)
             \/ /\ fresh' = fresh + 1
                /\ \E x \in Live : \E z : Follow(x, z, fresh) /\ \A y \in Live' : y = z \/ y \in Live
  <2>1. UNCHANGED <<head, theirs, base>>
    BY <1>0, <1>8, CommitEffect DEF repo
  <2>2. CASE UNCHANGED <<tree, bounds, joined, raced>>
    BY <1>2, <2>1, <2>2 DEF bounds, Live
  <2>3. CASE ~ UNCHANGED <<tree, bounds, joined, raced>>
    <3>1. Follow(tree.secrets, tree'.secrets, fresh) /\ fresh' = fresh + 1
      BY <1>0, <1>3, <1>8, <2>3, CommitEffect
    <3>2. QED
      BY <2>1, <3>1 DEF Live
  <2>4. QED
    BY <2>2, <2>3
<1>9. CASE StartMerge
  BY <1>2, <1>4, <1>9 DEF StartMerge, Live
<1>10. CASE DriveSecrets \/ DriveVault \/ KillMerge \/ RemoveMarker \/ Die
  BY <1>2, <1>10 DEF DriveSecrets, DriveVault, KillMerge, RemoveMarker, Die, repo, bounds, Live
<1>11. CASE FinishMerge
  <2>1. fresh' = fresh /\ theirs' = theirs
    BY <1>0, <1>11, FinishEffect DEF bounds
  <2>2. CASE UNCHANGED <<tree, head, base, work, joined>>
    BY <1>2, <2>1, <2>2 DEF Live
  <2>3. CASE ~ UNCHANGED <<tree, head, base, work, joined>>
    <3>1. PICK v \in result.vault, s \in result.secrets :
            /\ tree' = [vault |-> v, secrets |-> s]
            /\ head' \in {head, tree'} /\ base' \in {base, theirs}
      BY <1>0, <1>11, <2>3, FinishEffect
    <3>2. /\ head.secrets \in Secrets /\ theirs.secrets \in Secrets /\ base.secrets \in Secrets
          /\ git = "finish"
      BY <1>0, <1>11, FinishEffect DEF Shape, Pairs
    <3>3. Drawn(s, head.secrets, theirs.secrets)
      BY <1>0, <1>1, <3>1, <3>2, MergeDraws DEF MergeInv
    <3>4. tree'.secrets = s /\ head'.secrets \in {head.secrets, s}
          /\ base'.secrets \in {base.secrets, theirs.secrets}
      BY <3>1
    <3>5. QED
      BY <1>1, <2>1, <3>3, <3>4 DEF Live
  <2>4. QED
    BY <2>2, <2>3
<1>12. CASE Abort
  BY <1>2, <1>4, <1>12 DEF Abort, repo, bounds, Live
<1>13. CASE TakeSide(head) \/ TakeSide(theirs)
  BY <1>2, <1>4, <1>13 DEF TakeSide, bounds, Live
<1>14. CASE Reconcile
  <2>1. tree'.secrets = tree.secrets /\ UNCHANGED <<head, theirs, base>> /\ fresh' = fresh + 1
    BY <1>0, <1>3, <1>14, ReconcileEffect DEF Reconcile, repo
  <2>2. Follow(tree.secrets, tree.secrets, fresh)
    BY DEF Follow, OneStep
  <2>3. QED
    BY <2>1, <2>2 DEF Live
<1>15. QED
  BY <1>5, <1>6, <1>7, <1>8, <1>9, <1>10, <1>11, <1>12, <1>13, <1>14 DEF Next

(* Moved or minted, a record is of its name, and its value of its record. *)
LEMMA RecordsStep ==
  ASSUME IInv, Next
  PROVE  RecordsInv'
<1>0. Shape /\ RecordsInv /\ fresh \in Nat
  BY DEF IInv, Shape
<1>1. CASE /\ fresh' = fresh
           /\ \A z \in Live' : \E x, y \in Live : Drawn(z, x, y)
  <2>1. ASSUME NEW z \in Live', NEW n \in Names
        PROVE  Minted(n, z[n], fresh)
    BY <1>0, <1>1 DEF RecordsInv, AllMinted, Minted, Drawn
  <2>2. ASSUME NEW z1 \in Live', NEW z2 \in Live' PROVE SameOrigin(z1, z2)
    <3>1. PICK x1 \in Live, y1 \in Live : Drawn(z1, x1, y1)
      BY <1>1
    <3>2. PICK x2 \in Live, y2 \in Live : Drawn(z2, x2, y2)
      BY <1>1
    <3>3. QED
      BY <1>0, <3>1, <3>2 DEF RecordsInv, SameOrigin, Drawn
  <2>3. QED
    BY <1>1, <2>1, <2>2 DEF RecordsInv, AllMinted, SameOrigin
<1>2. CASE /\ fresh' = fresh + 1
           /\ \E x \in Live : \E z : Follow(x, z, fresh) /\ \A y \in Live' : y = z \/ y \in Live
  <2>0. PICK x \in Live : \E z : Follow(x, z, fresh) /\ \A y \in Live' : y = z \/ y \in Live
    BY <1>2
  <2>1. PICK z : Follow(x, z, fresh) /\ \A y \in Live' : y = z \/ y \in Live
    BY <2>0
  <2>2. ASSUME NEW y \in Live, NEW n \in Names
        PROVE  Minted(n, y[n], fresh) /\ Minted(n, y[n], fresh + 1)
    BY <1>0 DEF RecordsInv, AllMinted, Minted
  <2>3. ASSUME NEW n \in Names PROVE Minted(n, z[n], fresh + 1)
    <3>1. OneStep(n, x[n], z[n], fresh) /\ Minted(n, x[n], fresh + 1)
      BY <2>1, <2>2 DEF Follow
    <3>2. fresh + 1 \in 0 .. fresh + 1 /\ <<n, fresh + 1>> \in {n} \X (0 .. fresh + 1)
      BY <1>0
    <3>3. QED
      BY <3>1, <3>2 DEF OneStep, Minted
  <2>4. \A y \in Live' : AllMinted(y, fresh + 1)
    BY <2>1, <2>2, <2>3 DEF AllMinted
  <2>5. ASSUME NEW y \in Live PROVE SameOrigin(z, y) /\ SameOrigin(y, z)
    <3>1. ASSUME NEW n \in Names, z[n] # NoRecord, y[n] # NoRecord, z[n].val = y[n].val
          PROVE  z[n].id = y[n].id
      <4>1. z[n].val # fresh + 1
        BY <1>0, <2>2, <3>1 DEF Minted
      <4>2. x[n] # NoRecord /\ z[n].id = x[n].id /\ z[n].val = x[n].val
        BY <2>1, <3>1, <4>1 DEF Follow, OneStep
      <4>3. SameOrigin(x, y)
        BY <1>0 DEF RecordsInv
      <4>4. QED
        BY <3>1, <4>2, <4>3 DEF SameOrigin
    <3>2. QED
      BY <3>1 DEF SameOrigin
  <2>6. SameOrigin(z, z)
    BY DEF SameOrigin
  <2>7. \A y1, y2 \in Live' : SameOrigin(y1, y2)
    BY <1>0, <2>1, <2>5, <2>6 DEF RecordsInv
  <2>8. QED
    BY <1>2, <2>4, <2>7 DEF RecordsInv, AllMinted, SameOrigin
<1>3. QED
  BY <1>1, <1>2, Moves

-----------------------------------------------------------------------------
(* The merge.                                                                *)

(* head, theirs and base stay as they are from the first driver run to the end
   of the merge, so what was left in `result` is still a merge of them. *)
LEMMA MergeStep ==
  ASSUME IInv, Next
  PROVE  MergeInv'
<1>0. Shape /\ RecordsInv /\ MergeInv
  BY DEF IInv
<1>1. CASE OurCommand \/ TheirCommand \/ (\E n \in Names : BeginSet(n)) \/ Reconcile
           \/ RemoveMarker \/ Die
  BY <1>0, <1>1 DEF OurCommand, TheirCommand, BeginSet, Reconcile, RemoveMarker, Die, MergeInv,
     GitWaits, repo
<1>2. ASSUME NEW t \in Times, CommitSet(t) PROVE MergeInv'
  <2>1. UNCHANGED <<head, theirs, base, git, result>> /\ joined' \in {joined, NoMerge}
    BY <1>0, <1>2, CommitEffect DEF repo
  <2>2. QED
    BY <1>0, <2>1 DEF MergeInv
<1>3. CASE StartMerge
  <2>1. joined' = NoMerge /\ git' \in {"none", "secrets"}
    BY <1>3 DEF StartMerge
  <2>2. QED
    BY <2>1 DEF MergeInv
<1>4. CASE DriveSecrets
  <2>1. git # "none" /\ git' = "vault" /\ UNCHANGED <<head, theirs, base, joined>>
    BY <1>4 DEF DriveSecrets, repo
  <2>2. QED
    BY <1>0, <1>4, <2>1, DriveSecretsEffect DEF MergeInv
<1>5. CASE DriveVault
  <2>1. git = "vault" /\ git' = "finish" /\ UNCHANGED <<head, theirs, base, joined>>
    BY <1>5 DEF DriveVault, repo
  <2>2. QED
    BY <1>0, <1>5, <2>1, DriveVaultEffect DEF MergeInv
<1>6. CASE FinishMerge
  <2>1. \/ git' = "none"
        \/ git' = "conflict" /\ joined' = joined
    BY <1>0, <1>6, FinishEffect
  <2>2. git = "finish"
    BY <1>6 DEF FinishMerge
  <2>3. QED
    BY <1>0, <2>1, <2>2 DEF MergeInv
<1>7. CASE KillMerge \/ Abort \/ TakeSide(head) \/ TakeSide(theirs)
  BY <1>7 DEF KillMerge, Abort, TakeSide, MergeInv
<1>8. QED
  BY <1>1, <1>2, <1>3, <1>4, <1>5, <1>6, <1>7 DEF Next

(* What the gate lets a command open. *)
LEMMA GateStep ==
  ASSUME IInv, Next
  PROVE  GateInv'
<1>0. Shape /\ RecordsInv /\ MergeInv /\ GateInv
  BY DEF IInv
<1>2. CASE OurCommand
  <2>1. /\ UNCHANGED <<head, theirs, base, marker, git, result, work, raced>>
        /\ git \in {"none", "conflict"} /\ ~marker.on /\ work = Idle
    BY <1>2 DEF OurCommand, GitWaits, MayUnlock, repo
  <2>2. Usable(tree) => Usable(tree')
    BY <1>0, <1>2, CommandEffect
  <2>3. QED
    BY <1>0, <2>1, <2>2, IdleIn DEF GateInv, Quiet, Usable, Openable
<1>3. CASE TheirCommand
  <2>1. UNCHANGED <<tree, head, base, marker, git, result, work, raced>> /\ git = "none"
    BY <1>3 DEF TheirCommand
  <2>2. Usable(theirs) => Usable(theirs')
    BY <1>0, <1>3, CommandEffect
  <2>3. QED
    BY <1>0, <2>1, <2>2 DEF GateInv, Quiet, Usable, Openable
<1>4. ASSUME NEW n \in Names, BeginSet(n) PROVE GateInv'
  <2>1. /\ UNCHANGED <<tree, head, theirs, base, marker, git, result, raced>>
        /\ git \in {"none", "conflict"} /\ ~marker.on
        /\ work'.at = "set" /\ work'.meta = {tree.vault}
    BY <1>4 DEF BeginSet, GitWaits, MayUnlock, repo
  <2>2. QED
    BY <1>0, <2>1 DEF GateInv, Quiet, Usable, Openable
<1>5. ASSUME NEW t \in Times, CommitSet(t) PROVE GateInv'
  <2>1. /\ UNCHANGED <<head, theirs, base, marker, git, result>>
        /\ work.at = "set" /\ work' = Idle
    BY <1>0, <1>5, CommitEffect DEF repo
  <2>2. \/ tree' = tree /\ raced' = raced
        \/ /\ raced' = (raced \/ work.git)
           /\ work.meta = {tree.vault} /\ Usable(tree) => Usable(tree')
    BY <1>0, <1>5, CommitEffect
  <2>3. ~raced' => ~raced
    BY <2>2
  <2>4. git # "conflict" /\ ~marker.on /\ ~raced' => Usable(tree')
    BY <1>0, <2>1, <2>2 DEF GateInv, Quiet
  <2>5. QED
    BY <1>0, <2>1, <2>3, <2>4, IdleIn DEF GateInv, Quiet, Usable, Openable
<1>6. CASE StartMerge
  <2>1. UNCHANGED <<theirs, marker, result, raced>> /\ git = "none"
    BY <1>6 DEF StartMerge
  <2>2. CASE tree = base
    <3>1. /\ Checkout(theirs) /\ head' = theirs /\ base' = theirs /\ git' = git
      BY <1>6, <2>2 DEF StartMerge
    <3>2. /\ tree' = theirs /\ work'.at = work.at /\ (work.at # "idle" => work'.git)
      BY <1>0, <3>1, CheckoutEffect
    <3>3. QED
      BY <1>0, <2>1, <3>1, <3>2 DEF GateInv, Quiet, Usable, Openable
  <2>3. CASE tree # base
    <3>1. git' = "secrets" /\ head' = tree /\ UNCHANGED <<tree, base, work>>
      BY <1>6, <2>3 DEF StartMerge
    <3>2. QED
      BY <1>0, <2>1, <3>1 DEF GateInv, Quiet, Usable, Openable
  <2>4. QED
    BY <2>2, <2>3
<1>7. CASE DriveSecrets
  <2>1. /\ git = "secrets" /\ git' = "vault"
        /\ UNCHANGED <<tree, head, theirs, base, work, raced>>
    BY <1>7 DEF DriveSecrets, repo
  <2>2. marker' = marker \/ marker'.on
    BY <1>0, <1>7, DriveSecretsEffect
  <2>3. ~marker'.on => result'.conflict \/ \A s \in result'.secrets :
                         s \in Trivial(head.secrets, theirs.secrets, base.secrets)
    BY <1>0, <1>7, DriveSecretsEffect
  <2>4. QED
    BY <1>0, <2>1, <2>2, <2>3 DEF GateInv, Quiet, Usable, Openable
<1>8. CASE DriveVault
  <2>1. /\ git = "vault" /\ git' = "finish"
        /\ UNCHANGED <<tree, head, theirs, base, work, raced>>
    BY <1>8 DEF DriveVault, repo
  <2>2. /\ marker' = marker \/ marker'.on
        /\ result'.secrets = result.secrets /\ (result.conflict => result'.conflict)
    BY <1>0, <1>8, DriveVaultEffect
  <2>3. ~marker'.on => result'.conflict \/ \A v \in result'.vault :
                         VaultClean(v, head.vault, theirs.vault, base.vault)
    BY <1>0, <1>8, DriveVaultEffect
  <2>4. QED
    BY <1>0, <2>1, <2>2, <2>3 DEF GateInv, Quiet, Usable, Openable
<1>9. CASE FinishMerge
  <2>1. git = "finish" /\ UNCHANGED <<theirs, marker, raced>>
    BY <1>0, <1>9, FinishEffect
  <2>2. CASE git' = "none" /\ UNCHANGED <<tree, head, base, work, joined>>
    BY <1>0, <2>1, <2>2 DEF GateInv, Quiet, Usable, Openable
  <2>3. ASSUME NEW v \in result.vault, NEW s \in result.secrets,
               Checkout([vault |-> v, secrets |-> s]), tree' = [vault |-> v, secrets |-> s],
               \/ /\ result.conflict /\ git' = "conflict" /\ UNCHANGED <<head, base>>
               \/ /\ ~result.conflict /\ git' = "none" /\ head' = tree' /\ base' = theirs
        PROVE  GateInv'
    <3>1. work'.at = work.at /\ (work.at # "idle" => work'.git)
      BY <1>0, <2>3, CheckoutEffect
    <3>2. Usable(theirs) /\ Usable(base') /\ (Quiet => Usable(head))
      BY <1>0, <2>1, <2>3 DEF GateInv
    <3>3. Quiet /\ ~result.conflict => Usable(tree')
      <4>1. ASSUME Quiet, ~result.conflict
            PROVE  /\ s \in Trivial(head.secrets, theirs.secrets, base.secrets)
                   /\ VaultClean(v, head.vault, theirs.vault, base.vault)
        BY <1>0, <2>1, <2>3, <4>1 DEF GateInv
      <4>2. head \in Pairs /\ theirs \in Pairs /\ base \in Pairs /\ Usable(base)
        BY <1>0 DEF Shape, GateInv
      <4>3. QED
        BY <2>3, <3>2, <4>1, <4>2, CleanMergeOpens
    <3>4. QED
      BY <2>1, <2>3, <3>1, <3>2, <3>3 DEF GateInv, Quiet, Usable, Openable
  <2>4. QED
    BY <1>0, <1>9, <2>2, <2>3, FinishEffect
<1>10. CASE KillMerge
  <2>1. /\ git \in {"vault", "finish"} /\ git' = "none"
        /\ UNCHANGED <<tree, head, theirs, base, marker, work, raced>>
    BY <1>10 DEF KillMerge, repo
  <2>2. QED
    BY <1>0, <2>1 DEF GateInv, Quiet, Usable, Openable
<1>11. ASSUME NEW pair \in {head, theirs}, git = "conflict", git' = "none", Checkout(pair),
              head' = pair, base' \in {base, theirs}, UNCHANGED <<theirs, marker, raced>>
       PROVE  GateInv'
  <2>1. tree' = pair /\ work'.at = work.at /\ (work.at # "idle" => work'.git)
    BY <1>0, <1>11, CheckoutEffect
  <2>2. Quiet => Usable(pair)
    BY <1>0, <1>11 DEF GateInv
  <2>3. QED
    BY <1>0, <1>11, <2>1, <2>2 DEF GateInv, Quiet, Usable, Openable
<1>12. CASE Abort \/ TakeSide(head) \/ TakeSide(theirs)
  BY <1>11, <1>12 DEF Abort, TakeSide, repo
<1>13. CASE Reconcile
  <2>1. /\ UNCHANGED <<head, theirs, base, marker, git, result, raced>>
        /\ marker.on /\ git \in {"none", "conflict"} /\ work'.at = "blessed"
    BY <1>13 DEF Reconcile, GitWaits, repo, Idle
  <2>2. Usable(tree')
    BY <1>0, <1>13, ReconcileEffect
  <2>3. QED
    BY <1>0, <2>1, <2>2 DEF GateInv, Quiet, Usable, Openable
<1>14. CASE RemoveMarker
  <2>1. /\ work.at = "blessed" /\ work' = Idle
        /\ raced' = (raced \/ work.git \/ git # "none")
        /\ UNCHANGED <<tree, head, theirs, base, git, result>>
    BY <1>14 DEF RemoveMarker, repo
  <2>2. QED
    BY <1>0, <2>1, IdleIn DEF GateInv, Quiet, Usable, Openable
<1>15. CASE Die
  <2>1. /\ work' = Idle
        /\ UNCHANGED <<tree, head, theirs, base, marker, git, result, raced>>
    BY <1>15 DEF Die, repo
  <2>2. QED
    BY <1>0, <2>1, IdleIn DEF GateInv, Quiet, Usable, Openable
<1>16. QED
  BY <1>2, <1>3, <1>4, <1>5, <1>6, <1>7, <1>8, <1>9, <1>10, <1>12, <1>13, <1>14, <1>15 DEF Next

(* A record of theirs that the base has too is the same one, or a newer one:
   numbers are minted once, and only the version goes up. *)
LEMMA DescentStep ==
  ASSUME IInv, Next
  PROVE  Descent'
<1>0. Shape /\ RecordsInv /\ MergeInv /\ Descent /\ fresh \in Nat
  BY DEF IInv, Shape
<1>1. CASE base' = theirs /\ theirs' = theirs
  BY <1>1 DEF Descent, Descends
<1>2. CASE base' = base /\ theirs' = theirs
  BY <1>0, <1>2 DEF Descent, Descends
<1>3. CASE TheirCommand
  <2>1. Follow(theirs.secrets, theirs'.secrets, fresh) /\ base' = base
    BY <1>0, <1>3, CommandEffect DEF TheirCommand
  <2>2. ASSUME NEW n \in Names, theirs'.secrets[n] # NoRecord, base.secrets[n] # NoRecord,
               theirs'.secrets[n].id = base.secrets[n].id
        PROVE  \/ theirs'.secrets[n] = base.secrets[n]
               \/ theirs'.secrets[n].ver > base.secrets[n].ver
    <3> DEFINE x == theirs.secrets[n]  y == theirs'.secrets[n]  b == base.secrets[n]
    <3>1. OneStep(n, x, y, fresh) /\ Minted(n, b, fresh)
      BY <1>0, <2>1 DEF Follow, RecordsInv, Live, AllMinted
    <3>2. y.id # <<n, fresh + 1>>
      BY <1>0, <2>2, <3>1 DEF Minted
    <3>3. x # NoRecord /\ x.id = b.id /\ (y = x \/ y.ver > x.ver)
      BY <2>2, <3>1, <3>2 DEF OneStep
    <3>4. x = b \/ x.ver > b.ver
      BY <1>0, <2>2, <3>3 DEF Descent, Descends
    <3>5. x.ver \in Nat /\ b.ver \in Nat /\ y.ver \in Nat
      <4>1. theirs' \in Pairs /\ theirs \in Pairs /\ base \in Pairs
        BY <1>0, <1>3, CommandEffect DEF Shape
      <4>2. x \in Records /\ y \in Records /\ b \in Records
        BY <4>1 DEF Pairs, Secrets
      <4> HIDE DEF x, y, b
      <4>3. QED
        BY <4>2, RecordNumbers
    <3> HIDE DEF x, y, b
    <3>6. y = b \/ y.ver > b.ver
      BY <3>3, <3>4, <3>5
    <3>7. QED
      BY <3>6 DEF x, y, b
  <2>3. QED
    BY <2>1, <2>2 DEF Descent, Descends
<1>4. (theirs' = theirs /\ base' \in {base, theirs}) \/ TheirCommand
  <2>1. ASSUME NEW t \in Times, CommitSet(t) PROVE UNCHANGED <<theirs, base>>
    BY <1>0, <2>1, CommitEffect DEF repo
  <2>2. CASE FinishMerge
    BY <1>0, <2>2, FinishEffect
  <2>3. QED
    BY <2>1, <2>2 DEF Next, OurCommand, BeginSet, StartMerge, DriveSecrets, DriveVault,
       KillMerge, Abort, TakeSide, Reconcile, RemoveMarker, Die, repo
<1>5. QED
  BY <1>1, <1>2, <1>3, <1>4

(* A merge is in the working tree until a command of the developer changes it;
   all that a reconcile adds is the seal. *)
LEMMA JoinedStep ==
  ASSUME IInv, Next
  PROVE  NoEditLost' /\ RevokedStaysOut'
<1>0. /\ Shape /\ RecordsInv /\ MergeInv /\ Descent /\ NoEditLost /\ RevokedStaysOut
  BY DEF IInv
<1>1. CASE joined' = NoMerge
  BY <1>1 DEF NoMerge, NoEditLost, RevokedStaysOut
<1>2. CASE /\ joined' = joined /\ tree'.secrets = tree.secrets
           /\ tree'.vault.rcpt = tree.vault.rcpt
  <2>1. Known(tree'.vault) = Known(tree.vault)
    BY <1>2 DEF Known
  <2>2. NoEditLost'
    BY <1>0, <1>2 DEF NoEditLost
  <2>3. RevokedStaysOut'
    BY <1>0, <1>2, <2>1 DEF RevokedStaysOut, Known
  <2>4. QED
    BY <2>2, <2>3
<1>3. CASE FinishMerge
  <2>1. git = "finish"
    BY <1>3 DEF FinishMerge
  <2>2. CASE tree' = tree /\ joined' = joined
    BY <1>2, <2>2
  <2>3. CASE git' = "conflict" /\ joined' = joined
    BY <1>0, <1>1, <2>1, <2>3 DEF MergeInv
  <2>4. ASSUME NEW v \in result.vault, NEW s \in result.secrets, ~result.conflict,
               tree' = [vault |-> v, secrets |-> s],
               joined' = {[o |-> head, t |-> theirs, b |-> base]}
        PROVE  NoEditLost' /\ RevokedStaysOut'
    <3>1. /\ head \in Pairs /\ theirs \in Pairs /\ base \in Pairs
          /\ SecretsMerged(s, head.secrets, theirs.secrets, base.secrets)
          /\ VaultMerged(v, head.vault, theirs.vault, base.vault)
      BY <1>0, <2>1, <2>4 DEF MergeInv, Shape
    <3>2. /\ head.secrets \in Secrets /\ theirs.secrets \in Secrets /\ base.secrets \in Secrets
          /\ head.vault \in Vaults /\ theirs.vault \in Vaults /\ base.vault \in Vaults
      BY <3>1 DEF Pairs
    <3>3. Descends(theirs.secrets, base.secrets)
      BY <1>0 DEF Descent
    <3>4. tree'.secrets = s /\ tree'.vault = v
      BY <2>4
    <3>5. \A j \in joined' : j.o = head /\ j.t = theirs /\ j.b = base
      BY <2>4
    <3>6. ASSUME NEW n \in Names
          PROVE  /\ head.secrets[n] = base.secrets[n]
                      /\ SameRecord(theirs.secrets[n], base.secrets[n])
                    => s[n] = theirs.secrets[n]
                 /\ theirs.secrets[n] = base.secrets[n]
                      /\ Follows(head.secrets[n], base.secrets[n])
                    => s[n] = head.secrets[n]
      BY <3>1, <3>2, <3>3, MergeKeepsEdits
    <3>7. NoEditLost'
      BY <3>4, <3>5, <3>6 DEF NoEditLost
    <3>8. Trivial(head.vault, theirs.vault, base.vault) = {} =>
            \A q \in Known(v) \ Known(head.vault) :
              /\ q \notin Known(base.vault)
              /\ head.vault.signers # {} => v.rcpt[q].by \in head.vault.signers
      BY <3>1, <3>2, MergeJoins
    <3>9. RevokedStaysOut'
      BY <3>4, <3>5, <3>8 DEF RevokedStaysOut, Known
    <3>10. QED
      BY <3>7, <3>9
  <2>5. QED
    BY <1>0, <1>3, <2>2, <2>3, <2>4, FinishEffect
<1>4. CASE Reconcile
  BY <1>0, <1>2, <1>4, ReconcileEffect DEF Reconcile
<1>5. CASE \E t \in Times : CommitSet(t)
  BY <1>0, <1>1, <1>2, <1>5, CommitEffect
<1>6. CASE ~FinishMerge /\ ~Reconcile /\ ~ \E t \in Times : CommitSet(t)
  <2>1. joined' = NoMerge \/ (joined' = joined /\ tree' = tree)
    BY <1>6 DEF Next, OurCommand, TheirCommand, BeginSet, StartMerge, DriveSecrets, DriveVault,
       KillMerge, Abort, TakeSide, RemoveMarker, Die
  <2>2. QED
    BY <1>1, <1>2, <2>1
<1>7. QED
  BY <1>3, <1>4, <1>5, <1>6

-----------------------------------------------------------------------------
(* The theorems.                                                             *)

(* A first pair, as Init has it, satisfies the invariant. *)
LEMMA InitIInv ==
  ASSUME Init
  PROVE  IInv
<1>1. PICK present \in SUBSET Names, granted \in SUBSET People :
         base = [vault |-> [epoch |-> 1, kek |-> 1, dek |-> 1,
                   hash |-> [n \in Names |->
                     IF n \in present THEN [id |-> <<n, 1>>, ver |-> Version, time |-> 1,
                                            sdk |-> 1, val |-> 1] ELSE NoRecord],
                   sealed |-> TRUE,
                   wraps |-> [i \in present \X {1} |-> [sdk |-> 1, under |-> 1]],
                   signers |-> IF granted = {} THEN {} ELSE {Ours},
                   rcpt |-> [q \in People |-> IF q \in granted
                     THEN [dek |-> 1, sdks |-> [i \in present \X {1} |-> 1], full |-> TRUE,
                           by |-> Ours] ELSE Absent]],
                 secrets |-> [n \in Names |->
                     IF n \in present THEN [id |-> <<n, 1>>, ver |-> Version, time |-> 1,
                                            sdk |-> 1, val |-> 1] ELSE NoRecord]]
  BY DEF Init
<1> DEFINE ids == present \X {1}
           first(n) == [id |-> <<n, 1>>, ver |-> Version, time |-> 1, sdk |-> 1, val |-> 1]
           secrets == [n \in Names |-> IF n \in present THEN first(n) ELSE NoRecord]
           wraps == [i \in ids |-> [sdk |-> 1, under |-> 1]]
           sdks  == [i \in ids |-> 1]
           signers == IF granted = {} THEN {} ELSE {Ours}
           grant == [dek |-> 1, sdks |-> sdks, full |-> TRUE, by |-> Ours]
           rcpt == [q \in People |-> IF q \in granted THEN grant ELSE Absent]
           vault == [epoch |-> 1, kek |-> 1, dek |-> 1, hash |-> secrets, sealed |-> TRUE,
                     wraps |-> wraps, signers |-> signers, rcpt |-> rcpt]
<1>2. base = [vault |-> vault, secrets |-> secrets]
  BY <1>1
<1>3. /\ tree = base /\ head = base /\ theirs = base
      /\ marker = NoMarker /\ git = "none" /\ result = NoResult /\ work = Idle
      /\ fresh = 1 /\ ops = 0 /\ merges = 0 /\ joined = NoMerge /\ raced = FALSE
  BY DEF Init
<1>4. secrets \in Secrets
  <2>1. ASSUME NEW n \in Names PROVE first(n) \in Records
    BY Constants DEF Records
  <2> HIDE DEF first
  <2>2. QED
    BY <2>1, NoRecordIn DEF Secrets
<1>5. ids \subseteq RecordIds
  BY DEF RecordIds
<1>6. wraps \in Wraps
  <2>1. wraps \in [ids -> Wrapping]
    BY DEF Wrapping
  <2> HIDE DEF ids, wraps
  <2>2. QED
    BY <1>5, <2>1, PartialIn DEF Wraps
<1>7. rcpt \in [People -> Grants]
  <2>1. sdks \in [ids -> Nat] /\ [i \in {} |-> 0] \in [{} -> Nat]
    OBVIOUS
  <2>2. sdks \in Partial(RecordIds, Nat) /\ [i \in {} |-> 0] \in Partial(RecordIds, Nat)
    <3> HIDE DEF sdks, ids
    <3>1. QED
      BY <1>5, <2>1, PartialIn
  <2>3. grant \in Grants
    <3> HIDE DEF sdks
    <3>1. \A c \in BOOLEAN : [dek |-> 1, sdks |-> sdks, full |-> c, by |-> Ours] \in Grants
      BY <2>2 DEF Grants, Sides
    <3>2. QED
      BY <3>1
  <2>4. Absent \in Grants
    BY <2>2 DEF Absent, Grants, None
  <2> HIDE DEF grant
  <2>5. QED
    BY <2>3, <2>4
<1>8. vault \in Vaults
  <2>1. signers \in SUBSET Sides
    BY DEF Sides
  <2> HIDE DEF secrets, wraps, signers, rcpt
  <2>2. \A c \in BOOLEAN :
          [epoch |-> 1, kek |-> 1, dek |-> 1, hash |-> secrets, sealed |-> c,
           wraps |-> wraps, signers |-> signers, rcpt |-> rcpt] \in Vaults
    BY <1>4, <1>6, <1>7, <2>1 DEF Vaults
  <2>3. QED
    BY <2>2
<1>9. Usable(base)
  <2>1. ASSUME NEW n \in Names, secrets[n] # NoRecord
        PROVE  secrets[n].id \in DOMAIN wraps
               /\ wraps[secrets[n].id] = [sdk |-> secrets[n].sdk, under |-> 1]
    <3>1. n \in present /\ secrets[n] = first(n)
      BY <2>1
    <3>2. secrets[n].id = <<n, 1>> /\ secrets[n].sdk = 1
      BY <3>1
    <3> HIDE DEF secrets
    <3>3. QED
      BY <3>1, <3>2
  <2>2. base.secrets = secrets /\ base.vault.hash = secrets /\ base.vault.wraps = wraps
        /\ base.vault.dek = 1
    BY <1>2
  <2> HIDE DEF secrets, wraps
  <2>3. QED
    BY <2>1, <2>2 DEF Usable, Openable
<1>10. base \in Pairs
  <2> HIDE DEF vault, secrets
  <2>1. QED
    BY <1>2, <1>4, <1>8 DEF Pairs
<1>11. Shape
  <2>1. 0 \in 0 .. MaxOps /\ 0 \in 0 .. MaxMerges /\ 1 \in Nat /\ FALSE \in BOOLEAN
    BY Constants
  <2>2. QED
    BY <1>3, <1>10, <2>1, IdleIn DEF Shape
<1>12. RecordsInv
  <2>1. base.secrets = secrets /\ fresh = 1
    BY <1>2, <1>3
  <2>2. ASSUME NEW n \in Names PROVE Minted(n, secrets[n], 1)
    BY DEF Minted
  <2> HIDE DEF secrets
  <2>3. SameOrigin(secrets, secrets)
    BY DEF SameOrigin
  <2>4. QED
    BY <1>3, <2>1, <2>2, <2>3 DEF RecordsInv, Live, AllMinted
<1>13. MergeInv /\ NoEditLost /\ RevokedStaysOut
  BY <1>3 DEF MergeInv, NoEditLost, RevokedStaysOut, NoMerge
<1>14. GateInv
  BY <1>3, <1>9, IdleIn DEF GateInv
<1>15. Descent
  BY <1>3 DEF Descent, Descends
<1>16. QED
  BY <1>11, <1>12, <1>13, <1>14, <1>15 DEF IInv

(* IInv holds in every reachable state, whatever was set, shared, rotated,
   merged, aborted, killed or reconciled. *)
THEOREM Invariance == Spec => []IInv
<1>1. IInv /\ UNCHANGED vars => IInv'
  <2> SUFFICES ASSUME IInv, UNCHANGED vars PROVE IInv'
    OBVIOUS
  <2>1. Shape' /\ Descent'
    BY DEF IInv, vars, Shape, Descent
  <2>2. RecordsInv'
    BY DEF IInv, vars, RecordsInv, Live
  <2>3. MergeInv'
    BY DEF IInv, vars, MergeInv
  <2>4. GateInv'
    BY DEF IInv, vars, GateInv, Quiet, Usable, Openable
  <2>5. NoEditLost' /\ RevokedStaysOut'
    BY DEF IInv, vars, NoEditLost, RevokedStaysOut, Known
  <2>6. QED
    BY <2>1, <2>2, <2>3, <2>4, <2>5 DEF IInv
<1>2. IInv /\ Next => IInv'
  BY ShapeStep, RecordsStep, MergeStep, GateStep, DescentStep, JoinedStep DEF IInv
<1>3. QED
  BY InitIInv, <1>1, <1>2, PTL DEF Spec

(* No record of an error reaches a file, and there is no half a marker. *)
THEOREM TypeCorrect == Spec => []TypeOK
<1>1. IInv => TypeOK
  <2> SUFFICES ASSUME Shape PROVE TypeOK
    BY DEF IInv
  <2>1. ASSUME NEW p \in {tree, head, theirs, base}
        PROVE  /\ p.secrets \in [Names -> Records] /\ p.vault.hash \in [Names -> Records]
               /\ p.vault.epoch \in Nat /\ p.vault.kek \in Nat /\ p.vault.dek \in Nat
               /\ p.vault.sealed \in BOOLEAN /\ p.vault.signers \subseteq Sides
               /\ DOMAIN p.vault.rcpt = People
    <3>1. p.vault \in Vaults /\ p.secrets \in Secrets
      BY DEF Shape, Pairs
    <3>2. QED
      BY <3>1 DEF Vaults, Secrets
  <2>2. QED
    BY <2>1 DEF Shape, TypeOK, IsMarker, Works
<1>2. QED
  BY Invariance, <1>1, PTL

(* What the gate lets a command open does open: no merge puts the two files out
   of step without a marker, whoever did what in which order. *)
THEOREM GateHolds == Spec => []UngatedPairOpens
<1>1. IInv => UngatedPairOpens
  BY DEF IInv, GateInv, Quiet, UngatedPairOpens
<1>2. QED
  BY Invariance, <1>1, PTL

(* What one developer alone changed, added or removed is in the merge. *)
THEOREM EditsAreKept == Spec => []NoEditLost
<1>1. IInv => NoEditLost
  BY DEF IInv
<1>2. QED
  BY Invariance, <1>1, PTL

(* The two developers would get the same secrets.lock, or both be asked. *)
THEOREM MergeIsCommutative == Spec => []MergeCommutes
<1>1. IInv => MergeCommutes
  <2> SUFFICES ASSUME IInv PROVE MergeCommutes
    OBVIOUS
  <2>1. /\ head.secrets \in Secrets /\ theirs.secrets \in Secrets /\ base.secrets \in Secrets
        /\ SameOrigin(head.secrets, theirs.secrets)
    BY DEF IInv, Shape, Pairs, RecordsInv, Live
  <2>2. QED
    BY <2>1, MergeIsSymmetric DEF MergeCommutes
<1>2. QED
  BY Invariance, <1>1, PTL

(* A recipient that was revoked here is not back by a merge, and a new one has
   been granted access by a signer trusted here. *)
THEOREM RevocationStands == Spec => []RevokedStaysOut
<1>1. IInv => RevokedStaysOut
  BY DEF IInv
<1>2. QED
  BY Invariance, <1>1, PTL
-----------------------------------------------------------------------------
(* The epoch of a merge.                                                     *)

(* Every command moves the epoch by one. *)
LEMMA OutcomesAdvance ==
  ASSUME NEW p \in Pairs, NEW side, NEW p2 \in Outcomes(p, side)
  PROVE  p.vault.epoch \in Nat /\ p2.vault.epoch = p.vault.epoch + 1
<1> DEFINE v == p.vault  s == p.secrets
<1>0. v \in Vaults /\ v.epoch \in Nat
  BY DEF Pairs, Vaults
<1>1. ASSUME NEW n, NEW t PROVE AfterSet(v, s, n, t).vault.epoch = v.epoch + 1
  BY <1>0 DEF AfterSet, Committed, Vaults
<1>2. ASSUME NEW n PROVE AfterUnset(v, s, n).vault.epoch = v.epoch + 1
  BY <1>0 DEF AfterUnset, Committed, Vaults
<1>3. ASSUME NEW n, NEW q, NEW t PROVE AfterRemoval(v, s, n, q, t).vault.epoch = v.epoch + 1
  BY <1>0 DEF AfterRemoval, Committed, Vaults
<1>4. AfterRotate(v, s).vault.epoch = v.epoch + 1
  BY <1>0 DEF AfterRotate, Committed, Vaults
<1>5. ASSUME NEW q PROVE AfterGrant(v, s, q, side).vault.epoch = v.epoch + 1
  BY <1>0 DEF AfterGrant, Committed, Vaults
<1>6. ASSUME NEW q PROVE AfterRevoke(v, s, q).vault.epoch = v.epoch + 1
  BY <1>0 DEF AfterRevoke, AfterRotate, Committed, Vaults
<1>7. QED
  BY <1>0, <1>1, <1>2, <1>3, <1>4, <1>5, <1>6 DEF Outcomes

(* The merged vault.toml has the greater of the two epochs. *)
LEMMA MergeTakesGreater ==
  ASSUME NEW o \in Vaults, NEW t \in Vaults, NEW b \in Vaults, NEW won
  PROVE  /\ MergedVault(o, t, b, won).epoch >= o.epoch
         /\ MergedVault(o, t, b, won).epoch >= t.epoch
<1>1. o.epoch \in Nat /\ t.epoch \in Nat
  BY DEF Vaults
<1>2. MergedVault(o, t, b, won).epoch = MergedEpoch(o, t)
  BY MergedVaultIs
<1>3. QED
  BY <1>1, <1>2 DEF MergedEpoch

(* The other branch is ahead of the base in its epoch, too; and there is
   something to merge as long as a merge is under way. *)
AheadInv ==
  /\ theirs = base \/ theirs.vault.epoch > base.vault.epoch
  /\ git \in {"secrets", "vault", "finish"} => theirs # base

EpochInv ==
  /\ MergeKeepsEpoch
  /\ \A j \in joined : j.o.vault.epoch \in Nat /\ j.t.vault.epoch \in Nat

(* No step takes the epoch of the other branch back. *)
LEMMA AheadStep ==
  ASSUME IInv, AheadInv, Next
  PROVE  AheadInv'
<1>0. /\ Shape /\ RecordsInv /\ MergeInv
      /\ theirs.vault.epoch \in Nat /\ base.vault.epoch \in Nat
  BY DEF IInv, Shape, Pairs, Vaults
<1>1. CASE TheirCommand
  <2>1. theirs.vault.epoch + 1 = theirs'.vault.epoch
    BY <1>0, <1>1, OutcomesAdvance DEF TheirCommand, Shape
  <2>2. QED
    BY <1>0, <1>1, <2>1 DEF AheadInv, TheirCommand
<1>2. CASE FinishMerge
  BY <1>0, <1>2, FinishEffect DEF AheadInv
<1>3. CASE StartMerge
  BY <1>3 DEF StartMerge, AheadInv
<1>4. CASE \E t \in Times : CommitSet(t)
  BY <1>0, <1>4, CommitEffect DEF AheadInv, repo
<1>5. CASE DriveSecrets \/ DriveVault \/ KillMerge \/ Abort \/ TakeSide(head) \/ TakeSide(theirs)
  BY <1>5 DEF DriveSecrets, DriveVault, KillMerge, Abort, TakeSide, AheadInv, repo
<1>6. CASE \/ OurCommand \/ Reconcile \/ RemoveMarker \/ Die
           \/ \E n \in Names : BeginSet(n)
  BY <1>6 DEF OurCommand, Reconcile, RemoveMarker, Die, BeginSet, AheadInv, repo
<1>7. QED
  BY <1>1, <1>2, <1>3, <1>4, <1>5, <1>6 DEF Next

(* What is merged keeps the epochs of both sides, and a reconcile adds one. *)
LEMMA EpochStep ==
  ASSUME IInv, AheadInv, EpochInv, Next
  PROVE  EpochInv'
<1>0. Shape /\ RecordsInv /\ MergeInv
  BY DEF IInv
<1>1. CASE joined' = NoMerge \/ (joined' = joined /\ tree' = tree)
  BY <1>1 DEF NoMerge, EpochInv, MergeKeepsEpoch
<1>2. CASE FinishMerge
  <2>1. git = "finish"
    BY <1>2 DEF FinishMerge
  <2>2. CASE joined' = joined /\ (tree' = tree \/ git' = "conflict")
    BY <1>0, <1>1, <2>1, <2>2 DEF MergeInv
  <2>3. ASSUME NEW v \in result.vault, ~result.conflict, tree'.vault = v,
               joined' = {[o |-> head, t |-> theirs, b |-> base]}
        PROVE  EpochInv'
    <3> DEFINE o == head.vault  t == theirs.vault  b == base.vault
    <3>1. /\ o \in Vaults /\ t \in Vaults /\ b \in Vaults
          /\ VaultMerged(v, o, t, b) /\ t.epoch > b.epoch
      BY <1>0, <2>1, <2>3 DEF MergeInv, Shape, Pairs, AheadInv
    <3>2. o.epoch \in Nat /\ t.epoch \in Nat /\ b.epoch \in Nat
      BY <3>1 DEF Vaults
    <3> HIDE DEF o, t, b
    <3>3. t # b
      BY <3>1, <3>2
    <3>4. v.epoch >= o.epoch /\ v.epoch >= t.epoch
      <4>1. CASE v \in Trivial(o, t, b)
        BY <3>1, <3>2, <3>3, <4>1 DEF Trivial
      <4>2. QED
        BY <3>1, <4>1, MergeTakesGreater DEF VaultMerged
    <3>5. \A j \in joined' : j.o.vault = o /\ j.t.vault = t
      BY <2>3 DEF o, t
    <3>6. QED
      BY <2>3, <3>2, <3>4, <3>5 DEF EpochInv, MergeKeepsEpoch
  <2>4. CASE ~(joined' = joined /\ (tree' = tree \/ git' = "conflict"))
    <3>1. PICK v \in result.vault, s \in result.secrets :
            /\ tree' = [vault |-> v, secrets |-> s] /\ ~result.conflict
            /\ joined' = {[o |-> head, t |-> theirs, b |-> base]}
      BY <1>0, <1>2, <2>4, FinishEffect
    <3>2. tree'.vault = v
      BY <3>1
    <3>3. QED
      BY <2>3, <3>1, <3>2
  <2>5. QED
    BY <2>2, <2>4
<1>3. CASE Reconcile
  <2>1. tree'.vault.epoch = tree.vault.epoch + 1 /\ tree.vault.epoch \in Nat
        /\ joined' = joined
    BY <1>0, <1>3 DEF Reconcile, Committed, Shape, Pairs, Vaults
  <2>2. QED
    BY <2>1 DEF EpochInv, MergeKeepsEpoch
<1>4. CASE \E t \in Times : CommitSet(t)
  BY <1>0, <1>1, <1>4, CommitEffect
<1>5. CASE ~FinishMerge /\ ~Reconcile /\ ~ \E t \in Times : CommitSet(t)
  BY <1>1, <1>5 DEF Next, OurCommand, TheirCommand, BeginSet, StartMerge, DriveSecrets,
     DriveVault, KillMerge, Abort, TakeSide, RemoveMarker, Die
<1>6. QED
  BY <1>2, <1>3, <1>4, <1>5

(* A machine that has seen either branch accepts the merge of both: its epoch
   is below neither (merge_vault). *)
THEOREM EpochIsKept == Spec => []MergeKeepsEpoch
<1>1. Init => AheadInv /\ EpochInv
  BY DEF Init, AheadInv, EpochInv, MergeKeepsEpoch, NoMerge
<1>2. IInv /\ AheadInv /\ EpochInv /\ [Next]_vars => AheadInv' /\ EpochInv'
  <2>1. CASE UNCHANGED vars
    BY <2>1 DEF vars, AheadInv, EpochInv, MergeKeepsEpoch
  <2>2. QED
    BY <2>1, AheadStep, EpochStep
<1>3. EpochInv => MergeKeepsEpoch
  BY DEF EpochInv
<1>4. QED
  BY <1>1, <1>2, <1>3, Invariance, PTL DEF Spec
=============================================================================
