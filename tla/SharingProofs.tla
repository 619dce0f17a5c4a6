---------------------------- MODULE SharingProofs ----------------------------
(* Proofs about Sharing, for any people, owners, secrets and commands. *)
EXTENDS Sharing, FiniteSetTheorems, SequenceTheorems, TLAPS

-----------------------------------------------------------------------------
(* What the variables hold.                                                  *)

Fps      == People \X Keys
Ids      == Names \X Nat
Deks     == Nat \X {"dek"}
Sdks     == Nat \X (Names \cup {"dek", "allow"})
Bunch(S) == UNION {[D -> S] : D \in SUBSET Ids}

Rcpt   == [fp : Fps, dek : Deks \cup {NoKey}, sdks : Bunch(Sdks), full : BOOLEAN,
           by : Fps \cup {NoOne}]
Vaults == [old : BOOLEAN, shared : BOOLEAN, dek : Deks,
           wraps : Bunch([sdk : Sdks, under : Deks]), rcpts : Seq(Rcpt),
           signers : SUBSET Fps]
Record == [id : Ids \cup {<<>>}, key : Sdks \cup {NoKey}]

(* A function on some record ids. *)
LEMMA BunchIs ==
  ASSUME NEW S, NEW f
  PROVE  f \in Bunch(S) <=> /\ DOMAIN f \subseteq Ids /\ f = [i \in DOMAIN f |-> f[i]]
                            /\ \A i \in DOMAIN f : f[i] \in S
<1>1. ASSUME f \in Bunch(S)
      PROVE  /\ DOMAIN f \subseteq Ids /\ f = [i \in DOMAIN f |-> f[i]]
             /\ \A i \in DOMAIN f : f[i] \in S
  <2>1. PICK D \in SUBSET Ids : f \in [D -> S]
    BY <1>1 DEF Bunch
  <2>2. QED
    BY <2>1
<1>2. ASSUME DOMAIN f \subseteq Ids, f = [i \in DOMAIN f |-> f[i]],
             \A i \in DOMAIN f : f[i] \in S
      PROVE  f \in Bunch(S)
  <2>1. f \in [DOMAIN f -> S]
    BY <1>2
  <2>2. QED
    BY <1>2, <2>1 DEF Bunch
<1>3. QED
  BY <1>1, <1>2

(* The entries of g, and those of f where g has none. *)
LEMMA OverrideIs ==
  ASSUME NEW S, NEW f \in Bunch(S), NEW g \in Bunch(S), NEW h, h = Override(f, g)
  PROVE  /\ h \in Bunch(S) /\ DOMAIN h = DOMAIN f \cup DOMAIN g
         /\ \A i \in DOMAIN g : h[i] = g[i]
         /\ \A i \in DOMAIN f \ DOMAIN g : h[i] = f[i]
<1>1. /\ DOMAIN f \subseteq Ids /\ DOMAIN g \subseteq Ids
      /\ \A i \in DOMAIN f : f[i] \in S
      /\ \A i \in DOMAIN g : g[i] \in S
  BY BunchIs
<1>2. /\ DOMAIN h = DOMAIN f \cup DOMAIN g
      /\ \A i \in DOMAIN g : h[i] = g[i]
      /\ \A i \in DOMAIN f \ DOMAIN g : h[i] = f[i]
      /\ h = [i \in DOMAIN h |-> h[i]]
  BY DEF Override
<1>3. h \in Bunch(S)
  BY <1>1, <1>2, BunchIs
<1>4. QED
  BY <1>2, <1>3

(* The entries of f but those of ks. *)
LEMMA WithoutIs ==
  ASSUME NEW S, NEW f \in Bunch(S), NEW ks, NEW h, h = Without(f, ks)
  PROVE  /\ h \in Bunch(S) /\ DOMAIN h = DOMAIN f \ ks
         /\ \A i \in DOMAIN h : h[i] = f[i]
<1>1. /\ DOMAIN f \subseteq Ids /\ \A i \in DOMAIN f : f[i] \in S
  BY BunchIs
<1>2. /\ DOMAIN h = DOMAIN f \ ks /\ \A i \in DOMAIN h : h[i] = f[i]
      /\ h = [i \in DOMAIN h |-> h[i]]
  BY DEF Without
<1>3. h \in Bunch(S)
  BY <1>1, <1>2, BunchIs
<1>4. QED
  BY <1>2, <1>3

(* The least index of a finite set of naturals, as Min chooses it. *)
LEMMA MinIs ==
  ASSUME NEW S \in SUBSET Nat, IsFiniteSet(S), S # {}
  PROVE  Min(S) \in S
<1> DEFINE below(x) == {j \in S : j <= x}
           T == {below(x) : x \in S}
<1>1. PICK Z \in T : \A Y \in T : ~(<<Y, Z>> \in StrictSubsetOrdering(S))
  <2>1. T \subseteq SUBSET S /\ T # {}
    OBVIOUS
  <2>2. IsWellFoundedOn(StrictSubsetOrdering(S), SUBSET S)
    BY FS_StrictSubsetOrderingWellFounded, FS_FiniteSubsetsOfFinite
  <2> HIDE DEF T
  <2>3. QED
    BY <2>1, <2>2, WFMin
<1>2. PICK x \in S : Z = below(x)
  OBVIOUS
<1>3. ASSUME NEW y \in S, ~(x <= y) PROVE FALSE
  <2>1. y \in Nat /\ x \in Nat
    OBVIOUS
  <2>2. below(y) \subseteq below(x)
    <3>1. ASSUME NEW j \in S, j <= y PROVE j <= x
      <4>1. j \in Nat
        OBVIOUS
      <4>2. QED
        BY <1>3, <2>1, <3>1, <4>1
    <3>2. QED
      BY <3>1
  <2>3. x \in below(x) /\ x \notin below(y)
    BY <1>3, <2>1
  <2>4. <<below(y), below(x)>> \in StrictSubsetOrdering(S)
    BY <2>2, <2>3 DEF StrictSubsetOrdering
  <2>5. below(y) \in T
    OBVIOUS
  <2>6. QED
    BY <1>1, <1>2, <2>4, <2>5
<1>4. \E m \in S : \A y \in S : m <= y
  BY <1>3
<1>5. QED
  BY <1>4 DEF Min

(* A sequence with other elements of the same number. *)
LEMMA EachIs ==
  ASSUME NEW S, NEW q \in Seq(S), NEW g, g = [i \in DOMAIN q |-> g[i]],
         \A i \in DOMAIN q : g[i] \in S
  PROVE  g \in Seq(S) /\ Len(g) = Len(q) /\ DOMAIN g = DOMAIN q
<1>1. DOMAIN q = 1 .. Len(q) /\ Len(q) \in Nat
  BY LenProperties
<1>2. g \in [1 .. Len(q) -> S]
  BY <1>1
<1>3. QED
  BY <1>1, <1>2

(* Where a fingerprint is: at an entry that has it, or nowhere. *)
LEMMA AtIs ==
  ASSUME NEW v, v.rcpts \in Seq(Rcpt), NEW fp
  PROVE  /\ At(v, fp) \in 0 .. Len(v.rcpts)
         /\ At(v, fp) # 0 => v.rcpts[At(v, fp)].fp = fp
         /\ At(v, fp) = 0 => \A i \in DOMAIN v.rcpts : v.rcpts[i].fp # fp
<1> DEFINE q == v.rcpts
           I == {i \in 1 .. Len(q) : q[i].fp = fp}
<1>1. Len(q) \in Nat /\ DOMAIN q = 1 .. Len(q)
  BY LenProperties
<1>2. At(v, fp) = IF I # {} THEN Min(I) ELSE 0
  BY DEF At, SelectInSeq
<1>3. I \subseteq Nat /\ IsFiniteSet(I)
  <2>1. I \subseteq 1 .. Len(q)
    OBVIOUS
  <2>2. IsFiniteSet(1 .. Len(q))
    BY <1>1, FS_Interval
  <2>3. QED
    BY <1>1, <2>1, <2>2, FS_Subset
<1>4. I # {} => Min(I) \in I
  BY <1>3, MinIs
<1>5. QED
  BY <1>1, <1>2, <1>4

(* It depends on the fingerprints alone. *)
LEMMA AtSame ==
  ASSUME NEW v, v.rcpts \in Seq(Rcpt), NEW w, w.rcpts \in Seq(Rcpt),
         DOMAIN w.rcpts = DOMAIN v.rcpts, NEW fp,
         \A i \in DOMAIN v.rcpts : w.rcpts[i].fp = v.rcpts[i].fp
  PROVE  At(w, fp) = At(v, fp)
<1>1. /\ DOMAIN v.rcpts = 1 .. Len(v.rcpts) /\ DOMAIN w.rcpts = 1 .. Len(w.rcpts)
      /\ Len(v.rcpts) \in Nat /\ Len(w.rcpts) \in Nat
  BY LenProperties
<1>2. {i \in 1 .. Len(w.rcpts) : w.rcpts[i].fp = fp}
        = {i \in 1 .. Len(v.rcpts) : v.rcpts[i].fp = fp}
  BY <1>1
<1>3. QED
  BY <1>2 DEF At, SelectInSeq

(* A fingerprint that one entry has is there. *)
LEMMA AtOnly ==
  ASSUME NEW v, v.rcpts \in Seq(Rcpt), NEW i \in DOMAIN v.rcpts,
         \A j \in DOMAIN v.rcpts : v.rcpts[j].fp = v.rcpts[i].fp => j = i
  PROVE  At(v, v.rcpts[i].fp) = i
<1>1. DOMAIN v.rcpts = 1 .. Len(v.rcpts) /\ Len(v.rcpts) \in Nat
  BY LenProperties
<1>2. QED
  BY <1>1, AtIs

-----------------------------------------------------------------------------
(* The inductive invariant.                                                  *)

(* Every recipient has a valid grant, and what he holds are keys of now: the
   project key or none, keys of records, and all of them if he has full access.
   Where nobody has signed, nobody has a key pair that could be migrated. *)
Ok(v, r) ==
  /\ MayGet(v, r)
  /\ r.dek \in {v.dek, NoKey}
  /\ r.full => r.dek = v.dek /\ DOMAIN r.sdks = DOMAIN v.wraps
  /\ \A i \in DOMAIN r.sdks : i \in DOMAIN v.wraps /\ r.sdks[i] = v.wraps[i].sdk
  /\ v.signers = {} => r.fp[2] = Modern

SecretsOk(s) ==
  s \in [Names -> Record] /\ \A n \in Present(s) : s[n].id \in {n} \X Nat

VaultOk(v, s) ==
  /\ v \in Vaults /\ v.old = FALSE
  /\ DOMAIN v.wraps = IdsOf(s)
  /\ \A n \in Present(s) : v.wraps[s[n].id].sdk = s[n].key /\ v.wraps[s[n].id].under = v.dek
  /\ \A i \in DOMAIN v.rcpts : Ok(v, v.rcpts[i])
  /\ v.rcpts # <<>> => v.shared

IdentOk(id) ==
  /\ id \in [People -> [now : Keys \cup {None}, old : {None, Legacy}]]
  /\ \A p \in People : id[p].old # None => id[p].now = Modern

(* A person has at most one entry of his RSA key, and one or, next to it or
   instead of it, two of his new key pair - which he then has. *)
Of(v, fp)    == {i \in DOMAIN v.rcpts : v.rcpts[i].fp = fp}
Once(v, fp)  == \A i, j \in Of(v, fp) : i = j
Twice(v, fp) == \A i, j, k \in Of(v, fp) : i = j \/ j = k \/ i = k

FewOk(v, id) ==
  \A p \in People :
    /\ Once(v, <<p, Legacy>>) /\ Twice(v, <<p, Modern>>)
    /\ Of(v, <<p, Legacy>>) # {} => Once(v, <<p, Modern>>)
    /\ id[p].now = Legacy => Of(v, <<p, Modern>>) = {}

IInv ==
  /\ SecretsOk(secrets) /\ VaultOk(vault, secrets)
  /\ IdentOk(ident) /\ FewOk(vault, ident) /\ ops \in Nat

-----------------------------------------------------------------------------
(* The operators on a vault.                                                 *)

(* Sealing a vault of today changes nothing a recipient sees. *)
LEMMA SealedIs ==
  ASSUME NEW v \in Vaults, v.old = FALSE
  PROVE  Sealed(v) = v
<1>1. \A b \in BOOLEAN : v.old = b => [v EXCEPT !.old = b] = v
  BY DEF Vaults
<1>2. QED
  BY <1>1 DEF Sealed

(* The recipients of a vault. *)
LEMMA RcptsAre ==
  ASSUME NEW v \in Vaults
  PROVE  /\ v.rcpts \in Seq(Rcpt) /\ Len(v.rcpts) \in Nat /\ DOMAIN v.rcpts = 1 .. Len(v.rcpts)
         /\ \A i \in DOMAIN v.rcpts : v.rcpts[i] \in Rcpt
<1>1. v.rcpts \in Seq(Rcpt)
  BY DEF Vaults
<1>2. QED
  BY <1>1, LenProperties, ElementOfSeq

(* A rotation changes the project key in the vault, in the wrappings and for
   whoever had it. *)
LEMMA RotatedIs ==
  ASSUME NEW s, SecretsOk(s), NEW v, VaultOk(v, s), ops \in Nat, NEW w, w = Rotated(v)
  PROVE  /\ VaultOk(w, s) /\ DOMAIN w.rcpts = DOMAIN v.rcpts
         /\ \A i \in DOMAIN v.rcpts : w.rcpts[i].fp = v.rcpts[i].fp
                                     /\ w.rcpts[i].sdks = v.rcpts[i].sdks
<1> DEFINE R == [i \in DOMAIN v.rcpts |->
                   IF v.rcpts[i].dek # NoKey THEN [v.rcpts[i] EXCEPT !.dek = Dek] ELSE v.rcpts[i]]
           W == [i \in DOMAIN v.wraps |-> [v.wraps[i] EXCEPT !.under = Dek]]
           u == [v EXCEPT !.rcpts = R, !.dek = Dek, !.wraps = W]
<1>0. v \in Vaults /\ v.old = FALSE /\ Dek \in Deks /\ Dek # NoKey
  BY DEF VaultOk, Dek, Deks, NoKey
<1>1. /\ v.rcpts \in Seq(Rcpt) /\ \A i \in DOMAIN v.rcpts : v.rcpts[i] \in Rcpt
      /\ \A i \in DOMAIN v.rcpts : Ok(v, v.rcpts[i])
  BY <1>0, RcptsAre DEF VaultOk
<1>2. Rotated(v) = Sealed(u)
  <2>1. [i \in DOMAIN v.rcpts |->
           IF v.rcpts[i].dek # NoKey /\ MayGet(v, v.rcpts[i])
           THEN [v.rcpts[i] EXCEPT !.dek = Dek] ELSE v.rcpts[i]] = R
    BY <1>1 DEF Ok
  <2> HIDE DEF R, W
  <2>2. QED
    BY <2>1 DEF Rotated, Each, W
<1>3. ASSUME NEW i \in DOMAIN R
      PROVE  /\ R[i] \in Rcpt /\ R[i].fp = v.rcpts[i].fp /\ R[i].sdks = v.rcpts[i].sdks
             /\ R[i].full = v.rcpts[i].full /\ R[i].by = v.rcpts[i].by
             /\ R[i].dek = IF v.rcpts[i].dek # NoKey THEN Dek ELSE NoKey
  BY <1>0, <1>1, <1>3 DEF Rcpt
<1>4. R \in Seq(Rcpt) /\ Len(R) = Len(v.rcpts) /\ DOMAIN R = DOMAIN v.rcpts
  <2>1. R = [i \in DOMAIN v.rcpts |-> R[i]] /\ DOMAIN R = DOMAIN v.rcpts
    OBVIOUS
  <2> HIDE DEF R
  <2>2. QED
    BY <1>1, <1>3, <2>1, EachIs
<1>5. /\ W \in Bunch([sdk : Sdks, under : Deks]) /\ DOMAIN W = DOMAIN v.wraps
      /\ \A i \in DOMAIN W : W[i].sdk = v.wraps[i].sdk /\ W[i].under = Dek
  <2>1. v.wraps \in Bunch([sdk : Sdks, under : Deks])
    BY <1>0 DEF Vaults
  <2>2. DOMAIN v.wraps \subseteq Ids /\ \A i \in DOMAIN v.wraps : v.wraps[i] \in [sdk : Sdks, under : Deks]
    BY <2>1, BunchIs
  <2>3. \A i \in DOMAIN W : W[i] \in [sdk : Sdks, under : Deks]
                           /\ W[i].sdk = v.wraps[i].sdk /\ W[i].under = Dek
    BY <1>0, <2>2
  <2>4. DOMAIN W = DOMAIN v.wraps /\ W = [i \in DOMAIN W |-> W[i]]
    OBVIOUS
  <2> HIDE DEF W
  <2>5. QED
    BY <2>2, <2>3, <2>4, BunchIs
<1> HIDE DEF R, W
<1>6. /\ u \in Vaults /\ u.old = FALSE /\ u.shared = v.shared /\ u.dek = Dek /\ u.wraps = W
      /\ u.rcpts = R /\ u.signers = v.signers
  BY <1>0, <1>4, <1>5 DEF Vaults
<1>7. w = u
  BY <1>2, <1>6, SealedIs
<1> HIDE DEF u
<1>8. ASSUME NEW i \in DOMAIN R PROVE Ok(u, R[i])
  <2>1. Ok(v, v.rcpts[i]) /\ i \in DOMAIN v.rcpts
    BY <1>1, <1>4, <1>8
  <2>2. /\ R[i].fp = v.rcpts[i].fp /\ R[i].sdks = v.rcpts[i].sdks
        /\ R[i].full = v.rcpts[i].full /\ R[i].by = v.rcpts[i].by
        /\ R[i].dek = IF v.rcpts[i].dek # NoKey THEN Dek ELSE NoKey
    BY <1>3, <1>8
  <2>3. v.dek # NoKey
    BY <1>0 DEF Vaults, Deks, NoKey
  <2>4. QED
    BY <1>5, <1>6, <2>1, <2>2, <2>3 DEF Ok, MayGet, ValidGrant
<1>9. R # <<>> => v.rcpts # <<>>
  BY <1>4
<1>10. VaultOk(u, s)
  BY <1>5, <1>6, <1>8, <1>9 DEF VaultOk, IdsOf
<1>11. QED
  BY <1>3, <1>4, <1>6, <1>7, <1>10

(* What recipient i had under a fingerprint he still has. *)
Keeps(v, w, i) ==
  /\ i \in DOMAIN w.rcpts /\ w.rcpts[i].fp = v.rcpts[i].fp
  /\ DOMAIN v.rcpts[i].sdks \subseteq DOMAIN w.rcpts[i].sdks

(* w is v with the keys of sdks. *)
Wrapped(v, sdks, w) ==
  /\ w \in Vaults /\ w.old = FALSE /\ w.shared = v.shared /\ w.dek = v.dek
  /\ w.signers = v.signers
  /\ DOMAIN w.wraps = DOMAIN v.wraps \cup DOMAIN sdks
  /\ \A i \in DOMAIN sdks : w.wraps[i].sdk = sdks[i] /\ w.wraps[i].under = v.dek
  /\ \A i \in DOMAIN v.wraps \ DOMAIN sdks : w.wraps[i] = v.wraps[i]
  /\ DOMAIN w.rcpts = DOMAIN v.rcpts /\ (w.rcpts # <<>> => v.rcpts # <<>>)
  /\ \A i \in DOMAIN v.rcpts : Ok(w, w.rcpts[i]) /\ Keeps(v, w, i)

(* Keys for records that have the same already, or none. *)
LEMMA WrapIs ==
  ASSUME NEW s, NEW v, VaultOk(v, s), NEW sdks \in Bunch(Sdks),
         \A i \in DOMAIN sdks \cap DOMAIN v.wraps : sdks[i] = v.wraps[i].sdk,
         NEW w, w = Wrap(v, sdks)
  PROVE  Wrapped(v, sdks, w)
<1> DEFINE r(i) == v.rcpts[i]
           R == [i \in DOMAIN v.rcpts |->
                   IF r(i).full THEN [r(i) EXCEPT !.sdks = Override(r(i).sdks, sdks)] ELSE r(i)]
           N == [i \in DOMAIN sdks |-> [sdk |-> sdks[i], under |-> v.dek]]
           W == Override(v.wraps, N)
           WType == [sdk : Sdks, under : Deks]
<1>0. /\ v \in Vaults /\ v.old = FALSE /\ v.dek \in Deks
      /\ v.wraps \in Bunch(WType)
  BY DEF VaultOk, Vaults
<1>1. /\ v.rcpts \in Seq(Rcpt) /\ Len(v.rcpts) \in Nat
      /\ \A i \in DOMAIN v.rcpts : r(i) \in Rcpt /\ r(i).sdks \in Bunch(Sdks) /\ Ok(v, r(i))
  BY <1>0, RcptsAre DEF VaultOk, Rcpt
<1>2. w = [v EXCEPT !.rcpts = R, !.wraps = W]
  <2>1. [i \in DOMAIN v.rcpts |->
           IF r(i).full /\ MayGet(v, r(i))
           THEN [r(i) EXCEPT !.sdks = Override(r(i).sdks, sdks)] ELSE r(i)] = R
    BY <1>1 DEF Ok
  <2> HIDE DEF R, W
  <2>2. QED
    BY <2>1 DEF Wrap, Each, W
<1>3. ASSUME NEW i \in DOMAIN R
      PROVE  /\ R[i] \in Rcpt /\ R[i].fp = r(i).fp /\ R[i].dek = r(i).dek
             /\ R[i].full = r(i).full /\ R[i].by = r(i).by
             /\ ~r(i).full => R[i].sdks = r(i).sdks
             /\ r(i).full => R[i].sdks = Override(r(i).sdks, sdks)
  <2>1. Override(r(i).sdks, sdks) \in Bunch(Sdks) /\ r(i) \in Rcpt
    BY <1>1, <1>3, OverrideIs
  <2>2. \A x \in Bunch(Sdks) : LET q == [r(i) EXCEPT !.sdks = x] IN
          /\ q \in Rcpt /\ q.fp = r(i).fp /\ q.dek = r(i).dek
          /\ q.full = r(i).full /\ q.by = r(i).by /\ q.sdks = x
    BY <2>1 DEF Rcpt
  <2>3. R[i] = IF r(i).full THEN [r(i) EXCEPT !.sdks = Override(r(i).sdks, sdks)] ELSE r(i)
    BY <1>3
  <2>4. QED
    BY <2>1, <2>2, <2>3
<1>4. R \in Seq(Rcpt) /\ Len(R) = Len(v.rcpts) /\ DOMAIN R = DOMAIN v.rcpts
  <2>1. R = [i \in DOMAIN v.rcpts |-> R[i]] /\ DOMAIN R = DOMAIN v.rcpts
    OBVIOUS
  <2> HIDE DEF R
  <2>2. QED
    BY <1>1, <1>3, <2>1, EachIs
<1>5. /\ W \in Bunch(WType) /\ DOMAIN W = DOMAIN v.wraps \cup DOMAIN sdks
      /\ \A i \in DOMAIN sdks : W[i].sdk = sdks[i] /\ W[i].under = v.dek
      /\ \A i \in DOMAIN v.wraps \ DOMAIN sdks : W[i] = v.wraps[i]
  <2>1. DOMAIN sdks \subseteq Ids /\ \A i \in DOMAIN sdks : sdks[i] \in Sdks
    BY BunchIs
  <2>2. \A i \in DOMAIN N : N[i] \in WType /\ N[i].sdk = sdks[i] /\ N[i].under = v.dek
    BY <1>0, <2>1
  <2>3. DOMAIN N = DOMAIN sdks /\ N = [i \in DOMAIN N |-> N[i]]
    OBVIOUS
  <2> HIDE DEF N, WType
  <2>4. N \in Bunch(WType)
    BY <2>1, <2>2, <2>3, BunchIs
  <2>5. /\ W \in Bunch(WType) /\ DOMAIN W = DOMAIN v.wraps \cup DOMAIN N
        /\ \A i \in DOMAIN N : W[i] = N[i]
        /\ \A i \in DOMAIN v.wraps \ DOMAIN N : W[i] = v.wraps[i]
    <3>1. W \in Bunch(WType)
      BY <1>0, <2>4, OverrideIs
    <3>2. QED
      BY <3>1 DEF Override
  <2>6. QED
    BY <2>2, <2>3, <2>5
<1> HIDE DEF R, W, N
<1>6. /\ w \in Vaults /\ w.old = FALSE /\ w.shared = v.shared /\ w.dek = v.dek /\ w.wraps = W
      /\ w.rcpts = R /\ w.signers = v.signers
  BY <1>0, <1>2, <1>4, <1>5 DEF Vaults
<1>7. ASSUME NEW i \in DOMAIN R PROVE Ok(w, R[i]) /\ Keeps(v, w, i)
  <2>1. Ok(v, r(i)) /\ i \in DOMAIN v.rcpts /\ r(i).sdks \in Bunch(Sdks) /\ r(i) \in Rcpt
    BY <1>1, <1>4, <1>7
  <2>2. /\ R[i].fp = r(i).fp /\ R[i].dek = r(i).dek
        /\ R[i].full = r(i).full /\ R[i].by = r(i).by
        /\ ~r(i).full => R[i].sdks = r(i).sdks
        /\ r(i).full => R[i].sdks = Override(r(i).sdks, sdks)
    BY <1>3, <1>7
  <2>3. r(i).full => /\ DOMAIN R[i].sdks = DOMAIN r(i).sdks \cup DOMAIN sdks
                     /\ \A k \in DOMAIN sdks : R[i].sdks[k] = sdks[k]
                     /\ \A k \in DOMAIN r(i).sdks \ DOMAIN sdks : R[i].sdks[k] = r(i).sdks[k]
    <3> SUFFICES ASSUME r(i).full
                 PROVE  /\ DOMAIN R[i].sdks = DOMAIN r(i).sdks \cup DOMAIN sdks
                        /\ \A k \in DOMAIN sdks : R[i].sdks[k] = sdks[k]
                        /\ \A k \in DOMAIN r(i).sdks \ DOMAIN sdks : R[i].sdks[k] = r(i).sdks[k]
      OBVIOUS
    <3>1. R[i].sdks = Override(r(i).sdks, sdks) /\ r(i).sdks \in Bunch(Sdks)
      BY <2>1, <2>2
    <3>2. QED
      BY <3>1 DEF Override
  <2>4. \A k \in DOMAIN r(i).sdks : k \in DOMAIN v.wraps /\ r(i).sdks[k] = v.wraps[k].sdk
    BY <2>1 DEF Ok
  <2>5. \A k \in DOMAIN v.wraps : k \in DOMAIN W /\ W[k].sdk = v.wraps[k].sdk
    BY <1>5
  <2>6. \A k \in DOMAIN R[i].sdks : k \in DOMAIN W /\ R[i].sdks[k] = W[k].sdk
    <3>1. CASE r(i).full
      BY <1>5, <2>3, <2>4, <2>5, <3>1
    <3>2. CASE ~r(i).full
      BY <2>2, <2>4, <2>5, <3>2
    <3>3. QED
      BY <3>1, <3>2
  <2>7. R[i].full => R[i].dek = w.dek /\ DOMAIN R[i].sdks = DOMAIN W
    BY <1>5, <1>6, <2>1, <2>2, <2>3 DEF Ok
  <2>8. MayGet(w, R[i]) /\ R[i].dek \in {w.dek, NoKey} /\ (w.signers = {} => R[i].fp[2] = Modern)
    BY <1>6, <2>1, <2>2 DEF Ok, MayGet, ValidGrant
  <2>9. Ok(w, R[i])
    BY <1>6, <2>6, <2>7, <2>8 DEF Ok
  <2>10. Keeps(v, w, i)
    BY <1>6, <1>7, <2>2, <2>3 DEF Keeps
  <2>11. QED
    BY <2>9, <2>10
<1>8. R # <<>> => v.rcpts # <<>>
  BY <1>1, <1>4
<1>9. QED
  BY <1>4, <1>5, <1>6, <1>7, <1>8 DEF Wrapped

-----------------------------------------------------------------------------
(* The commands that write secrets.                                          *)

(* Entry i is the only one of its person q. *)
Only(v, q, i) == \A j \in DOMAIN v.rcpts : v.rcpts[j].fp[1] = q <=> j = i

(* The one entry of q is still the one of q, with the keys of the records of
   ids that it had. *)
Follows(v, w, q, ids) ==
  \A i \in DOMAIN v.rcpts : Only(v, q, i) =>
    \E j \in DOMAIN w.rcpts : /\ Only(w, q, j) /\ w.rcpts[j].fp = v.rcpts[i].fp
                              /\ ids \cap DOMAIN v.rcpts[i].sdks \subseteq DOMAIN w.rcpts[j].sdks

(* Whoever keeps his entries and what they unlock has lost nothing. *)
LEMMA KeepFollow ==
  ASSUME NEW v, NEW w, DOMAIN w.rcpts = DOMAIN v.rcpts, NEW q, NEW ids,
         \A i \in DOMAIN v.rcpts : w.rcpts[i].fp = v.rcpts[i].fp,
         \A i \in DOMAIN v.rcpts : v.rcpts[i].fp[1] = q =>
           ids \cap DOMAIN v.rcpts[i].sdks \subseteq DOMAIN w.rcpts[i].sdks
  PROVE  Follows(v, w, q, ids)
BY DEF Follows, Only

(* A record is told from the place of one. *)
LEMMA NewRecord ==
  \A n, m, k : [id |-> <<n, m>>, key |-> k] # NoRecord
<1> SUFFICES ASSUME NEW n, NEW m, NEW k, [id |-> <<n, m>>, key |-> k] = NoRecord PROVE FALSE
  OBVIOUS
<1>1. <<n, m>> = <<>>
  BY DEF NoRecord
<1>2. QED
  BY <1>1

(* Set and import leave a vault in order, with every recipient's keys. *)
LEMMA UpsertIs ==
  ASSUME NEW s, SecretsOk(s), NEW v, VaultOk(v, s), ops \in Nat, NEW ns \in SUBSET Names,
         NEW new, new = UpsertMany(v, s, ns)
  PROVE  /\ SecretsOk(new.secrets) /\ VaultOk(new.vault, new.secrets)
         /\ \A n \in Present(s) : n \in Present(new.secrets) /\ new.secrets[n].id = s[n].id
         /\ DOMAIN new.vault.rcpts = DOMAIN v.rcpts
         /\ \A i \in DOMAIN v.rcpts : Keeps(v, new.vault, i)
<1> DEFINE id(n)  == IF s[n] = NoRecord THEN <<n, ops + 1>> ELSE s[n].id
           sdk(n) == IF id(n) \in DOMAIN v.wraps THEN v.wraps[id(n)].sdk ELSE Sdk(n)
           K      == [i \in {id(n) : n \in ns} |-> sdk(i[1])]
           t      == [n \in Names |-> IF n \in ns THEN [id |-> id(n), key |-> sdk(n)] ELSE s[n]]
           w      == Wrap(v, K)
<1>0. new.vault = w /\ new.secrets = t
  BY DEF UpsertMany
<1>1. /\ v \in Vaults /\ v.wraps \in Bunch([sdk : Sdks, under : Deks])
      /\ DOMAIN v.wraps = IdsOf(s) /\ s \in [Names -> Record]
  BY DEF VaultOk, Vaults, SecretsOk
<1>2. ASSUME NEW n \in ns
      PROVE  id(n) \in {n} \X Nat /\ id(n)[1] = n /\ id(n) \in Ids /\ sdk(n) \in Sdks
             /\ n \in Names
  <2>1. n \in Names
    OBVIOUS
  <2>2. id(n) \in {n} \X Nat
    BY <2>1 DEF SecretsOk, Present
  <2>3. \A i \in DOMAIN v.wraps : v.wraps[i] \in [sdk : Sdks, under : Deks]
    BY <1>1, BunchIs
  <2>4. Sdk(n) \in Sdks
    BY <2>1 DEF Sdk, Sdks
  <2> HIDE DEF id
  <2>5. QED
    BY <2>1, <2>2, <2>3, <2>4 DEF Ids
<1> HIDE DEF id, sdk
<1>3. ASSUME NEW n \in ns PROVE id(n) \in DOMAIN K /\ K[id(n)] = sdk(n)
  BY <1>2
<1>4. K \in Bunch(Sdks)
  <2>1. DOMAIN K \subseteq Ids /\ K = [i \in DOMAIN K |-> K[i]]
    BY <1>2
  <2>2. \A i \in DOMAIN K : K[i] \in Sdks
    BY <1>2, <1>3
  <2> HIDE DEF K
  <2>3. QED
    BY <2>1, <2>2, BunchIs
<1>5. \A i \in DOMAIN K : \E n \in ns : i = id(n)
  OBVIOUS
<1> HIDE DEF K
<1>6. \A i \in DOMAIN K \cap DOMAIN v.wraps : K[i] = v.wraps[i].sdk
  BY <1>3, <1>5 DEF sdk
<1>w. w = Wrap(v, K)
  OBVIOUS
<1> HIDE DEF w
<1>7. /\ w \in Vaults /\ w.old = FALSE /\ w.dek = v.dek /\ w.shared = v.shared
      /\ DOMAIN w.wraps = DOMAIN v.wraps \cup DOMAIN K
      /\ \A i \in DOMAIN K : w.wraps[i].sdk = K[i] /\ w.wraps[i].under = v.dek
      /\ \A i \in DOMAIN v.wraps \ DOMAIN K : w.wraps[i] = v.wraps[i]
      /\ DOMAIN w.rcpts = DOMAIN v.rcpts /\ (w.rcpts # <<>> => v.rcpts # <<>>)
      /\ \A i \in DOMAIN v.rcpts : Ok(w, w.rcpts[i]) /\ Keeps(v, w, i)
  <2>1. Wrapped(v, K, w)
    BY <1>4, <1>6, <1>w, WrapIs
  <2>2. QED
    BY <2>1 DEF Wrapped
<1>8. ASSUME NEW n \in Names
      PROVE  /\ n \in ns => t[n].id = id(n) /\ t[n].key = sdk(n) /\ t[n] # NoRecord
                            /\ t[n] \in Record
             /\ n \notin ns => t[n] = s[n] /\ t[n] \in Record
  <2>1. CASE n \in ns
    <3>1. t[n] = [id |-> id(n), key |-> sdk(n)]
      BY <2>1
    <3>2. \A x \in {n} \X Nat : x = <<x[1], x[2]>>
      OBVIOUS
    <3>3. t[n] # NoRecord
      BY <1>2, <2>1, <3>1, <3>2, NewRecord
    <3>4. t[n] \in Record
      BY <1>2, <2>1, <3>1 DEF Record
    <3>5. QED
      BY <2>1, <3>1, <3>3, <3>4
  <2>2. CASE n \notin ns
    BY <1>1, <2>2
  <2>3. QED
    BY <2>1, <2>2
<1>9. t \in [Names -> Record]
  BY <1>8
<1> HIDE DEF t
<1>10. Present(t) = Present(s) \cup ns
  BY <1>8, <1>9 DEF Present
<1>11. \A n \in Present(s) : n \in ns => id(n) = s[n].id
  BY DEF id, Present
<1>12. \A n \in Present(t) : t[n].id = (IF n \in ns THEN id(n) ELSE s[n].id) /\ n \in Names
  BY <1>8 DEF Present
<1>13. SecretsOk(t)
  <2>1. ASSUME NEW n \in Present(t) PROVE t[n].id \in {n} \X Nat
    <3>1. CASE n \in ns
      BY <1>2, <1>12, <3>1
    <3>2. CASE n \notin ns
      BY <1>10, <1>12, <3>2 DEF SecretsOk
    <3>3. QED
      BY <3>1, <3>2
  <2>2. QED
    BY <1>9, <2>1 DEF SecretsOk
<1>14. DOMAIN w.wraps = IdsOf(t)
  <2>1. \A i \in DOMAIN K : i \in IdsOf(t)
    BY <1>5, <1>10, <1>12 DEF IdsOf
  <2>2. \A i \in IdsOf(s) : i \in IdsOf(t)
    BY <1>10, <1>11, <1>12 DEF IdsOf
  <2>3. \A i \in IdsOf(t) : i \in DOMAIN K \/ i \in IdsOf(s)
    BY <1>3, <1>10, <1>12 DEF IdsOf
  <2>4. QED
    BY <1>1, <1>7, <2>1, <2>2, <2>3
<1>15. ASSUME NEW n \in Present(t)
       PROVE  w.wraps[t[n].id].sdk = t[n].key /\ w.wraps[t[n].id].under = w.dek
  <2>0. n \in Names
    BY DEF Present
  <2>1. CASE n \in ns
    BY <1>3, <1>7, <1>8, <2>0, <2>1
  <2>2. CASE n \notin ns
    <3>1. n \in Present(s) /\ t[n] = s[n] /\ s[n].id \in {n} \X Nat /\ s[n].id \in DOMAIN v.wraps
      BY <1>1, <1>8, <1>10, <2>0, <2>2 DEF SecretsOk, IdsOf
    <3>2. s[n].id \notin DOMAIN K
      BY <1>2, <1>5, <2>2, <3>1
    <3>3. QED
      BY <1>7, <3>1, <3>2 DEF VaultOk
  <2>3. QED
    BY <2>1, <2>2
<1>16. VaultOk(w, t)
  <2>1. w.rcpts # <<>> => w.shared
    BY <1>7 DEF VaultOk
  <2>2. QED
    BY <1>7, <1>14, <1>15, <2>1 DEF VaultOk
<1>17. \A n \in Present(s) : n \in Present(t) /\ t[n].id = s[n].id
  BY <1>10, <1>11, <1>12
<1>18. QED
  BY <1>0, <1>7, <1>13, <1>16, <1>17

(* Every record has a key of its own already. *)
LEMMA MigrateIs ==
  ASSUME NEW s, SecretsOk(s), NEW v, VaultOk(v, s)
  PROVE  MigrateAll(v, s).vault = v /\ MigrateAll(v, s).secrets = s
<1>1. Unwrapped(v, s) = {}
  BY DEF Unwrapped, VaultOk, IdsOf
<1>2. MigrateAll(v, s).vault = v
  BY <1>1 DEF MigrateAll
<1>3. MigrateAll(v, s).secrets = [n \in Names |-> s[n]]
  BY <1>1 DEF MigrateAll
<1>4. QED
  BY <1>2, <1>3 DEF SecretsOk

Dropping(v, id) ==
  LET drop(r) == [r EXCEPT !.sdks = Without(@, {id})]
  IN  Sealed([Each(v, drop) EXCEPT !.wraps = Without(v.wraps, {id})])

(* The same recipients, with the keys they had of the records of t. *)
Leaves(v, w, t) ==
  /\ SecretsOk(t) /\ VaultOk(w, t)
  /\ DOMAIN w.rcpts = DOMAIN v.rcpts
  /\ \A i \in DOMAIN v.rcpts : w.rcpts[i].fp = v.rcpts[i].fp
  /\ \A q : Follows(v, w, q, IdsOf(t))

(* So does the removal of a secret, but for its own keys. *)
LEMMA UnsetIs ==
  ASSUME NEW s, SecretsOk(s), NEW v, VaultOk(v, s), NEW n \in Present(s),
         NEW w, w = Dropping(v, s[n].id), NEW t, t = [s EXCEPT ![n] = NoRecord]
  PROVE  Leaves(v, w, t)
<1> DEFINE id   == s[n].id
           r(i) == v.rcpts[i]
           R    == [i \in DOMAIN v.rcpts |-> [r(i) EXCEPT !.sdks = Without(r(i).sdks, {id})]]
           W    == Without(v.wraps, {id})
           u    == [v EXCEPT !.rcpts = R, !.wraps = W]
<1>0. /\ v \in Vaults /\ v.old = FALSE /\ v.wraps \in Bunch([sdk : Sdks, under : Deks])
      /\ s \in [Names -> Record] /\ n \in Names /\ DOMAIN v.wraps = IdsOf(s)
  BY DEF VaultOk, Vaults, SecretsOk, Present
<1>1. /\ v.rcpts \in Seq(Rcpt)
      /\ \A i \in DOMAIN v.rcpts : r(i) \in Rcpt /\ r(i).sdks \in Bunch(Sdks) /\ Ok(v, r(i))
  BY <1>0, RcptsAre DEF VaultOk, Rcpt
<1>2. w = Sealed(u)
  <2> HIDE DEF W
  <2>1. QED
    BY DEF Dropping, Each, W
<1>3. ASSUME NEW i \in DOMAIN v.rcpts
      PROVE  /\ R[i] \in Rcpt /\ R[i].fp = r(i).fp /\ R[i].dek = r(i).dek
             /\ R[i].full = r(i).full /\ R[i].by = r(i).by
             /\ DOMAIN R[i].sdks = DOMAIN r(i).sdks \ {id}
             /\ \A k \in DOMAIN R[i].sdks : R[i].sdks[k] = r(i).sdks[k]
  <2> DEFINE x == Without(r(i).sdks, {id})
  <2>1. /\ x \in Bunch(Sdks) /\ DOMAIN x = DOMAIN r(i).sdks \ {id}
        /\ \A k \in DOMAIN x : x[k] = r(i).sdks[k]
    <3>1. r(i).sdks \in Bunch(Sdks) /\ x = Without(r(i).sdks, {id})
      BY <1>1
    <3> HIDE DEF x
    <3>2. x \in Bunch(Sdks)
      BY <3>1, WithoutIs
    <3>3. QED
      BY <3>1, <3>2 DEF Without
  <2>2. R[i] = [r(i) EXCEPT !.sdks = x]
    OBVIOUS
  <2> HIDE DEF x, R
  <2>3. /\ R[i] \in Rcpt /\ R[i].fp = r(i).fp /\ R[i].dek = r(i).dek
        /\ R[i].full = r(i).full /\ R[i].by = r(i).by /\ R[i].sdks = x
    BY <1>1, <2>1, <2>2 DEF Rcpt
  <2>4. QED
    BY <2>1, <2>3
<1>4. R \in Seq(Rcpt) /\ Len(R) = Len(v.rcpts) /\ DOMAIN R = DOMAIN v.rcpts
  <2>1. R = [i \in DOMAIN v.rcpts |-> R[i]] /\ DOMAIN R = DOMAIN v.rcpts
    OBVIOUS
  <2> HIDE DEF R
  <2>2. QED
    BY <1>1, <1>3, <2>1, EachIs
<1>5. /\ W \in Bunch([sdk : Sdks, under : Deks]) /\ DOMAIN W = DOMAIN v.wraps \ {id}
      /\ \A i \in DOMAIN W : W[i] = v.wraps[i]
  <2>1. W = Without(v.wraps, {id})
    OBVIOUS
  <2> HIDE DEF W
  <2>2. W \in Bunch([sdk : Sdks, under : Deks])
    BY <1>0, <2>1, WithoutIs
  <2>3. QED
    BY <2>1, <2>2 DEF Without
<1> HIDE DEF R, W
<1>6. /\ u \in Vaults /\ u.old = FALSE /\ u.shared = v.shared /\ u.dek = v.dek /\ u.wraps = W
      /\ u.rcpts = R /\ u.signers = v.signers
  BY <1>0, <1>4, <1>5 DEF Vaults
<1>7. w = u
  BY <1>2, <1>6, SealedIs
<1> HIDE DEF u
<1>8. /\ t \in [Names -> Record] /\ t[n] = NoRecord
      /\ \A m \in Names \ {n} : t[m] = s[m]
  <2>1. NoRecord \in Record
    BY DEF NoRecord, Record
  <2>2. QED
    BY <1>0, <2>1
<1>9. Present(t) = Present(s) \ {n} /\ (\A m \in Present(t) : t[m] = s[m])
  BY <1>8 DEF Present
<1>10. SecretsOk(t)
  BY <1>8, <1>9 DEF SecretsOk
<1>11. \A m \in Present(s) : m # n => s[m].id # id
  <2>1. \A m \in Present(s) : s[m].id \in {m} \X Nat
    BY DEF SecretsOk
  <2>2. QED
    BY <2>1
<1>12. IdsOf(t) = IdsOf(s) \ {id}
  <2>1. ASSUME NEW x \in IdsOf(t) PROVE x \in IdsOf(s) /\ x # id
    <3>1. PICK m \in Present(t) : x = t[m].id
      BY DEF IdsOf
    <3>2. QED
      BY <1>9, <1>11, <3>1 DEF IdsOf
  <2>2. ASSUME NEW x \in IdsOf(s), x # id PROVE x \in IdsOf(t)
    <3>1. PICK m \in Present(s) : x = s[m].id
      BY DEF IdsOf
    <3>2. m \in Present(t) /\ t[m] = s[m]
      BY <1>9, <2>2, <3>1
    <3>3. QED
      BY <3>1, <3>2 DEF IdsOf
  <2>3. QED
    BY <2>1, <2>2
<1>13. ASSUME NEW i \in DOMAIN R PROVE Ok(u, R[i])
  BY <1>1, <1>3, <1>4, <1>5, <1>6, <1>13 DEF Ok, MayGet, ValidGrant
<1>14. ASSUME NEW m \in Present(t)
       PROVE  u.wraps[t[m].id].sdk = t[m].key /\ u.wraps[t[m].id].under = u.dek
  <2>1. m \in Present(s) /\ t[m] = s[m] /\ s[m].id \in DOMAIN W
    BY <1>0, <1>5, <1>9, <1>11 DEF IdsOf
  <2>2. QED
    BY <1>5, <1>6, <2>1 DEF VaultOk
<1>15. VaultOk(u, t)
  <2>1. R # <<>> => v.rcpts # <<>>
    BY <1>4
  <2>2. DOMAIN u.wraps = IdsOf(t)
    BY <1>0, <1>5, <1>6, <1>12
  <2>3. u.rcpts # <<>> => u.shared
    BY <1>6, <2>1 DEF VaultOk
  <2>4. QED
    BY <1>6, <1>13, <1>14, <2>2, <2>3 DEF VaultOk
<1>16. ASSUME NEW q PROVE Follows(v, u, q, IdsOf(t))
  BY <1>3, <1>4, <1>6, <1>12, KeepFollow
<1>17. QED
  BY <1>3, <1>4, <1>6, <1>7, <1>10, <1>15, <1>16 DEF Leaves

-----------------------------------------------------------------------------
(* The commands that share and revoke.                                       *)

(* Where the entries of w were in v, without entry i. *)
Came(i, k) == IF k < i THEN k ELSE k + 1

(* The vault without entry i: the others are as they were. *)
LEMMA DroppedIs ==
  ASSUME NEW v \in Vaults, NEW i \in DOMAIN v.rcpts, NEW w, w = Dropped(v, i)
  PROVE  /\ w \in Vaults /\ w.old = v.old /\ w.shared = v.shared /\ w.dek = v.dek
         /\ w.wraps = v.wraps /\ w.signers = v.signers
         /\ Len(w.rcpts) = Len(v.rcpts) - 1
         /\ \A k \in DOMAIN w.rcpts : w.rcpts[k] = v.rcpts[Came(i, k)]
<1> DEFINE q == v.rcpts
           a == SubSeq(q, 1, i - 1)
           b == SubSeq(q, i + 1, Len(q))
           c == a \o b
<1>1. /\ q \in Seq(Rcpt) /\ Len(q) \in Nat /\ i \in 1 .. Len(q) /\ DOMAIN q = 1 .. Len(q)
      /\ \A k \in 1 .. Len(q) : q[k] \in Rcpt
  BY RcptsAre
<1>2. a \in Seq(Rcpt) /\ Len(a) = i - 1 /\ \A k \in 1 .. i - 1 : a[k] = q[k]
  <2> HIDE DEF q
  <2>1. 1 \in Int /\ i - 1 \in Int /\ \A k \in 1 .. i - 1 : q[k] \in Rcpt
    BY <1>1
  <2>2. /\ a \in Seq(Rcpt) /\ Len(a) = (IF 1 <= i - 1 THEN i - 1 - 1 + 1 ELSE 0)
        /\ \A k \in 1 .. i - 1 - 1 + 1 : a[k] = q[1 + k - 1]
    BY <2>1, SubSeqProperties
  <2>3. QED
    BY <1>1, <2>2
<1>3. b \in Seq(Rcpt) /\ Len(b) = Len(q) - i /\ \A k \in 1 .. Len(q) - i : b[k] = q[i + k]
  <2> HIDE DEF q
  <2>1. i + 1 \in Int /\ Len(q) \in Int /\ \A k \in i + 1 .. Len(q) : q[k] \in Rcpt
    BY <1>1
  <2>2. /\ b \in Seq(Rcpt) /\ Len(b) = (IF i + 1 <= Len(q) THEN Len(q) - (i + 1) + 1 ELSE 0)
        /\ \A k \in 1 .. Len(q) - (i + 1) + 1 : b[k] = q[i + 1 + k - 1]
    BY <2>1, SubSeqProperties
  <2>3. QED
    BY <1>1, <2>2
<1> HIDE DEF a, b, q
<1>4. /\ c \in Seq(Rcpt) /\ Len(c) = Len(a) + Len(b)
      /\ \A k \in 1 .. Len(a) + Len(b) : c[k] = IF k <= Len(a) THEN a[k] ELSE b[k - Len(a)]
  BY <1>2, <1>3, ConcatProperties
<1> HIDE DEF c
<1>5. DOMAIN c = 1 .. Len(c) /\ Len(c) = Len(q) - 1
  BY <1>1, <1>2, <1>3, <1>4, LenProperties
<1>6. ASSUME NEW k \in DOMAIN c PROVE c[k] = q[Came(i, k)]
  <2>1. k \in 1 .. Len(q) - 1
    BY <1>5
  <2>2. CASE k < i
    BY <1>1, <1>2, <1>3, <1>4, <2>1, <2>2 DEF Came
  <2>3. CASE ~(k < i)
    <3>1. k - Len(a) \in 1 .. Len(q) - i /\ i + (k - Len(a)) = k + 1
      BY <1>1, <1>2, <2>1, <2>3
    <3>2. c[k] = b[k - Len(a)]
      BY <1>1, <1>2, <1>3, <1>4, <2>1, <2>3
    <3>3. QED
      BY <1>3, <2>3, <3>1, <3>2 DEF Came
  <2>4. QED
    BY <2>2, <2>3
<1>7. w = [v EXCEPT !.rcpts = c]
  BY DEF Dropped, RemoveAt, a, b, c, q
<1>8. /\ w \in Vaults /\ w.rcpts = c /\ w.old = v.old /\ w.shared = v.shared /\ w.dek = v.dek
      /\ w.wraps = v.wraps /\ w.signers = v.signers
  BY <1>4, <1>7 DEF Vaults
<1>9. QED
  BY <1>5, <1>6, <1>8 DEF q

(* Where the entries after entry i were: Came is one to one, and misses i. *)
LEMMA CameIs ==
  ASSUME NEW m \in Nat, NEW i \in 1 .. m
  PROVE  /\ \A k \in 1 .. m - 1 : Came(i, k) \in 1 .. m /\ Came(i, k) # i
         /\ \A k, l \in 1 .. m - 1 : Came(i, k) = Came(i, l) => k = l
         /\ \A j \in 1 .. m : j # i => \E k \in 1 .. m - 1 : Came(i, k) = j
<1>1. ASSUME NEW j \in 1 .. m, j # i PROVE \E k \in 1 .. m - 1 : Came(i, k) = j
  <2> DEFINE k == IF j < i THEN j ELSE j - 1
  <2>1. k \in 1 .. m - 1 /\ Came(i, k) = j
    BY <1>1 DEF Came
  <2>2. QED
    BY <2>1
<1>2. QED
  BY <1>1 DEF Came

(* Revoking entry i rewraps the project key for all others. *)
LEMMA RevokedIs ==
  ASSUME NEW s, SecretsOk(s), NEW v, VaultOk(v, s), ops \in Nat,
         NEW i \in DOMAIN v.rcpts, NEW w, w = RevokedAndRotated(v, i)
  PROVE  /\ VaultOk(w, s)
         /\ DOMAIN v.rcpts = 1 .. Len(v.rcpts) /\ Len(v.rcpts) \in Nat
         /\ DOMAIN w.rcpts = 1 .. Len(v.rcpts) - 1
         /\ \A k \in DOMAIN w.rcpts : w.rcpts[k].fp = v.rcpts[Came(i, k)].fp
                                     /\ w.rcpts[k].sdks = v.rcpts[Came(i, k)].sdks
<1> DEFINE u == Dropped(v, i)
<1>0. v \in Vaults /\ v.old = FALSE
  BY DEF VaultOk
<1>1. /\ v.rcpts \in Seq(Rcpt) /\ Len(v.rcpts) \in Nat /\ DOMAIN v.rcpts = 1 .. Len(v.rcpts)
      /\ \A k \in DOMAIN v.rcpts : Ok(v, v.rcpts[k])
  BY <1>0, RcptsAre DEF VaultOk
<1>u. u = Dropped(v, i)
  OBVIOUS
<1>w. w = Rotated(u)
  BY DEF RevokedAndRotated
<1> HIDE DEF u
<1>2. /\ u \in Vaults /\ u.old = v.old /\ u.shared = v.shared /\ u.dek = v.dek
      /\ u.wraps = v.wraps /\ u.signers = v.signers
      /\ Len(u.rcpts) = Len(v.rcpts) - 1
      /\ \A k \in DOMAIN u.rcpts : u.rcpts[k] = v.rcpts[Came(i, k)]
  BY <1>0, <1>u, DroppedIs
<1>3. DOMAIN u.rcpts = 1 .. Len(v.rcpts) - 1
  BY <1>2, RcptsAre
<1>4. \A k \in DOMAIN u.rcpts : Came(i, k) \in DOMAIN v.rcpts
  BY <1>1, <1>3, CameIs
<1>5. ASSUME NEW k \in DOMAIN u.rcpts PROVE Ok(u, u.rcpts[k])
  <2> DEFINE r == v.rcpts[Came(i, k)]
  <2>1. u.rcpts[k] = r /\ Ok(v, r)
    BY <1>1, <1>2, <1>4
  <2> HIDE DEF r
  <2>2. Ok(u, r)
    BY <1>2, <2>1 DEF Ok, MayGet
  <2>3. QED
    BY <2>1, <2>2
<1>6. VaultOk(u, s)
  <2>1. u.shared
    BY <1>1, <1>2 DEF VaultOk
  <2>2. QED
    BY <1>0, <1>2, <1>5, <2>1 DEF VaultOk
<1>7. /\ VaultOk(w, s) /\ DOMAIN w.rcpts = DOMAIN u.rcpts
      /\ \A k \in DOMAIN u.rcpts : w.rcpts[k].fp = u.rcpts[k].fp
                                  /\ w.rcpts[k].sdks = u.rcpts[k].sdks
  BY <1>w, <1>6, RotatedIs
<1>8. QED
  BY <1>1, <1>2, <1>3, <1>7

(* A revocation keeps the keys of everyone else. *)
LEMMA RevokedFollow ==
  ASSUME NEW v, NEW w, NEW m \in Nat, NEW i \in 1 .. m,
         DOMAIN v.rcpts = 1 .. m, DOMAIN w.rcpts = 1 .. m - 1,
         \A k \in DOMAIN w.rcpts : w.rcpts[k].fp = v.rcpts[Came(i, k)].fp
                                  /\ w.rcpts[k].sdks = v.rcpts[Came(i, k)].sdks,
         NEW q, q # v.rcpts[i].fp[1], NEW ids
  PROVE  Follows(v, w, q, ids)
<1> SUFFICES ASSUME NEW j \in DOMAIN v.rcpts, Only(v, q, j)
             PROVE  \E k \in DOMAIN w.rcpts :
                      /\ Only(w, q, k) /\ w.rcpts[k].fp = v.rcpts[j].fp
                      /\ ids \cap DOMAIN v.rcpts[j].sdks \subseteq DOMAIN w.rcpts[k].sdks
  BY DEF Follows
<1>1. j # i
  BY DEF Only
<1>0. /\ \A k \in 1 .. m - 1 : Came(i, k) \in 1 .. m
      /\ \A k, l \in 1 .. m - 1 : Came(i, k) = Came(i, l) => k = l
      /\ \A x \in 1 .. m : x # i => \E k \in 1 .. m - 1 : Came(i, k) = x
  BY CameIs
<1>2. PICK k \in DOMAIN w.rcpts : Came(i, k) = j
  BY <1>0, <1>1
<1>3. Only(w, q, k)
  <2> SUFFICES ASSUME NEW l \in DOMAIN w.rcpts PROVE w.rcpts[l].fp[1] = q <=> l = k
    BY DEF Only
  <2>1. Came(i, l) \in DOMAIN v.rcpts /\ (Came(i, l) = j <=> l = k)
    BY <1>0, <1>2
  <2>2. QED
    BY <2>1 DEF Only
<1>4. QED
  BY <1>2, <1>3

(* q is the recipients of v with r instead of the entry of its fingerprint, or
   at the end if there is none: at j. *)
Put(v, r, q, j) ==
  /\ q \in Seq(Rcpt) /\ j \in DOMAIN q /\ q[j] = r
  /\ DOMAIN q = DOMAIN v.rcpts \cup {j}
  /\ j \in DOMAIN v.rcpts => v.rcpts[j].fp = r.fp
  /\ j \notin DOMAIN v.rcpts => \A i \in DOMAIN v.rcpts : v.rcpts[i].fp # r.fp
  /\ \A i \in DOMAIN v.rcpts : i # j => q[i] = v.rcpts[i]

(* An entry takes the place of the one with its fingerprint, or is appended. *)
LEMMA PutIs ==
  ASSUME NEW v \in Vaults, NEW r \in Rcpt, NEW q,
         q = IF At(v, r.fp) # 0 THEN [v.rcpts EXCEPT ![At(v, r.fp)] = r]
             ELSE Append(v.rcpts, r)
  PROVE  \E j : Put(v, r, q, j)
<1> DEFINE a == At(v, r.fp)
           c == v.rcpts
<1>1. /\ c \in Seq(Rcpt) /\ Len(c) \in Nat /\ DOMAIN c = 1 .. Len(c)
      /\ \A i \in DOMAIN c : c[i] \in Rcpt
  BY RcptsAre
<1>2. /\ a \in 0 .. Len(c) /\ (a # 0 => c[a].fp = r.fp)
      /\ a = 0 => \A i \in DOMAIN c : c[i].fp # r.fp
  BY <1>1, AtIs
<1>3. CASE a # 0
  <2>1. q = [c EXCEPT ![a] = r] /\ a \in 1 .. Len(c)
    BY <1>1, <1>2, <1>3
  <2> HIDE DEF a, c
  <2>2. /\ q \in Seq(Rcpt) /\ Len(q) = Len(c)
        /\ \A j \in 1 .. Len(c) : q[j] = IF j = a THEN r ELSE c[j]
    <3> DEFINE e == [c EXCEPT ![a] = r]
    <3>1. e \in Seq(Rcpt) /\ Len(e) = Len(c)
      BY <1>1, <2>1, ExceptSeq
    <3>2. \A j \in 1 .. Len(c) : e[j] = IF j = a THEN r ELSE c[j]
      BY <1>1, <2>1
    <3>3. QED
      BY <2>1, <3>1, <3>2
  <2>3. DOMAIN q = 1 .. Len(q)
    BY <2>2, LenProperties
  <2>4. Put(v, r, q, a)
    BY <1>1, <1>2, <1>3, <2>1, <2>2, <2>3 DEF Put, c
  <2>5. QED
    BY <2>4
<1>4. CASE a = 0
  <2>1. q = Append(c, r)
    BY <1>4
  <2> HIDE DEF a, c
  <2>2. /\ q \in Seq(Rcpt) /\ Len(q) = Len(c) + 1
        /\ (\A i \in 1 .. Len(c) : q[i] = c[i]) /\ q[Len(c) + 1] = r
    <3>1. /\ Append(c, r) \in Seq(Rcpt) /\ Len(Append(c, r)) = Len(c) + 1
          /\ \A i \in 1 .. Len(c) : Append(c, r)[i] = c[i]
          /\ Append(c, r)[Len(c) + 1] = r
      BY <1>1, AppendProperties
    <3>2. QED
      BY <2>1, <3>1
  <2>3. DOMAIN q = 1 .. Len(q)
    BY <2>2, LenProperties
  <2>4. Put(v, r, q, Len(c) + 1)
    <3>1. DOMAIN q = DOMAIN c \cup {Len(c) + 1}
      BY <1>1, <2>2, <2>3
    <3>2. QED
      BY <1>1, <1>2, <1>4, <2>2, <3>1 DEF Put, c
  <2>5. QED
    BY <2>4
<1>5. QED
  BY <1>3, <1>4

(* w is u with one more signer and a valid grant for every recipient. *)
BlessedBy(u, signer, w) ==
  /\ w \in Vaults /\ w.old = FALSE /\ w.shared = u.shared /\ w.dek = u.dek
  /\ w.wraps = u.wraps /\ w.signers = u.signers \cup {signer}
  /\ DOMAIN w.rcpts = DOMAIN u.rcpts
  /\ \A i \in DOMAIN u.rcpts :
       /\ w.rcpts[i].fp = u.rcpts[i].fp /\ w.rcpts[i].dek = u.rcpts[i].dek
       /\ w.rcpts[i].sdks = u.rcpts[i].sdks /\ w.rcpts[i].full = u.rcpts[i].full
       /\ w.rcpts[i].by \in w.signers

(* The first signer blesses the grants that were there. *)
LEMMA BlessedIs ==
  ASSUME NEW u \in Vaults, u.old = FALSE, NEW signer \in Fps,
         NEW w, w = Sealed(Blessed(u, signer))
  PROVE  BlessedBy(u, signer, w)
<1> DEFINE signers == u.signers \cup {signer}
           r(i) == u.rcpts[i]
           R == [i \in DOMAIN u.rcpts |->
                   IF ValidGrant(r(i), signers) THEN r(i) ELSE [r(i) EXCEPT !.by = signer]]
           x == [u EXCEPT !.rcpts = R, !.signers = signers]
<1>1. u.rcpts \in Seq(Rcpt) /\ \A i \in DOMAIN u.rcpts : r(i) \in Rcpt
  BY RcptsAre
<1>2. w = Sealed(x)
  <2> HIDE DEF signers
  <2>1. QED
    BY DEF Blessed, Each, signers
<1>3. ASSUME NEW i \in DOMAIN u.rcpts
      PROVE  /\ R[i] \in Rcpt /\ R[i].fp = r(i).fp /\ R[i].dek = r(i).dek
             /\ R[i].sdks = r(i).sdks /\ R[i].full = r(i).full /\ R[i].by \in signers
  <2>1. CASE ValidGrant(r(i), signers)
    BY <1>1, <2>1 DEF ValidGrant
  <2>2. CASE ~ValidGrant(r(i), signers)
    <3>1. R[i] = [r(i) EXCEPT !.by = signer]
      BY <2>2
    <3> HIDE DEF R
    <3>2. QED
      BY <1>1, <3>1 DEF Rcpt
  <2>3. QED
    BY <2>1, <2>2
<1>4. R \in Seq(Rcpt) /\ DOMAIN R = DOMAIN u.rcpts
  <2>1. R = [i \in DOMAIN u.rcpts |-> R[i]] /\ DOMAIN R = DOMAIN u.rcpts
    OBVIOUS
  <2> HIDE DEF R
  <2>2. QED
    BY <1>1, <1>3, <2>1, EachIs
<1> HIDE DEF R
<1>5. /\ x \in Vaults /\ x.old = FALSE /\ x.shared = u.shared /\ x.dek = u.dek
      /\ x.wraps = u.wraps /\ x.rcpts = R /\ x.signers = signers
  BY <1>4 DEF Vaults
<1>6. w = x
  BY <1>2, <1>5, SealedIs
<1>7. QED
  BY <1>3, <1>4, <1>5, <1>6 DEF BlessedBy

(* The keys of the records that were asked for, as far as there are any. *)
LEMMA AllowedIs ==
  ASSUME NEW v \in Vaults, NEW ids, NEW f, f = Allowed(v, ids)
  PROVE  /\ f \in Bunch(Sdks) /\ DOMAIN f = ids \cap DOMAIN v.wraps
         /\ \A i \in DOMAIN f : f[i] = v.wraps[i].sdk
<1>1. v.wraps \in Bunch([sdk : Sdks, under : Deks])
  BY DEF Vaults
<1>2. DOMAIN v.wraps \subseteq Ids /\ \A i \in DOMAIN v.wraps : v.wraps[i] \in [sdk : Sdks, under : Deks]
  BY <1>1, BunchIs
<1>3. /\ DOMAIN f = ids \cap DOMAIN v.wraps /\ f = [i \in DOMAIN f |-> f[i]]
      /\ \A i \in DOMAIN f : f[i] = v.wraps[i].sdk
  BY DEF Allowed
<1>4. \A i \in DOMAIN f : f[i] \in Sdks
  BY <1>2, <1>3
<1>5. f \in Bunch(Sdks)
  BY <1>2, <1>3, <1>4, BunchIs
<1>6. QED
  BY <1>3, <1>5

(* w is v with an entry at j for the fingerprint fp; the others have what they
   had. *)
GrantedAt(v, w, fp, full, j) ==
  /\ j \in DOMAIN w.rcpts /\ DOMAIN w.rcpts = DOMAIN v.rcpts \cup {j}
  /\ w.rcpts[j].fp = fp /\ w.rcpts[j].full = full
  /\ j \in DOMAIN v.rcpts => v.rcpts[j].fp = fp
  /\ j \notin DOMAIN v.rcpts => \A i \in DOMAIN v.rcpts : v.rcpts[i].fp # fp
  /\ \A i \in DOMAIN v.rcpts : i # j => /\ w.rcpts[i].fp = v.rcpts[i].fp
                                        /\ w.rcpts[i].sdks = v.rcpts[i].sdks

(* A grant leaves a vault in order, with one entry put there. *)
LEMMA GrantedIs ==
  ASSUME NEW s, SecretsOk(s), NEW v, VaultOk(v, s), NEW fp \in Fps, NEW ids,
         NEW full \in BOOLEAN, NEW signer \in Fps,
         NEW w, w = Granted(v, fp, ids, full, signer)
  PROVE  VaultOk(w, s) /\ \E j : GrantedAt(v, w, fp, full, j)
<1> DEFINE sdks == Allowed(v, IF full THEN DOMAIN v.wraps ELSE ids)
           dek  == IF full THEN v.dek ELSE NoKey
           r == [fp |-> fp, dek |-> dek, sdks |-> sdks, full |-> full, by |-> signer]
           q == IF At(v, fp) # 0 THEN [v.rcpts EXCEPT ![At(v, fp)] = r] ELSE Append(v.rcpts, r)
           u == [v EXCEPT !.shared = TRUE, !.rcpts = q]
<1>0. v \in Vaults /\ v.old = FALSE /\ v.dek \in Deks
  BY DEF VaultOk, Vaults
<1>1. /\ v.rcpts \in Seq(Rcpt)
      /\ \A i \in DOMAIN v.rcpts : v.rcpts[i] \in Rcpt /\ Ok(v, v.rcpts[i])
  BY <1>0, RcptsAre DEF VaultOk
<1>2. /\ sdks \in Bunch(Sdks)
      /\ DOMAIN sdks = (IF full THEN DOMAIN v.wraps ELSE ids \cap DOMAIN v.wraps)
      /\ \A i \in DOMAIN sdks : i \in DOMAIN v.wraps /\ sdks[i] = v.wraps[i].sdk
  <2> DEFINE all == IF full THEN DOMAIN v.wraps ELSE ids
  <2>1. sdks = Allowed(v, all)
    OBVIOUS
  <2>2. all \cap DOMAIN v.wraps = IF full THEN DOMAIN v.wraps ELSE ids \cap DOMAIN v.wraps
    OBVIOUS
  <2> HIDE DEF sdks, all
  <2>3. /\ sdks \in Bunch(Sdks) /\ DOMAIN sdks = all \cap DOMAIN v.wraps
        /\ \A i \in DOMAIN sdks : sdks[i] = v.wraps[i].sdk
    <3>1. sdks \in Bunch(Sdks)
      BY <1>0, <2>1, AllowedIs
    <3>2. QED
      BY <2>1, <3>1 DEF Allowed
  <2>4. QED
    BY <2>2, <2>3
<1>w. w = Sealed(Blessed(u, signer))
  <2> HIDE DEF sdks
  <2>1. QED
    BY DEF Granted, sdks
<1> HIDE DEF sdks
<1>3. dek \in Deks \cup {NoKey} /\ (full => dek = v.dek) /\ (~full => dek = NoKey)
  BY <1>0
<1> HIDE DEF dek
<1>4. /\ r \in Rcpt /\ r.fp = fp /\ r.dek = dek /\ r.sdks = sdks /\ r.full = full
  BY <1>2, <1>3 DEF Rcpt
<1>q. q = IF At(v, r.fp) # 0 THEN [v.rcpts EXCEPT ![At(v, r.fp)] = r] ELSE Append(v.rcpts, r)
  BY <1>4
<1> HIDE DEF r, q
<1>5. PICK j : Put(v, r, q, j)
  BY <1>0, <1>4, <1>q, PutIs
<1>6. /\ q \in Seq(Rcpt) /\ j \in DOMAIN q /\ q[j] = r
      /\ DOMAIN q = DOMAIN v.rcpts \cup {j}
      /\ j \in DOMAIN v.rcpts => v.rcpts[j].fp = r.fp
      /\ j \notin DOMAIN v.rcpts => \A i \in DOMAIN v.rcpts : v.rcpts[i].fp # r.fp
      /\ \A i \in DOMAIN v.rcpts : i # j => q[i] = v.rcpts[i]
  BY <1>5 DEF Put
<1>7. /\ u \in Vaults /\ u.old = FALSE /\ u.shared = TRUE /\ u.dek = v.dek /\ u.wraps = v.wraps
      /\ u.rcpts = q /\ u.signers = v.signers
  <2>1. \A b \in BOOLEAN : LET x == [v EXCEPT !.shared = b, !.rcpts = q] IN
          /\ x \in Vaults /\ x.old = FALSE /\ x.shared = b /\ x.dek = v.dek
          /\ x.wraps = v.wraps /\ x.rcpts = q /\ x.signers = v.signers
    BY <1>0, <1>6 DEF Vaults
  <2>2. QED
    BY <2>1
<1> HIDE DEF u
<1>8. /\ w \in Vaults /\ w.old = FALSE /\ w.shared = u.shared /\ w.dek = u.dek
      /\ w.wraps = u.wraps /\ w.signers = u.signers \cup {signer}
      /\ DOMAIN w.rcpts = DOMAIN u.rcpts
      /\ \A i \in DOMAIN u.rcpts :
           /\ w.rcpts[i].fp = u.rcpts[i].fp /\ w.rcpts[i].dek = u.rcpts[i].dek
           /\ w.rcpts[i].sdks = u.rcpts[i].sdks /\ w.rcpts[i].full = u.rcpts[i].full
           /\ w.rcpts[i].by \in w.signers
  <2>1. BlessedBy(u, signer, w)
    BY <1>7, <1>w, BlessedIs
  <2>2. QED
    BY <2>1 DEF BlessedBy
<1>9. ASSUME NEW i \in DOMAIN q
      PROVE  /\ q[i].dek \in {v.dek, NoKey}
             /\ q[i].full => q[i].dek = v.dek /\ DOMAIN q[i].sdks = DOMAIN v.wraps
             /\ \A k \in DOMAIN q[i].sdks : k \in DOMAIN v.wraps /\ q[i].sdks[k] = v.wraps[k].sdk
  <2>1. CASE i = j
    BY <1>2, <1>3, <1>4, <1>6, <2>1
  <2>2. CASE i # j
    BY <1>1, <1>6, <2>2 DEF Ok
  <2>3. QED
    BY <2>1, <2>2
<1>10. ASSUME NEW i \in DOMAIN w.rcpts PROVE Ok(w, w.rcpts[i])
  BY <1>7, <1>8, <1>9, <1>10 DEF Ok, MayGet, ValidGrant
<1>11. VaultOk(w, s)
  BY <1>7, <1>8, <1>10 DEF VaultOk
<1>12. GrantedAt(v, w, fp, full, j)
  BY <1>4, <1>6, <1>7, <1>8 DEF GrantedAt
<1>13. QED
  BY <1>11, <1>12

(* Nobody loses by a grant to somebody else. *)
LEMMA GrantedFollow ==
  ASSUME NEW v, NEW w, NEW fp, NEW full, NEW j, GrantedAt(v, w, fp, full, j),
         NEW q, q # fp[1], NEW ids
  PROVE  Follows(v, w, q, ids)
BY DEF Follows, GrantedAt, Only

(* w is the vault of the secrets s with the recipients R. *)
Changed(w, s, R) == VaultOk(w, s) /\ w.rcpts = R

(* A vault with other entries, as good as the old. *)
LEMMA ChangedIs ==
  ASSUME NEW s, NEW v, VaultOk(v, s), NEW R \in Seq(Rcpt), DOMAIN R = DOMAIN v.rcpts,
         \A i \in DOMAIN v.rcpts : Ok(v, R[i]),
         NEW w, w = Sealed([v EXCEPT !.rcpts = R])
  PROVE  Changed(w, s, R)
<1> DEFINE u == [v EXCEPT !.rcpts = R]
<1>0. v \in Vaults /\ v.old = FALSE
  BY DEF VaultOk
<1>1. v.rcpts \in Seq(Rcpt)
  BY <1>0, RcptsAre
<1>3. /\ u \in Vaults /\ u.old = FALSE /\ u.shared = v.shared /\ u.dek = v.dek
      /\ u.wraps = v.wraps /\ u.rcpts = R /\ u.signers = v.signers
  BY <1>0 DEF Vaults
<1>u. w = Sealed(u)
  OBVIOUS
<1> HIDE DEF u
<1>4. w = u
  BY <1>3, <1>u, SealedIs
<1>5. \A i \in DOMAIN R : Ok(u, R[i])
  BY <1>3 DEF Ok, MayGet
<1>6. R # <<>> => v.rcpts # <<>>
  BY <1>1
<1>7. VaultOk(u, s)
  BY <1>3, <1>5, <1>6 DEF VaultOk
<1>8. QED
  BY <1>3, <1>4, <1>7 DEF Changed

(* w is the vault of the secrets s, where everyone has what he had in v. *)
Added(v, w, s) ==
  /\ VaultOk(w, s) /\ DOMAIN w.rcpts = DOMAIN v.rcpts
  /\ \A j \in DOMAIN v.rcpts : Keeps(v, w, j)

(* `allow` adds one key to one entry. *)
LEMMA AddedIs ==
  ASSUME NEW s, NEW v, VaultOk(v, s), NEW i \in DOMAIN v.rcpts, NEW id \in DOMAIN v.wraps,
         NEW more, more = IF id \in DOMAIN v.rcpts[i].sdks THEN v.rcpts[i].sdks
                          ELSE Insert(v.rcpts[i].sdks, id, v.wraps[id].sdk),
         NEW w, w = Sealed([v EXCEPT !.rcpts[i].sdks = more, !.rcpts[i].full = FALSE])
  PROVE  Added(v, w, s)
<1> DEFINE r(j) == v.rcpts[j]
           one  == [k \in {id} |-> v.wraps[id].sdk]
           R    == [j \in DOMAIN v.rcpts |-> IF j = i THEN [r(i) EXCEPT !.sdks = more, !.full = FALSE]
                                             ELSE r(j)]
<1>0. v \in Vaults /\ v.wraps \in Bunch([sdk : Sdks, under : Deks])
  BY DEF VaultOk, Vaults
<1>1. /\ v.rcpts \in Seq(Rcpt)
      /\ \A j \in DOMAIN v.rcpts : r(j) \in Rcpt /\ r(j).sdks \in Bunch(Sdks) /\ Ok(v, r(j))
  BY <1>0, RcptsAre DEF VaultOk, Rcpt
<1>2. one \in Bunch(Sdks) /\ DOMAIN one = {id} /\ one[id] = v.wraps[id].sdk
  <2>1. DOMAIN v.wraps \subseteq Ids /\ \A k \in DOMAIN v.wraps : v.wraps[k] \in [sdk : Sdks, under : Deks]
    BY <1>0, BunchIs
  <2>2. DOMAIN one = {id} /\ one[id] = v.wraps[id].sdk /\ one = [k \in DOMAIN one |-> one[k]]
    OBVIOUS
  <2> HIDE DEF one
  <2>3. \A k \in DOMAIN one : one[k] \in Sdks
    BY <2>1, <2>2
  <2>4. DOMAIN one \subseteq Ids
    BY <2>1, <2>2
  <2>5. QED
    BY <2>2, <2>3, <2>4, BunchIs
<1>3. /\ more \in Bunch(Sdks) /\ DOMAIN more = DOMAIN r(i).sdks \cup {id}
      /\ \A k \in DOMAIN more : k \in DOMAIN v.wraps /\ more[k] = v.wraps[k].sdk
  <2>1. \A k \in DOMAIN r(i).sdks : k \in DOMAIN v.wraps /\ r(i).sdks[k] = v.wraps[k].sdk
    BY <1>1 DEF Ok
  <2>2. CASE id \in DOMAIN r(i).sdks
    BY <1>1, <2>1, <2>2
  <2>3. CASE id \notin DOMAIN r(i).sdks
    <3>1. more = Override(r(i).sdks, one)
      BY <2>3 DEF Insert
    <3>a. r(i).sdks \in Bunch(Sdks)
      BY <1>1
    <3> HIDE DEF one
    <3>b. Override(r(i).sdks, one) \in Bunch(Sdks)
      BY <1>2, <3>a, OverrideIs
    <3>2. more \in Bunch(Sdks)
      BY <3>1, <3>b
    <3>3. /\ DOMAIN more = DOMAIN r(i).sdks \cup DOMAIN one
          /\ \A k \in DOMAIN more : more[k] = IF k \in DOMAIN one THEN one[k] ELSE r(i).sdks[k]
      BY <3>1 DEF Override
    <3>4. QED
      BY <1>2, <2>1, <3>2, <3>3
  <2>4. QED
    BY <2>2, <2>3
<1>4. w = Sealed([v EXCEPT !.rcpts = R])
  <2>1. \A b \in BOOLEAN : [v EXCEPT !.rcpts[i].sdks = more, !.rcpts[i].full = b]
          = [v EXCEPT !.rcpts = [j \in DOMAIN v.rcpts |->
              IF j = i THEN [r(i) EXCEPT !.sdks = more, !.full = b] ELSE r(j)]]
    BY <1>0, <1>1 DEF Vaults
  <2>2. QED
    BY <2>1
<1>5. ASSUME NEW j \in DOMAIN v.rcpts
      PROVE  /\ R[j] \in Rcpt /\ R[j].fp = r(j).fp /\ R[j].dek = r(j).dek /\ R[j].by = r(j).by
             /\ j = i => R[j].sdks = more /\ R[j].full = FALSE
             /\ j # i => R[j] = r(j)
  <2>1. CASE j = i
    <3>1. \A b \in BOOLEAN : LET x == [r(i) EXCEPT !.sdks = more, !.full = b] IN
            /\ x \in Rcpt /\ x.fp = r(i).fp /\ x.dek = r(i).dek /\ x.by = r(i).by
            /\ x.sdks = more /\ x.full = b
      BY <1>1, <1>3 DEF Rcpt
    <3>2. R[j] = [r(i) EXCEPT !.sdks = more, !.full = FALSE]
      BY <2>1
    <3> HIDE DEF R
    <3>3. QED
      BY <2>1, <3>1, <3>2
  <2>2. CASE j # i
    BY <1>1, <2>2
  <2>3. QED
    BY <2>1, <2>2
<1>6. R = [j \in DOMAIN v.rcpts |-> R[j]] /\ DOMAIN R = DOMAIN v.rcpts
  OBVIOUS
<1> HIDE DEF R
<1>7. ASSUME NEW j \in DOMAIN v.rcpts PROVE Ok(v, R[j])
  <2>1. Ok(v, r(j)) /\ Ok(v, r(i))
    BY <1>1
  <2>2. CASE j = i
    <3>1. MayGet(v, R[j])
      BY <1>5, <2>1, <2>2 DEF Ok, MayGet, ValidGrant
    <3>2. \A k \in DOMAIN R[j].sdks : k \in DOMAIN v.wraps /\ R[j].sdks[k] = v.wraps[k].sdk
      BY <1>3, <1>5, <2>2
    <3>3. QED
      BY <1>5, <2>1, <2>2, <3>1, <3>2 DEF Ok
  <2>3. CASE j # i
    BY <1>5, <2>1, <2>3
  <2>4. QED
    BY <2>2, <2>3
<1>r. R \in Seq(Rcpt)
  BY <1>1, <1>5, <1>6, EachIs
<1>x. \A k \in DOMAIN v.rcpts : Ok(v, R[k])
  BY <1>7
<1>8. VaultOk(w, s) /\ w.rcpts = R
  <2>1. Changed(w, s, R)
    BY <1>4, <1>6, <1>x, <1>r, ChangedIs
  <2>2. QED
    BY <2>1 DEF Changed
<1>9. ASSUME NEW j \in DOMAIN v.rcpts PROVE Keeps(v, w, j)
  BY <1>3, <1>5, <1>6, <1>8 DEF Keeps
<1>10. QED
  BY <1>6, <1>8, <1>9 DEF Added

(* A function with one more entry. *)
LEMMA InsertIs ==
  ASSUME NEW f \in Bunch(Sdks), NEW id \in Ids, NEW sdk \in Sdks, NEW h, h = Insert(f, id, sdk)
  PROVE  /\ h \in Bunch(Sdks) /\ DOMAIN h = DOMAIN f \cup {id}
         /\ \A k \in DOMAIN h : h[k] = IF k = id THEN sdk ELSE f[k]
<1> DEFINE one == [k \in {id} |-> sdk]
<1>1. h = Override(f, one)
  BY DEF Insert
<1>2. DOMAIN one = {id} /\ one[id] = sdk /\ one = [k \in DOMAIN one |-> one[k]]
  OBVIOUS
<1> HIDE DEF one
<1>3. one \in Bunch(Sdks)
  BY <1>2, BunchIs
<1>4. Override(f, one) \in Bunch(Sdks)
  BY <1>3, OverrideIs
<1>5. QED
  BY <1>1, <1>2, <1>4 DEF Override

(* w is the vault of the secrets t, where everyone but recipient i has what he
   had in v. *)
RewrappedTo(v, w, i, t) ==
  /\ SecretsOk(t) /\ VaultOk(w, t)
  /\ DOMAIN w.rcpts = DOMAIN v.rcpts
  /\ \A j \in DOMAIN v.rcpts : w.rcpts[j].fp = v.rcpts[j].fp
                              /\ (j # i => Keeps(v, w, j))

(* A record under a new key, with it wrapped for all who had the old one but the
   entry it was taken from. *)
LEMMA RewrappedIs ==
  ASSUME NEW s, SecretsOk(s), NEW v, VaultOk(v, s), NEW i \in DOMAIN v.rcpts,
         NEW n \in Present(s), s[n].id \in DOMAIN v.rcpts[i].sdks, NEW sdk \in Sdks,
         NEW w, w = Sealed(Rewrapped(v, i, s[n].id, sdk)),
         NEW t, t = [s EXCEPT ![n].key = sdk]
  PROVE  RewrappedTo(v, w, i, t)
<1> DEFINE id   == s[n].id
           r(j) == v.rcpts[j]
           other(j) == IF r(j).full \/ id \in DOMAIN r(j).sdks
                       THEN [r(j) EXCEPT !.sdks = Insert(r(j).sdks, id, sdk)] ELSE r(j)
           mine == [r(i) EXCEPT !.sdks = Without(r(i).sdks, {id}), !.full = FALSE]
           R    == [j \in DOMAIN v.rcpts |-> IF j = i THEN mine ELSE other(j)]
           x    == [sdk |-> sdk, under |-> v.dek]
           W    == [v.wraps EXCEPT ![id] = x]
           u    == [v EXCEPT !.wraps = W, !.rcpts = R]
           WType == [sdk : Sdks, under : Deks]
<1>0. /\ v \in Vaults /\ v.old = FALSE /\ v.dek \in Deks /\ v.wraps \in Bunch(WType)
      /\ s \in [Names -> Record] /\ n \in Names /\ DOMAIN v.wraps = IdsOf(s)
  BY DEF VaultOk, Vaults, SecretsOk, Present
<1>1. /\ v.rcpts \in Seq(Rcpt)
      /\ \A j \in DOMAIN v.rcpts : r(j) \in Rcpt /\ r(j).sdks \in Bunch(Sdks) /\ Ok(v, r(j))
  BY <1>0, RcptsAre DEF VaultOk, Rcpt
<1>2. id \in DOMAIN v.wraps /\ id \in Ids
  <2>1. id \in DOMAIN v.wraps
    BY <1>0 DEF IdsOf
  <2>2. DOMAIN v.wraps \subseteq Ids
    BY <1>0, BunchIs
  <2>3. QED
    BY <2>1, <2>2
<1>3. w = Sealed(u)
  <2> DEFINE O(y) == IF MayGet(v, y) /\ (y.full \/ id \in DOMAIN y.sdks)
                     THEN [y EXCEPT !.sdks = Insert(y.sdks, id, sdk)] ELSE y
             Q == [j \in DOMAIN v.rcpts |-> IF j = i THEN mine ELSE O(v.rcpts[j])]
  <2>1. Q = R
    BY <1>1 DEF Ok
  <2>2. w = Sealed([v EXCEPT !.wraps[id] = x, !.rcpts = Q])
    BY DEF Rewrapped
  <2> HIDE DEF Q, R, x
  <2>3. QED
    BY <2>1, <2>2
<1>4. ASSUME NEW j \in DOMAIN v.rcpts
      PROVE  /\ R[j] \in Rcpt /\ R[j].fp = r(j).fp /\ R[j].dek = r(j).dek /\ R[j].by = r(j).by
             /\ j # i => DOMAIN R[j].sdks = DOMAIN r(j).sdks /\ R[j].full = r(j).full
             /\ j = i => R[j].full = FALSE
             /\ \A k \in DOMAIN R[j].sdks : k \in DOMAIN r(j).sdks /\
                  R[j].sdks[k] = IF k = id THEN sdk ELSE r(j).sdks[k]
  <2>0. r(j) \in Rcpt /\ r(j).sdks \in Bunch(Sdks) /\ Ok(v, r(j))
    BY <1>1
  <2>2. CASE j = i
    <3> DEFINE y == Without(r(i).sdks, {id})
    <3>1. y \in Bunch(Sdks)
      BY <2>0, <2>2, WithoutIs
    <3>2. DOMAIN y = DOMAIN r(i).sdks \ {id} /\ \A k \in DOMAIN y : y[k] = r(i).sdks[k]
      BY DEF Without
    <3>3. R[j] = [r(j) EXCEPT !.sdks = y, !.full = FALSE]
      BY <2>2
    <3> HIDE DEF y, R
    <3>b. \A b \in BOOLEAN : LET q == [r(j) EXCEPT !.sdks = y, !.full = b] IN
            /\ q \in Rcpt /\ q.fp = r(j).fp /\ q.dek = r(j).dek /\ q.by = r(j).by
            /\ q.sdks = y /\ q.full = b
      BY <2>0, <3>1 DEF Rcpt
    <3>4. /\ R[j] \in Rcpt /\ R[j].fp = r(j).fp /\ R[j].dek = r(j).dek /\ R[j].by = r(j).by
          /\ R[j].sdks = y /\ R[j].full = FALSE
      BY <3>3, <3>b
    <3>5. QED
      BY <2>2, <3>2, <3>4
  <2>3. CASE j # i /\ (r(j).full \/ id \in DOMAIN r(j).sdks)
    <3> DEFINE y == Insert(r(j).sdks, id, sdk)
    <3>1. /\ y \in Bunch(Sdks) /\ DOMAIN y = DOMAIN r(j).sdks \cup {id}
          /\ \A k \in DOMAIN y : y[k] = IF k = id THEN sdk ELSE r(j).sdks[k]
      <4>1. y = Insert(r(j).sdks, id, sdk)
        OBVIOUS
      <4> HIDE DEF y, id
      <4>2. y \in Bunch(Sdks)
        BY <1>2, <2>0, <4>1, InsertIs
      <4>3. DOMAIN y = DOMAIN r(j).sdks \cup {id}
        BY <4>1 DEF Insert, Override
      <4>4. \A k \in DOMAIN y : y[k] = IF k = id THEN sdk ELSE r(j).sdks[k]
        BY <4>1 DEF Insert, Override
      <4>5. QED
        BY <4>2, <4>3, <4>4
    <3>2. id \in DOMAIN r(j).sdks
      BY <1>2, <2>0, <2>3 DEF Ok
    <3>3. R[j] = [r(j) EXCEPT !.sdks = y]
      BY <2>3
    <3> HIDE DEF y, R
    <3>5. /\ R[j] \in Rcpt /\ R[j].fp = r(j).fp /\ R[j].dek = r(j).dek /\ R[j].by = r(j).by
          /\ R[j].sdks = y /\ R[j].full = r(j).full
      BY <2>0, <3>1, <3>3 DEF Rcpt
    <3>6. QED
      BY <2>3, <3>1, <3>2, <3>5
  <2>4. CASE j # i /\ ~(r(j).full \/ id \in DOMAIN r(j).sdks)
    BY <2>0, <2>4
  <2>5. QED
    BY <2>2, <2>3, <2>4
<1>5. R \in Seq(Rcpt) /\ Len(R) = Len(v.rcpts) /\ DOMAIN R = DOMAIN v.rcpts
  <2>1. R = [j \in DOMAIN v.rcpts |-> R[j]] /\ DOMAIN R = DOMAIN v.rcpts
    OBVIOUS
  <2> HIDE DEF R
  <2>2. QED
    BY <1>1, <1>4, <2>1, EachIs
<1>6. /\ W \in Bunch(WType) /\ DOMAIN W = DOMAIN v.wraps /\ W[id].sdk = sdk /\ W[id].under = v.dek
      /\ \A k \in DOMAIN v.wraps : k # id => W[k] = v.wraps[k]
  <2>1. x \in WType /\ x.sdk = sdk /\ x.under = v.dek
    BY <1>0
  <2>2. DOMAIN v.wraps \subseteq Ids /\ \A k \in DOMAIN v.wraps : v.wraps[k] \in WType
    BY <1>0, BunchIs
  <2> HIDE DEF x, WType
  <2>3. DOMAIN W = DOMAIN v.wraps /\ W = [k \in DOMAIN W |-> W[k]]
        /\ \A k \in DOMAIN v.wraps : W[k] = IF k = id THEN x ELSE v.wraps[k]
    OBVIOUS
  <2> HIDE DEF W
  <2>4. \A k \in DOMAIN W : W[k] \in WType
    BY <2>1, <2>2, <2>3
  <2>5. W \in Bunch(WType)
    BY <2>2, <2>3, <2>4, BunchIs
  <2>6. QED
    BY <1>2, <2>1, <2>3, <2>5
<1> HIDE DEF R, W, id
<1>7. /\ u \in Vaults /\ u.old = FALSE /\ u.shared = v.shared /\ u.dek = v.dek /\ u.wraps = W
      /\ u.rcpts = R /\ u.signers = v.signers
  BY <1>0, <1>5, <1>6 DEF Vaults
<1> HIDE DEF u
<1>8. w = u
  BY <1>3, <1>7, SealedIs
<1>9. ASSUME NEW j \in DOMAIN R PROVE Ok(u, R[j])
  <2>1. Ok(v, r(j)) /\ j \in DOMAIN v.rcpts
    BY <1>1, <1>5
  <2>2. /\ R[j].fp = r(j).fp /\ R[j].dek = r(j).dek /\ R[j].by = r(j).by
        /\ j # i => DOMAIN R[j].sdks = DOMAIN r(j).sdks /\ R[j].full = r(j).full
        /\ j = i => R[j].full = FALSE
        /\ \A k \in DOMAIN R[j].sdks : k \in DOMAIN r(j).sdks /\
                  R[j].sdks[k] = IF k = id THEN sdk ELSE r(j).sdks[k]
    BY <1>4, <2>1
  <2>3. \A k \in DOMAIN R[j].sdks : k \in DOMAIN W /\ R[j].sdks[k] = W[k].sdk
    BY <1>6, <2>1, <2>2 DEF Ok
  <2>4. MayGet(u, R[j]) /\ (u.signers = {} => R[j].fp[2] = Modern) /\ R[j].dek \in {u.dek, NoKey}
    BY <1>7, <2>1, <2>2 DEF Ok, MayGet, ValidGrant
  <2>5. R[j].full => R[j].dek = u.dek /\ DOMAIN R[j].sdks = DOMAIN W
    BY <1>6, <1>7, <2>1, <2>2 DEF Ok
  <2>6. QED
    BY <1>7, <2>3, <2>4, <2>5 DEF Ok
<1>10. /\ t \in [Names -> Record] /\ t[n].id = id /\ t[n].key = sdk
       /\ \A m \in Names : m # n => t[m] = s[m]
  <2>1. s[n] \in Record /\ [s[n] EXCEPT !.key = sdk] \in Record
    BY <1>0 DEF Record
  <2>2. t[n] = [s[n] EXCEPT !.key = sdk]
    BY <1>0
  <2>3. t[n].id = s[n].id /\ t[n].key = sdk
    BY <2>1, <2>2 DEF Record
  <2>4. QED
    BY <1>0, <2>1, <2>2, <2>3 DEF id
<1>11. id \in {n} \X Nat /\ t[n] # NoRecord
  <2>1. id \in {n} \X Nat
    BY DEF SecretsOk, id
  <2>2. PICK m \in Nat : id = <<n, m>>
    BY <2>1
  <2>3. id # <<>>
    BY <2>2
  <2>4. QED
    BY <1>10, <2>1, <2>3 DEF NoRecord
<1>12. Present(t) = Present(s) /\ \A m \in Present(s) : t[m].id = s[m].id
  BY <1>0, <1>10, <1>11 DEF Present, id
<1>13. SecretsOk(t)
  BY <1>10, <1>12 DEF SecretsOk
<1>14. ASSUME NEW m \in Present(t)
       PROVE  u.wraps[t[m].id].sdk = t[m].key /\ u.wraps[t[m].id].under = u.dek
  <2>1. CASE m = n
    BY <1>6, <1>7, <1>10, <2>1
  <2>2. CASE m # n
    <3>1. m \in Names /\ m \in Present(s) /\ t[m] = s[m]
      BY <1>10, <1>12, <2>2 DEF Present
    <3>2. s[m].id \in {m} \X Nat /\ s[m].id \in DOMAIN v.wraps
      BY <1>0, <3>1 DEF SecretsOk, IdsOf
    <3>3. W[s[m].id] = v.wraps[s[m].id]
      BY <1>6, <1>11, <2>2, <3>2
    <3>4. QED
      BY <1>7, <3>1, <3>3 DEF VaultOk
  <2>3. QED
    BY <2>1, <2>2
<1>15. VaultOk(u, t)
  <2>1. R # <<>> => v.rcpts # <<>>
    BY <1>1, <1>5
  <2>2. DOMAIN u.wraps = IdsOf(t)
    BY <1>0, <1>6, <1>7, <1>12 DEF IdsOf
  <2>3. u.rcpts # <<>> => u.shared
    BY <1>7, <2>1 DEF VaultOk
  <2>4. QED
    BY <1>7, <1>9, <1>14, <2>2, <2>3 DEF VaultOk
<1>16. ASSUME NEW j \in DOMAIN v.rcpts
       PROVE  w.rcpts[j].fp = v.rcpts[j].fp /\ (j # i => Keeps(v, w, j))
  BY <1>4, <1>5, <1>7, <1>8 DEF Keeps
<1>17. QED
  BY <1>5, <1>7, <1>8, <1>13, <1>15, <1>16 DEF RewrappedTo

(* w is v with the fingerprint fp in entry i. *)
RekeyedAt(v, w, i, fp) ==
  /\ DOMAIN w.rcpts = DOMAIN v.rcpts /\ w.rcpts[i].fp = fp
  /\ DOMAIN w.rcpts[i].sdks = DOMAIN v.rcpts[i].sdks
  /\ \A j \in DOMAIN v.rcpts : j # i => w.rcpts[j] = v.rcpts[j]

(* A rekey puts the new fingerprint on one entry. *)
LEMMA RekeyedIs ==
  ASSUME NEW s, NEW v, VaultOk(v, s), NEW i \in DOMAIN v.rcpts, v.rcpts[i].fp[2] = Legacy,
         v.rcpts[i].dek = v.dek, NEW fp \in Fps, NEW w, w = Sealed(Rekeyed(v, i, fp))
  PROVE  VaultOk(w, s) /\ RekeyedAt(v, w, i, fp)
<1> DEFINE r(j) == v.rcpts[j]
           sdks == Allowed(v, DOMAIN r(i).sdks)
           mine == [r(i) EXCEPT !.fp = fp, !.by = fp, !.dek = v.dek, !.sdks = sdks]
           R    == [j \in DOMAIN v.rcpts |-> IF j = i THEN mine ELSE r(j)]
           signers == v.signers \cup {fp}
           u    == [v EXCEPT !.rcpts = R, !.signers = signers]
<1>0. v \in Vaults /\ v.old = FALSE /\ v.dek \in Deks /\ v.dek # NoKey
  BY DEF VaultOk, Vaults, Deks, NoKey
<1>1. /\ v.rcpts \in Seq(Rcpt)
      /\ \A j \in DOMAIN v.rcpts : r(j) \in Rcpt /\ r(j).sdks \in Bunch(Sdks) /\ Ok(v, r(j))
  BY <1>0, RcptsAre DEF VaultOk, Rcpt
<1>2. /\ sdks \in Bunch(Sdks) /\ DOMAIN sdks = DOMAIN r(i).sdks
      /\ \A k \in DOMAIN sdks : k \in DOMAIN v.wraps /\ sdks[k] = v.wraps[k].sdk
  <2>1. DOMAIN r(i).sdks \subseteq DOMAIN v.wraps
    BY <1>1 DEF Ok
  <2>2. Allowed(v, DOMAIN r(i).sdks) \in Bunch(Sdks)
    BY <1>0, AllowedIs
  <2>3. QED
    BY <2>1, <2>2 DEF Allowed
<1>3. w = Sealed(u)
  <2>1. (IF r(i).dek = NoKey THEN NoKey ELSE v.dek) = v.dek
    BY <1>0
  <2>2. [r(i) EXCEPT !.fp = fp, !.by = fp, !.dek = IF r(i).dek = NoKey THEN NoKey ELSE v.dek,
                     !.sdks = Allowed(v, DOMAIN r(i).sdks)] = mine
    BY <2>1
  <2> HIDE DEF mine, sdks
  <2>3. Rekeyed(v, i, fp) = [v EXCEPT !.rcpts[i] = mine, !.signers = v.signers \cup {fp}]
    BY <2>2 DEF Rekeyed
  <2>4. [v.rcpts EXCEPT ![i] = mine] = R
    BY <1>1
  <2> HIDE DEF R
  <2>5. QED
    BY <1>0, <2>3, <2>4 DEF Vaults
<1> HIDE DEF sdks
<1>4. /\ mine \in Rcpt /\ mine.fp = fp /\ mine.by = fp /\ mine.dek = v.dek /\ mine.sdks = sdks
      /\ mine.full = r(i).full
  <2>1. r(i) \in Rcpt
    BY <1>1
  <2>2. QED
    BY <1>0, <1>2, <2>1 DEF Rcpt
<1> HIDE DEF mine
<1>5. R \in Seq(Rcpt) /\ Len(R) = Len(v.rcpts) /\ DOMAIN R = DOMAIN v.rcpts
  <2>1. R = [j \in DOMAIN v.rcpts |-> R[j]] /\ DOMAIN R = DOMAIN v.rcpts
    OBVIOUS
  <2>2. \A j \in DOMAIN v.rcpts : R[j] \in Rcpt
    BY <1>1, <1>4
  <2> HIDE DEF R
  <2>3. QED
    BY <1>1, <2>1, <2>2, EachIs
<1>6. R[i] = mine /\ \A j \in DOMAIN v.rcpts : j # i => R[j] = r(j)
  OBVIOUS
<1> HIDE DEF R
<1>7. /\ u \in Vaults /\ u.old = FALSE /\ u.shared = v.shared /\ u.dek = v.dek
      /\ u.wraps = v.wraps /\ u.rcpts = R /\ u.signers = signers
  BY <1>0, <1>5 DEF Vaults
<1> HIDE DEF u
<1>8. w = u
  BY <1>3, <1>7, SealedIs
<1>9. v.signers # {}
  <2>1. Ok(v, r(i))
    BY <1>1
  <2>2. QED
    BY <2>1 DEF Ok, Legacy, Modern
<1>10. ASSUME NEW j \in DOMAIN R PROVE Ok(u, R[j])
  <2>1. Ok(v, r(j)) /\ j \in DOMAIN v.rcpts /\ Ok(v, r(i))
    BY <1>1, <1>5
  <2>2. CASE j = i
    <3>1. MayGet(u, mine)
      BY <1>4, <1>7 DEF MayGet, ValidGrant
    <3>2. \A k \in DOMAIN mine.sdks : k \in DOMAIN u.wraps /\ mine.sdks[k] = u.wraps[k].sdk
      BY <1>2, <1>4, <1>7
    <3>3. mine.full => mine.dek = u.dek /\ DOMAIN mine.sdks = DOMAIN u.wraps
      BY <1>2, <1>4, <1>7, <2>1 DEF Ok
    <3>4. u.signers # {} /\ mine.dek \in {u.dek, NoKey}
      BY <1>4, <1>7
    <3>5. QED
      BY <1>6, <2>2, <3>1, <3>2, <3>3, <3>4 DEF Ok
  <2>3. CASE j # i
    BY <1>6, <1>7, <1>9, <2>1, <2>3 DEF Ok, MayGet, ValidGrant
  <2>4. QED
    BY <2>2, <2>3
<1>11. VaultOk(u, s)
  <2>1. R # <<>> => v.rcpts # <<>>
    BY <1>1, <1>5
  <2>2. QED
    BY <1>7, <1>10, <2>1 DEF VaultOk
<1>12. RekeyedAt(v, w, i, fp)
  BY <1>2, <1>4, <1>5, <1>6, <1>7, <1>8 DEF RekeyedAt
<1>13. QED
  BY <1>8, <1>11, <1>12

(* `dl share enable` and the seal alone. *)
LEMMA SharedIs ==
  ASSUME NEW s, NEW v, VaultOk(v, s), NEW w, w = Sealed([v EXCEPT !.shared = TRUE])
  PROVE  VaultOk(w, s) /\ w.rcpts = v.rcpts
<1> DEFINE u == [v EXCEPT !.shared = TRUE]
<1>1. v \in Vaults /\ v.old = FALSE
  BY DEF VaultOk
<1>2. /\ u \in Vaults /\ u.old = FALSE /\ u.shared = TRUE /\ u.dek = v.dek
      /\ u.wraps = v.wraps /\ u.rcpts = v.rcpts /\ u.signers = v.signers
  <2>1. \A b \in BOOLEAN : LET x == [v EXCEPT !.shared = b] IN
          /\ x \in Vaults /\ x.old = FALSE /\ x.shared = b /\ x.dek = v.dek
          /\ x.wraps = v.wraps /\ x.rcpts = v.rcpts /\ x.signers = v.signers
    BY <1>1 DEF Vaults
  <2>2. QED
    BY <2>1
<1>u. w = Sealed(u)
  OBVIOUS
<1> HIDE DEF u
<1>3. w = u
  BY <1>2, <1>u, SealedIs
<1>4. \A i \in DOMAIN u.rcpts : Ok(u, u.rcpts[i])
  BY <1>2 DEF VaultOk, Ok, MayGet
<1>5. VaultOk(u, s)
  BY <1>2, <1>4 DEF VaultOk
<1>6. QED
  BY <1>2, <1>3, <1>5

-----------------------------------------------------------------------------
(* How many entries a person has.                                            *)

(* The number of entries of a person does not change with their content, *)
LEMMA FewSame ==
  ASSUME NEW v, NEW w, NEW id, FewOk(v, id), DOMAIN w.rcpts = DOMAIN v.rcpts,
         \A i \in DOMAIN v.rcpts : w.rcpts[i].fp = v.rcpts[i].fp
  PROVE  FewOk(w, id)
<1>1. \A fp : Of(w, fp) = Of(v, fp)
  BY DEF Of
<1>2. QED
  BY <1>1 DEF FewOk, Once, Twice

(* w is v without entry i of m. *)
Loses(v, w, i, m) ==
  /\ m \in Nat /\ i \in 1 .. m /\ DOMAIN v.rcpts = 1 .. m /\ DOMAIN w.rcpts = 1 .. m - 1
  /\ \A k \in DOMAIN w.rcpts : w.rcpts[k].fp = v.rcpts[Came(i, k)].fp

(* ... nor grow by a revocation, *)
LEMMA FewRevoked ==
  ASSUME NEW v, NEW w, NEW id, FewOk(v, id), NEW m, NEW i, Loses(v, w, i, m)
  PROVE  FewOk(w, id)
<1>0. /\ m \in Nat /\ i \in 1 .. m /\ DOMAIN v.rcpts = 1 .. m /\ DOMAIN w.rcpts = 1 .. m - 1
      /\ \A k \in DOMAIN w.rcpts : w.rcpts[k].fp = v.rcpts[Came(i, k)].fp
  BY DEF Loses
<1>1. /\ \A k \in 1 .. m - 1 : Came(i, k) \in 1 .. m
      /\ \A k, l \in 1 .. m - 1 : Came(i, k) = Came(i, l) => k = l
  BY <1>0, CameIs
<1>2. ASSUME NEW fp PROVE \A k \in Of(w, fp) : k \in 1 .. m - 1 /\ Came(i, k) \in Of(v, fp)
  BY <1>0, <1>1 DEF Of
<1>3. \A fp : Once(v, fp) => Once(w, fp)
  BY <1>1, <1>2 DEF Once
<1>4. \A fp : Twice(v, fp) => Twice(w, fp)
  BY <1>1, <1>2 DEF Twice
<1>5. \A fp : Of(v, fp) = {} => Of(w, fp) = {}
  BY <1>2
<1>6. QED
  BY <1>3, <1>4, <1>5 DEF FewOk

(* ... and by a grant only to those one key pair may have. *)
LEMMA FewGranted ==
  ASSUME NEW v, NEW w, NEW id, IdentOk(id), FewOk(v, id), NEW q \in People,
         id[q].now # None, NEW full, NEW j, GrantedAt(v, w, <<q, id[q].now>>, full, j)
  PROVE  FewOk(w, id)
<1> DEFINE fp == <<q, id[q].now>>
<1>0. id[q].now \in Keys
  BY DEF IdentOk
<1>1. ASSUME NEW o, o # fp PROVE Of(w, o) = Of(v, o)
  BY <1>1 DEF Of, GrantedAt
<1>2. CASE j \in DOMAIN v.rcpts
  <2>1. Of(w, fp) = Of(v, fp)
    BY <1>2 DEF Of, GrantedAt
  <2>2. \A o : Of(w, o) = Of(v, o)
    BY <1>1, <2>1
  <2>3. QED
    BY <2>2 DEF FewOk, Once, Twice
<1>3. CASE j \notin DOMAIN v.rcpts
  <2>1. Of(w, fp) = {j} /\ Of(v, fp) = {}
    BY <1>3 DEF Of, GrantedAt
  <2>2. Once(w, fp) /\ Twice(w, fp)
    BY <2>1 DEF Once, Twice
  <2>3. \A o : o # fp => (Once(v, o) => Once(w, o)) /\ (Twice(v, o) => Twice(w, o))
    BY <1>1 DEF Once, Twice
  <2>4. ASSUME NEW p \in People
        PROVE  /\ Once(w, <<p, Legacy>>) /\ Twice(w, <<p, Modern>>)
               /\ Of(w, <<p, Legacy>>) # {} => Once(w, <<p, Modern>>)
               /\ id[p].now = Legacy => Of(w, <<p, Modern>>) = {}
    <3>0. /\ Once(v, <<p, Legacy>>) /\ Twice(v, <<p, Modern>>)
          /\ Of(v, <<p, Legacy>>) # {} => Once(v, <<p, Modern>>)
          /\ id[p].now = Legacy => Of(v, <<p, Modern>>) = {}
      BY DEF FewOk
    <3>1. CASE p # q
      <4>1. <<p, Legacy>> # fp /\ <<p, Modern>> # fp
        BY <3>1
      <4>2. QED
        BY <1>1, <2>3, <3>0, <4>1
    <3>2. CASE p = q /\ id[q].now = Legacy
      <4>1. fp = <<p, Legacy>> /\ <<p, Modern>> # fp
        BY <3>2 DEF Legacy, Modern
      <4>2. Of(w, <<p, Modern>>) = {}
        BY <1>1, <3>0, <3>2, <4>1
      <4>3. QED
        BY <2>2, <3>2, <4>1, <4>2 DEF Once, Twice
    <3>3. CASE p = q /\ id[q].now = Modern
      <4>1. fp = <<p, Modern>> /\ <<p, Legacy>> # fp
        BY <3>3 DEF Legacy, Modern
      <4>2. QED
        BY <2>2, <2>3, <3>0, <3>3, <4>1 DEF Legacy, Modern
    <3>4. QED
      BY <1>0, <3>1, <3>2, <3>3 DEF Keys
  <2>5. QED
    BY <2>4 DEF FewOk
<1>4. QED
  BY <1>2, <1>3

(* A rekey turns the entry of an RSA key into one of the new pair. *)
LEMMA FewRekeyed ==
  ASSUME NEW v, NEW w, NEW id, IdentOk(id), FewOk(v, id), NEW q \in People,
         NEW i \in DOMAIN v.rcpts, v.rcpts[i].fp = <<q, Legacy>>, id[q].now = Modern,
         RekeyedAt(v, w, i, <<q, Modern>>)
  PROVE  FewOk(w, id)
<1> DEFINE new == <<q, Modern>>
           old == <<q, Legacy>>
<1>0. new # old
  BY DEF Modern, Legacy
<1>1. ASSUME NEW o, o # new, o # old PROVE Of(w, o) = Of(v, o)
  BY <1>1 DEF Of, RekeyedAt
<1>2. /\ Once(v, old) /\ Twice(v, new) /\ (Of(v, old) # {} => Once(v, new))
  BY DEF FewOk
<1>3. i \in Of(v, old)
  BY DEF Of
<1>4. Of(w, old) = {}
  BY <1>0, <1>2, <1>3 DEF Of, RekeyedAt, Once
<1>5. \A k \in Of(w, new) : k = i \/ k \in Of(v, new)
  BY DEF Of, RekeyedAt
<1>6. Twice(w, new)
  BY <1>2, <1>3, <1>5 DEF Once, Twice
<1>7. ASSUME NEW p \in People
      PROVE  /\ Once(w, <<p, Legacy>>) /\ Twice(w, <<p, Modern>>)
             /\ Of(w, <<p, Legacy>>) # {} => Once(w, <<p, Modern>>)
             /\ id[p].now = Legacy => Of(w, <<p, Modern>>) = {}
  <2>1. CASE p = q
    BY <1>4, <1>6, <2>1 DEF Once, Legacy, Modern
  <2>2. CASE p # q
    <3>1. /\ Of(w, <<p, Legacy>>) = Of(v, <<p, Legacy>>)
          /\ Of(w, <<p, Modern>>) = Of(v, <<p, Modern>>)
      BY <1>1, <2>2
    <3>2. /\ Once(v, <<p, Legacy>>) /\ Twice(v, <<p, Modern>>)
          /\ Of(v, <<p, Legacy>>) # {} => Once(v, <<p, Modern>>)
          /\ id[p].now = Legacy => Of(v, <<p, Modern>>) = {}
      BY DEF FewOk
    <3>3. /\ Once(w, <<p, Legacy>>) /\ (Once(v, <<p, Modern>>) => Once(w, <<p, Modern>>))
      BY <3>1, <3>2 DEF Once
    <3>4. Twice(w, <<p, Modern>>)
      BY <3>1, <3>2 DEF Twice
    <3>5. QED
      BY <3>1, <3>2, <3>3, <3>4
  <2>3. QED
    BY <2>1, <2>2
<1>8. QED
  BY <1>7 DEF FewOk

(* A new key pair changes no entry. *)
LEMMA FewIdent ==
  ASSUME NEW v, NEW id, NEW new, FewOk(v, id),
         \A p \in People : new[p].now = Legacy => id[p].now = Legacy
  PROVE  FewOk(v, new)
BY DEF FewOk

-----------------------------------------------------------------------------
(* The invariant holds.                                                      *)

(* No vault without keys per secret, and none without signers in which people
   have RSA keys: the ones MCSharing_direct.cfg and MCSharing_transition.cfg
   start with, and show to go wrong. *)
CurrentStarts ==
  \A start \in Starts :
    /\ start.kind # "direct"
    /\ start.kind = "unsigned" => start.rsa = {}

(* Every vault the runs start with is in order. *)
LEMMA Initially ==
  ASSUME CurrentStarts, Init PROVE IInv
<1>1. PICK start \in Starts, present \in SUBSET Names, members \in SUBSET People :
      \E order \in SetToSeqs(members) :
        LET dek    == <<0, "dek">>
            direct == start.kind = "direct"
            key(p) == IF p \in start.rsa THEN Legacy ELSE Modern
            signer == <<CHOOSE o \in Owners : TRUE, key(CHOOSE o \in Owners : TRUE)>>
            signed == start.kind = "signed"
            all    == [i \in present \X {0} |-> <<0, i[1]>>]
            entry(p) == [fp |-> <<p, key(p)>>, dek |-> dek, sdks |-> all, full |-> TRUE,
                         by |-> IF signed THEN signer ELSE NoOne]
            shared == start.kind \in {"signed", "unsigned"}
        IN  /\ shared <=> members # {}
            /\ vault = [old |-> direct, shared |-> shared, dek |-> dek,
                        wraps |-> IF direct THEN Empty
                                  ELSE [i \in DOMAIN all |-> [sdk |-> all[i], under |-> dek]],
                        rcpts |-> [i \in DOMAIN order |-> entry(order[i])],
                        signers |-> IF signed THEN {signer} ELSE {}]
            /\ secrets = [n \in Names |-> IF n \in present
                 THEN [id |-> <<n, 0>>, key |-> IF direct THEN dek ELSE <<0, n>>] ELSE NoRecord]
            /\ \E without \in {{}, IF shared THEN People \ (members \cup Owners) ELSE People} :
                 ident = [p \in People |->
                   [now |-> IF p \in without THEN None ELSE key(p), old |-> None]]
  BY DEF Init
<1> DEFINE dek    == <<0, "dek">>
           key(p) == IF p \in start.rsa THEN Legacy ELSE Modern
           o      == CHOOSE x \in Owners : TRUE
           signer == <<o, key(o)>>
           signed == start.kind = "signed"
           by     == IF signed THEN signer ELSE NoOne
           signers == IF signed THEN {signer} ELSE {}
           all    == [i \in present \X {0} |-> <<0, i[1]>>]
           entry(p) == [fp |-> <<p, key(p)>>, dek |-> dek, sdks |-> all, full |-> TRUE, by |-> by]
           shared == start.kind \in {"signed", "unsigned"}
           wraps  == [i \in DOMAIN all |-> [sdk |-> all[i], under |-> dek]]
<1>2. start.kind # "direct" /\ (start.kind = "unsigned" => start.rsa = {})
      /\ start.kind \in {"master", "signed", "unsigned", "direct"}
  BY StartsAssumption DEF CurrentStarts
<1>3. PICK order \in SetToSeqs(members) :
        /\ shared <=> members # {}
        /\ vault = [old |-> FALSE, shared |-> shared, dek |-> dek, wraps |-> wraps,
                    rcpts |-> [i \in DOMAIN order |-> entry(order[i])], signers |-> signers]
        /\ secrets = [n \in Names |-> IF n \in present THEN [id |-> <<n, 0>>, key |-> <<0, n>>]
                                      ELSE NoRecord]
        /\ \E without \in {{}, IF shared THEN People \ (members \cup Owners) ELSE People} :
             ident = [p \in People |->
               [now |-> IF p \in without THEN None ELSE key(p), old |-> None]]
  BY <1>1, <1>2
<1> DEFINE rcpts == [i \in DOMAIN order |-> entry(order[i])]
           n == Cardinality(members)
<1>4. /\ n \in Nat /\ order \in [1 .. n -> members]
      /\ \A i, j \in 1 .. n : i # j => order[i] # order[j]
  <2>1. IsFiniteSet(members)
    BY PeopleAssumption, FS_Subset
  <2>2. n \in Nat
    BY <2>1, FS_CardinalityType
  <2>3. QED
    BY <2>2 DEF SetToSeqs
<1> HIDE DEF n
<1>5. /\ dek \in Deks /\ o \in People /\ by \in Fps \cup {NoOne} /\ signers \in SUBSET Fps
      /\ \A p \in People : key(p) \in Keys /\ <<p, key(p)>> \in Fps
      /\ signed => by \in signers
      /\ ~signed => signers = {}
  <2>1. o \in People
    BY OwnersAssumption
  <2> HIDE DEF o
  <2>2. QED
    BY <2>1 DEF Deks, Fps, Keys
<1>6. /\ all \in Bunch(Sdks) /\ DOMAIN all = present \X {0}
      /\ \A x \in present : <<x, 0>> \in DOMAIN all /\ all[<<x, 0>>] = <<0, x>>
  <2>1. /\ DOMAIN all = present \X {0} /\ all = [i \in DOMAIN all |-> all[i]]
        /\ \A i \in DOMAIN all : all[i] = <<0, i[1]>> /\ i[1] \in present
    OBVIOUS
  <2>2. \A x \in present : <<x, 0>> \in DOMAIN all /\ all[<<x, 0>>] = <<0, x>>
    OBVIOUS
  <2> HIDE DEF all
  <2>3. \A i \in DOMAIN all : all[i] \in Sdks
    BY <2>1 DEF Sdks
  <2>4. DOMAIN all \subseteq Ids
    BY <2>1 DEF Ids
  <2>5. all \in Bunch(Sdks)
    BY <2>1, <2>3, <2>4, BunchIs
  <2>6. QED
    BY <2>1, <2>2, <2>5
<1>7. /\ wraps \in Bunch([sdk : Sdks, under : Deks]) /\ DOMAIN wraps = DOMAIN all
      /\ \A i \in DOMAIN wraps : wraps[i].sdk = all[i] /\ wraps[i].under = dek
  <2>1. DOMAIN all \subseteq Ids /\ \A i \in DOMAIN all : all[i] \in Sdks
    BY <1>6, BunchIs
  <2> HIDE DEF all
  <2>2. /\ DOMAIN wraps = DOMAIN all /\ wraps = [i \in DOMAIN wraps |-> wraps[i]]
        /\ \A i \in DOMAIN wraps : wraps[i] = [sdk |-> all[i], under |-> dek]
    OBVIOUS
  <2> HIDE DEF wraps, dek
  <2>3. \A i \in DOMAIN wraps : /\ wraps[i] \in [sdk : Sdks, under : Deks]
                                 /\ wraps[i].sdk = all[i] /\ wraps[i].under = dek
    BY <1>5, <2>1, <2>2
  <2>4. QED
    BY <2>1, <2>2, <2>3, BunchIs
<1> HIDE DEF all, wraps
<1>8. ASSUME NEW p \in People
      PROVE  /\ entry(p) \in Rcpt /\ entry(p).fp = <<p, key(p)>> /\ entry(p).dek = dek
             /\ entry(p).sdks = all /\ entry(p).by = by
  <2> HIDE DEF key, by, dek
  <2>1. \A b \in BOOLEAN : LET x == [fp |-> <<p, key(p)>>, dek |-> dek, sdks |-> all,
                                      full |-> b, by |-> by] IN
          /\ x \in Rcpt /\ x.fp = <<p, key(p)>> /\ x.dek = dek /\ x.sdks = all /\ x.by = by
    BY <1>5, <1>6 DEF Rcpt
  <2>2. QED
    BY <2>1
<1> HIDE DEF entry
<1>9. /\ DOMAIN rcpts = 1 .. n /\ rcpts \in Seq(Rcpt)
      /\ \A i \in 1 .. n : order[i] \in members /\ order[i] \in People
                            /\ rcpts[i] = entry(order[i])
  <2>1. /\ DOMAIN rcpts = 1 .. n
        /\ \A i \in 1 .. n : order[i] \in members /\ order[i] \in People
                              /\ rcpts[i] = entry(order[i])
    BY <1>4
  <2>2. \A i \in 1 .. n : rcpts[i] \in Rcpt
    BY <1>8, <2>1
  <2>3. rcpts \in [1 .. n -> Rcpt]
    BY <2>1, <2>2
  <2> HIDE DEF rcpts
  <2>4. rcpts \in Seq(Rcpt)
    BY <1>4, <2>3
  <2>5. QED
    BY <2>1, <2>4
<1> HIDE DEF rcpts, key, by, dek, signers
<1>10. /\ vault \in Vaults /\ vault.old = FALSE /\ vault.shared = shared /\ vault.dek = dek
       /\ vault.wraps = wraps /\ vault.rcpts = rcpts /\ vault.signers = signers
  <2>1. \A b, c \in BOOLEAN : LET x == [old |-> b, shared |-> c, dek |-> dek, wraps |-> wraps,
                                         rcpts |-> rcpts, signers |-> signers] IN
          /\ x \in Vaults /\ x.old = b /\ x.shared = c /\ x.dek = dek
          /\ x.wraps = wraps /\ x.rcpts = rcpts /\ x.signers = signers
    BY <1>5, <1>7, <1>9 DEF Vaults
  <2>2. shared \in BOOLEAN /\ FALSE \in BOOLEAN
    OBVIOUS
  <2>3. vault = [old |-> FALSE, shared |-> shared, dek |-> dek, wraps |-> wraps,
                 rcpts |-> rcpts, signers |-> signers]
    BY <1>3 DEF rcpts
  <2> HIDE DEF shared
  <2>4. QED
    BY <2>1, <2>2, <2>3
<1>11. /\ SecretsOk(secrets) /\ Present(secrets) = present
       /\ \A x \in present : secrets[x].id = <<x, 0>> /\ secrets[x].key = <<0, x>>
  <2>1. \A x \in Names : /\ [id |-> <<x, 0>>, key |-> <<0, x>>] \in Record
                          /\ [id |-> <<x, 0>>, key |-> <<0, x>>] # NoRecord
    BY NewRecord DEF Record, Ids, Sdks
  <2>2. NoRecord \in Record
    BY DEF NoRecord, Record
  <2>3. /\ secrets \in [Names -> Record]
        /\ \A x \in Names : secrets[x] = IF x \in present THEN [id |-> <<x, 0>>, key |-> <<0, x>>]
                                          ELSE NoRecord
    BY <1>3, <2>1, <2>2
  <2>4. Present(secrets) = present
    BY <2>1, <2>3 DEF Present
  <2>5. \A x \in present : secrets[x].id = <<x, 0>> /\ secrets[x].key = <<0, x>>
    BY <2>3
  <2>6. QED
    BY <2>3, <2>4, <2>5 DEF SecretsOk
<1>12. VaultOk(vault, secrets)
  <2>1. DOMAIN wraps = IdsOf(secrets)
    <3>1. \A x \in present \X {0} : \E m \in present : x = <<m, 0>>
      OBVIOUS
    <3>2. IdsOf(secrets) = {<<x, 0>> : x \in present}
      BY <1>11 DEF IdsOf
    <3>3. QED
      BY <1>6, <1>7, <3>1, <3>2
  <2>2. ASSUME NEW x \in present
        PROVE  /\ vault.wraps[secrets[x].id].sdk = secrets[x].key
               /\ vault.wraps[secrets[x].id].under = vault.dek
    <3>1. <<x, 0>> \in DOMAIN wraps /\ all[<<x, 0>>] = <<0, x>>
      BY <1>6, <1>7
    <3>2. wraps[<<x, 0>>].sdk = <<0, x>> /\ wraps[<<x, 0>>].under = dek
      BY <1>7, <3>1
    <3>3. secrets[x].id = <<x, 0>> /\ secrets[x].key = <<0, x>>
      BY <1>11
    <3>4. QED
      BY <1>10, <3>2, <3>3
  <2>3. ASSUME NEW i \in DOMAIN rcpts PROVE Ok(vault, rcpts[i])
    <3> DEFINE r == rcpts[i]
    <3>1. /\ order[i] \in members /\ order[i] \in People /\ r = entry(order[i])
      BY <1>9
    <3>2. /\ r \in Rcpt /\ r.fp = <<order[i], key(order[i])>> /\ r.dek = dek
          /\ r.sdks = all /\ r.by = by
      BY <1>8, <3>1
    <3>3. signed \/ start.kind = "unsigned"
      BY <1>3, <3>1
    <3>4. MayGet(vault, r)
      BY <1>5, <1>10, <3>2, <3>3 DEF MayGet, ValidGrant
    <3>5. vault.signers = {} => r.fp[2] = Modern
      BY <1>2, <1>5, <1>10, <3>2, <3>3 DEF key
    <3> HIDE DEF r
    <3>6. Ok(vault, r)
      BY <1>7, <1>10, <3>2, <3>4, <3>5 DEF Ok
    <3>7. QED
      BY <3>6 DEF r
  <2>4. rcpts # <<>> => shared
    <3>1. rcpts # <<>> => 1 \in 1 .. n
      BY <1>4, <1>9
    <3>2. QED
      BY <1>3, <1>9, <3>1
  <2>5. QED
    BY <1>7, <1>10, <1>11, <2>1, <2>2, <2>3, <2>4 DEF VaultOk
<1>13. PICK without : ident = [p \in People |->
               [now |-> IF p \in without THEN None ELSE key(p), old |-> None]]
  BY <1>3
<1>14. IdentOk(ident) /\ \A p \in People : ident[p].now = Legacy => key(p) = Legacy
  <2>1. ASSUME NEW p \in People
        PROVE  /\ ident[p] \in [now : Keys \cup {None}, old : {None, Legacy}]
               /\ ident[p].old = None /\ (ident[p].now = Legacy => key(p) = Legacy)
    <3>1. ident[p] = [now |-> IF p \in without THEN None ELSE key(p), old |-> None]
      BY <1>13
    <3>2. (IF p \in without THEN None ELSE key(p)) \in Keys \cup {None}
      BY <1>5
    <3>3. ident[p].old = None /\ ident[p].now = IF p \in without THEN None ELSE key(p)
      BY <3>1
    <3>4. ident[p] \in [now : Keys \cup {None}, old : {None, Legacy}]
      BY <3>1, <3>2
    <3>5. ident[p].now = Legacy => key(p) = Legacy
      BY <3>3 DEF None, Legacy
    <3>6. QED
      BY <3>3, <3>4, <3>5
  <2>2. QED
    BY <1>13, <2>1 DEF IdentOk
<1>15. FewOk(vault, ident)
  <2>1. ASSUME NEW p \in People, NEW k PROVE Once(vault, <<p, k>>)
    <3>1. SUFFICES ASSUME NEW i \in Of(vault, <<p, k>>), NEW j \in Of(vault, <<p, k>>) PROVE i = j
      BY DEF Once
    <3>2. /\ i \in 1 .. n /\ j \in 1 .. n /\ rcpts[i].fp = <<p, k>> /\ rcpts[j].fp = <<p, k>>
      BY <1>9, <1>10 DEF Of
    <3>3. order[i] = p /\ order[j] = p
      BY <1>8, <1>9, <3>2
    <3>4. QED
      BY <1>4, <3>2, <3>3
  <2>2. ASSUME NEW p \in People, ident[p].now = Legacy PROVE Of(vault, <<p, Modern>>) = {}
    <3>1. SUFFICES ASSUME NEW i \in Of(vault, <<p, Modern>>) PROVE FALSE
      OBVIOUS
    <3>2. i \in 1 .. n /\ rcpts[i].fp = <<p, Modern>>
      BY <1>9, <1>10 DEF Of
    <3>3. order[i] = p /\ key(p) = Modern
      BY <1>8, <1>9, <3>2
    <3>4. QED
      BY <1>14, <2>2, <3>3 DEF Legacy, Modern
  <2>3. QED
    BY <2>1, <2>2 DEF FewOk, Once, Twice
<1>16. ops \in Nat
  BY DEF Init
<1>17. QED
  BY <1>11, <1>12, <1>14, <1>15, <1>16 DEF IInv

(* Whoever has one entry that one of his key pairs opens still has, if the
   command is not about him, one that one of his key pairs opens, with the keys
   of the records of ids that he had. *)
Opens(v, id, q, i) == Only(v, q, i) /\ v.rcpts[i].fp[2] \in {id[q].now, id[q].old}

Stays(v, w, id, new, q, ids) ==
  \A i \in DOMAIN v.rcpts : Opens(v, id, q, i) =>
    \E j \in DOMAIN w.rcpts :
      /\ Opens(w, new, q, j)
      /\ ids \cap DOMAIN v.rcpts[i].sdks \subseteq DOMAIN w.rcpts[j].sdks

Goes ==
  /\ IInv'
  /\ \A q \in People : q \notin aim' =>
       Stays(vault, vault', ident, ident', q, IdsOf(secrets'))

(* What a command has to do for the invariant and for those it is not about. *)
LEMMA GoesOn ==
  ASSUME IInv, ops' = ops + 1, ident' = ident,
         SecretsOk(secrets'), VaultOk(vault', secrets'), FewOk(vault', ident),
         \A q \in People : q \notin aim' => Follows(vault, vault', q, IdsOf(secrets'))
  PROVE  Goes
<1>1. IInv'
  BY DEF IInv
<1>2. ASSUME NEW q \in People, q \notin aim'
      PROVE  Stays(vault, vault', ident, ident', q, IdsOf(secrets'))
  <2>1. Follows(vault, vault', q, IdsOf(secrets'))
    BY <1>2
  <2>2. QED
    BY <2>1 DEF Follows, Stays, Opens
<1>3. QED
  BY <1>1, <1>2 DEF Goes

(* The entries have the fingerprints they had. *)
LEMMA GoesSame ==
  ASSUME IInv, ops' = ops + 1, ident' = ident,
         SecretsOk(secrets'), VaultOk(vault', secrets'),
         DOMAIN vault'.rcpts = DOMAIN vault.rcpts,
         \A i \in DOMAIN vault.rcpts : vault'.rcpts[i].fp = vault.rcpts[i].fp,
         \A q \in People : q \notin aim' => Follows(vault, vault', q, IdsOf(secrets'))
  PROVE  Goes
<1>1. FewOk(vault, ident)
  BY DEF IInv
<1>2. FewOk(vault', ident)
  BY <1>1, FewSame
<1>3. QED
  BY <1>2, GoesOn

(* Turning sharing on, and config. *)
LEMMA GoesEnable ==
  ASSUME IInv, NEW p, EnableShared(p) \/ Configure(p) PROVE Goes
<1>1. /\ SecretsOk(secrets) /\ VaultOk(vault, secrets) /\ secrets' = secrets /\ ident' = ident
      /\ ops' = ops + 1
  BY DEF IInv, EnableShared, Configure, Command, Commit
<1>2. VaultOk(vault', secrets) /\ vault'.rcpts = vault.rcpts
  <2>1. CASE EnableShared(p)
    <3>1. vault' = Sealed([vault EXCEPT !.shared = TRUE])
      BY <2>1 DEF EnableShared, Commit
    <3>2. QED
      BY <1>1, <3>1, SharedIs
  <2>2. CASE Configure(p)
    <3>1. vault' = Sealed(vault)
      BY <2>2 DEF Configure, Commit
    <3>2. vault' = vault
      BY <1>1, <3>1, SealedIs DEF VaultOk
    <3>3. QED
      BY <1>1, <3>2
  <2>3. QED
    BY <2>1, <2>2
<1>3. \A q \in People : Follows(vault, vault', q, IdsOf(secrets'))
  BY <1>2, KeepFollow
<1>4. SecretsOk(secrets') /\ VaultOk(vault', secrets')
  BY <1>1, <1>2
<1>5. QED
  BY <1>1, <1>2, <1>3, <1>4, GoesSame

(* Set and import. *)
LEMMA GoesUpsert ==
  ASSUME IInv, NEW p, NEW ns \in SUBSET Names, Upsert(p, ns) PROVE Goes
<1> DEFINE new == UpsertMany(vault, secrets, ns)
<1>1. SecretsOk(secrets) /\ VaultOk(vault, secrets) /\ ops \in Nat /\ vault \in Vaults /\ vault.old = FALSE
  BY DEF IInv, VaultOk
<1>2. vault' = new.vault /\ secrets' = new.secrets /\ ident' = ident /\ ops' = ops + 1
  BY <1>1, SealedIs DEF Upsert, Command
<1>n. new = UpsertMany(vault, secrets, ns)
  OBVIOUS
<1> HIDE DEF new
<1>3. /\ SecretsOk(new.secrets) /\ VaultOk(new.vault, new.secrets)
      /\ DOMAIN new.vault.rcpts = DOMAIN vault.rcpts
      /\ \A i \in DOMAIN vault.rcpts : Keeps(vault, new.vault, i)
  BY <1>1, <1>n, UpsertIs
<1>4. /\ SecretsOk(secrets') /\ VaultOk(vault', secrets')
      /\ DOMAIN vault'.rcpts = DOMAIN vault.rcpts
  BY <1>2, <1>3
<1>5. \A i \in DOMAIN vault.rcpts : /\ vault'.rcpts[i].fp = vault.rcpts[i].fp
                                    /\ DOMAIN vault.rcpts[i].sdks \subseteq DOMAIN vault'.rcpts[i].sdks
  BY <1>2, <1>3 DEF Keeps
<1>6. \A q \in People : Follows(vault, vault', q, IdsOf(secrets'))
  BY <1>4, <1>5, KeepFollow
<1>7. QED
  BY <1>2, <1>4, <1>5, <1>6, GoesSame

(* Unset. *)
LEMMA GoesUnset ==
  ASSUME IInv, NEW p, NEW n \in Names, Unset(p, n) PROVE Goes
<1>1. SecretsOk(secrets) /\ VaultOk(vault, secrets)
  BY DEF IInv
<1>2. /\ n \in Present(secrets) /\ vault' = Dropping(vault, secrets[n].id)
      /\ secrets' = [secrets EXCEPT ![n] = NoRecord] /\ ident' = ident /\ ops' = ops + 1
  BY DEF Unset, Command, Present, Dropping
<1>3. /\ SecretsOk(secrets') /\ VaultOk(vault', secrets')
      /\ DOMAIN vault'.rcpts = DOMAIN vault.rcpts
      /\ \A i \in DOMAIN vault.rcpts : vault'.rcpts[i].fp = vault.rcpts[i].fp
      /\ \A q : Follows(vault, vault', q, IdsOf(secrets'))
  <2>1. Leaves(vault, vault', secrets')
    BY <1>1, <1>2, UnsetIs
  <2>2. QED
    BY <2>1 DEF Leaves
<1>4. QED
  BY <1>2, <1>3, GoesSame

(* A rotation. *)
LEMMA GoesRotate ==
  ASSUME IInv, NEW o, Rotate(o) PROVE Goes
<1>1. /\ SecretsOk(secrets) /\ VaultOk(vault, secrets) /\ ops \in Nat
      /\ vault' = Rotated(vault) /\ secrets' = secrets /\ ident' = ident /\ ops' = ops + 1
  BY DEF IInv, Rotate, Command, Commit
<1>2. /\ VaultOk(vault', secrets) /\ DOMAIN vault'.rcpts = DOMAIN vault.rcpts
      /\ \A i \in DOMAIN vault.rcpts : vault'.rcpts[i].fp = vault.rcpts[i].fp
                                      /\ vault'.rcpts[i].sdks = vault.rcpts[i].sdks
  BY <1>1, RotatedIs
<1>3. \A q \in People : Follows(vault, vault', q, IdsOf(secrets'))
  BY <1>2, KeepFollow
<1>4. QED
  BY <1>1, <1>2, <1>3, GoesSame

(* A revocation. *)
LEMMA GoesRevoke ==
  ASSUME IInv, NEW o, NEW fp, Revoke(o, fp) PROVE Goes
<1> DEFINE i == At(vault, fp)
<1>1. /\ SecretsOk(secrets) /\ VaultOk(vault, secrets) /\ ops \in Nat /\ FewOk(vault, ident)
      /\ vault \in Vaults
      /\ vault' = RevokedAndRotated(vault, i) /\ secrets' = secrets /\ ident' = ident
      /\ ops' = ops + 1 /\ i # 0 /\ aim' = {fp[1]}
  BY DEF IInv, VaultOk, Revoke, Command, Commit
<1>2. i \in DOMAIN vault.rcpts /\ vault.rcpts[i].fp = fp
  BY <1>1, RcptsAre, AtIs
<1> HIDE DEF i
<1>3. /\ VaultOk(vault', secrets)
      /\ DOMAIN vault.rcpts = 1 .. Len(vault.rcpts) /\ Len(vault.rcpts) \in Nat
      /\ DOMAIN vault'.rcpts = 1 .. Len(vault.rcpts) - 1
      /\ \A k \in DOMAIN vault'.rcpts : vault'.rcpts[k].fp = vault.rcpts[Came(i, k)].fp
                                       /\ vault'.rcpts[k].sdks = vault.rcpts[Came(i, k)].sdks
  BY <1>1, <1>2, RevokedIs
<1>4. i \in 1 .. Len(vault.rcpts)
  BY <1>2, <1>3
<1>5. ASSUME NEW q \in People, q \notin aim' PROVE Follows(vault, vault', q, IdsOf(secrets'))
  BY <1>1, <1>2, <1>3, <1>4, <1>5, RevokedFollow
<1>6. FewOk(vault', ident)
  <2>1. \A k \in DOMAIN vault'.rcpts : vault'.rcpts[k].fp = vault.rcpts[Came(i, k)].fp
    BY <1>3
  <2>2. Loses(vault, vault', i, Len(vault.rcpts))
    BY <1>3, <1>4, <2>1 DEF Loses
  <2>3. QED
    BY <1>1, <2>2, FewRevoked
<1>7. SecretsOk(secrets') /\ VaultOk(vault', secrets')
  BY <1>1, <1>3
<1>8. QED
  BY <1>1, <1>5, <1>6, <1>7, GoesOn

(* A grant. *)
LEMMA GoesGrant ==
  ASSUME IInv, NEW o \in Owners, NEW p \in People, NEW ids, NEW full \in BOOLEAN,
         Grant(o, p, ids, full)
  PROVE  Goes
<1> DEFINE fp == <<p, ident[p].now>>
           signer == <<o, ident[o].now>>
<1>1. /\ SecretsOk(secrets) /\ VaultOk(vault, secrets) /\ FewOk(vault, ident) /\ IdentOk(ident)
      /\ ident' = ident /\ ops' = ops + 1 /\ aim' = {p} /\ ident[p].now # None /\ o \in People
  BY OwnersAssumption DEF IInv, Grant, Command
<1>2. /\ secrets' = secrets
      /\ vault' = IF ident[o].now = None THEN vault ELSE Granted(vault, fp, ids, full, signer)
  BY <1>1, MigrateIs DEF Grant
<1>3. SecretsOk(secrets')
  BY <1>1, <1>2
<1>4. CASE ident[o].now = None
  <2>1. vault' = vault
    BY <1>2, <1>4
  <2>2. \A q \in People : Follows(vault, vault', q, IdsOf(secrets'))
    BY <2>1, KeepFollow
  <2>3. VaultOk(vault', secrets') /\ FewOk(vault', ident)
    BY <1>1, <1>2, <2>1
  <2>4. QED
    BY <1>1, <1>3, <2>2, <2>3, GoesOn
<1>5. CASE ident[o].now # None
  <2>1. fp \in Fps /\ signer \in Fps /\ fp[1] = p
    BY <1>1, <1>5 DEF IdentOk, Fps
  <2>2. vault' = Granted(vault, fp, ids, full, signer)
    BY <1>2, <1>5
  <2> HIDE DEF fp, signer
  <2>3. VaultOk(vault', secrets) /\ \E j : GrantedAt(vault, vault', fp, full, j)
    BY <1>1, <2>1, <2>2, GrantedIs
  <2>4. PICK j : GrantedAt(vault, vault', fp, full, j)
    BY <2>3
  <2>5. FewOk(vault', ident)
    BY <1>1, <2>4, FewGranted DEF fp
  <2>6. ASSUME NEW q \in People, q \notin aim' PROVE Follows(vault, vault', q, IdsOf(secrets'))
    BY <1>1, <2>1, <2>4, <2>6, GrantedFollow
  <2>7. VaultOk(vault', secrets')
    BY <1>2, <2>3
  <2>8. QED
    BY <1>1, <1>3, <2>5, <2>6, <2>7, GoesOn
<1>6. QED
  BY <1>4, <1>5

(* One more secret for a recipient. *)
LEMMA GoesAllowAdd ==
  ASSUME IInv, NEW o, NEW fp, NEW n \in Names, AllowAdd(o, fp, n) PROVE Goes
<1> DEFINE i    == At(vault, fp)
           id   == secrets[n].id
           more == IF id \in DOMAIN vault.rcpts[i].sdks THEN vault.rcpts[i].sdks
                   ELSE Insert(vault.rcpts[i].sdks, id, vault.wraps[id].sdk)
<1>1. /\ SecretsOk(secrets) /\ VaultOk(vault, secrets) /\ vault \in Vaults
      /\ ident' = ident /\ ops' = ops + 1 /\ i # 0 /\ n \in Present(secrets)
  BY DEF IInv, VaultOk, AllowAdd, Command, Present
<1>2. i \in DOMAIN vault.rcpts
  BY <1>1, RcptsAre, AtIs
<1>3. id \in DOMAIN vault.wraps
  BY <1>1 DEF VaultOk, IdsOf
<1>4. /\ secrets' = secrets
      /\ vault' = Sealed([vault EXCEPT !.rcpts[i].sdks = more, !.rcpts[i].full = FALSE])
  <2>1. MigrateAll(vault, secrets).vault = vault /\ MigrateAll(vault, secrets).secrets = secrets
    BY <1>1, MigrateIs
  <2>2. QED
    BY <1>3, <2>1 DEF AllowAdd
<1> HIDE DEF i, id
<1>5. /\ VaultOk(vault', secrets) /\ DOMAIN vault'.rcpts = DOMAIN vault.rcpts
      /\ \A j \in DOMAIN vault.rcpts : Keeps(vault, vault', j)
  <2>1. Added(vault, vault', secrets)
    BY <1>1, <1>2, <1>3, <1>4, AddedIs
  <2>2. QED
    BY <2>1 DEF Added
<1>6. \A j \in DOMAIN vault.rcpts : /\ vault'.rcpts[j].fp = vault.rcpts[j].fp
                                    /\ DOMAIN vault.rcpts[j].sdks \subseteq DOMAIN vault'.rcpts[j].sdks
  BY <1>5 DEF Keeps
<1>7. \A q \in People : Follows(vault, vault', q, IdsOf(secrets'))
  BY <1>5, <1>6, KeepFollow
<1>8. SecretsOk(secrets') /\ VaultOk(vault', secrets')
  BY <1>1, <1>4, <1>5
<1>9. QED
  BY <1>1, <1>5, <1>6, <1>7, <1>8, GoesSame

(* One secret less. *)
LEMMA GoesAllowRemove ==
  ASSUME IInv, NEW o, NEW fp, NEW n \in Names, AllowRemove(o, fp, n) PROVE Goes
<1> DEFINE i   == At(vault, fp)
           id  == secrets[n].id
           sdk == <<ops + 1, "allow">>
<1>1. /\ SecretsOk(secrets) /\ VaultOk(vault, secrets) /\ vault \in Vaults /\ ops \in Nat
      /\ vault.old = FALSE
      /\ ident' = ident /\ ops' = ops + 1 /\ i # 0 /\ n \in Present(secrets) /\ aim' = {fp[1]}
  BY DEF IInv, VaultOk, AllowRemove, Command, Present
<1>2. i \in DOMAIN vault.rcpts /\ vault.rcpts[i].fp = fp
  BY <1>1, RcptsAre, AtIs
<1>3. MigrateAll(vault, secrets).vault = vault /\ MigrateAll(vault, secrets).secrets = secrets
  BY <1>1, MigrateIs
<1>4. CASE id \notin DOMAIN vault.rcpts[i].sdks
  <2>1. secrets' = secrets /\ vault' = vault
    BY <1>1, <1>3, <1>4, SealedIs DEF AllowRemove
  <2>2. \A q \in People : Follows(vault, vault', q, IdsOf(secrets'))
    BY <2>1, KeepFollow
  <2>3. QED
    BY <1>1, <2>1, <2>2, GoesSame
<1>5. CASE id \in DOMAIN vault.rcpts[i].sdks
  <2>1. /\ secrets' = [secrets EXCEPT ![n].key = sdk]
        /\ vault' = Sealed(Rewrapped(vault, i, id, sdk))
    BY <1>3, <1>5 DEF AllowRemove
  <2>2. sdk \in Sdks
    BY <1>1 DEF Sdks
  <2> HIDE DEF i, sdk
  <2>3. /\ SecretsOk(secrets') /\ VaultOk(vault', secrets')
        /\ DOMAIN vault'.rcpts = DOMAIN vault.rcpts
        /\ \A j \in DOMAIN vault.rcpts : vault'.rcpts[j].fp = vault.rcpts[j].fp
                                        /\ (j # i => Keeps(vault, vault', j))
    <3>1. RewrappedTo(vault, vault', i, secrets')
      BY <1>1, <1>2, <1>5, <2>1, <2>2, RewrappedIs
    <3>2. QED
      BY <3>1 DEF RewrappedTo
  <2>4. ASSUME NEW q \in People, q \notin aim' PROVE Follows(vault, vault', q, IdsOf(secrets'))
    <3>1. \A j \in DOMAIN vault.rcpts : vault.rcpts[j].fp[1] = q =>
            DOMAIN vault.rcpts[j].sdks \subseteq DOMAIN vault'.rcpts[j].sdks
      BY <1>1, <1>2, <2>3, <2>4 DEF Keeps
    <3>2. QED
      BY <2>3, <3>1, KeepFollow
  <2>5. QED
    BY <1>1, <2>3, <2>4, GoesSame
<1>6. QED
  BY <1>4, <1>5

(* `cert init` and `cert migrate`. *)
LEMMA GoesIdentity ==
  ASSUME IInv, NEW p \in People, InitIdentity(p) \/ MigrateIdentity(p) PROVE Goes
<1>1. /\ SecretsOk(secrets) /\ VaultOk(vault, secrets) /\ FewOk(vault, ident) /\ IdentOk(ident)
      /\ vault' = vault /\ secrets' = secrets /\ ops' = ops + 1 /\ ops \in Nat
  BY DEF IInv, InitIdentity, MigrateIdentity, Command
<1>2. ident[p] \in [now : Keys \cup {None}, old : {None, Legacy}]
  BY <1>1 DEF IdentOk
<1>3. /\ ident' = [ident EXCEPT ![p] = ident'[p]]
      /\ ident'[p] \in [now : Keys \cup {None}, old : {None, Legacy}]
      /\ ident'[p].now = Modern
      /\ \/ ident[p].now = None /\ ident'[p].old = ident[p].old
         \/ ident[p].now = Legacy /\ ident'[p].old = Legacy
  <2>1. CASE InitIdentity(p)
    BY <1>1, <1>2, <2>1 DEF InitIdentity, IdentOk, Keys
  <2>2. CASE MigrateIdentity(p)
    BY <1>1, <1>2, <2>2 DEF MigrateIdentity, IdentOk, Keys
  <2>3. QED
    BY <2>1, <2>2
<1>4. IdentOk(ident') /\ \A q \in People : q # p => ident'[q] = ident[q]
  BY <1>1, <1>3 DEF IdentOk
<1>5. FewOk(vault', ident')
  <2>1. \A q \in People : ident'[q].now = Legacy => ident[q].now = Legacy
    BY <1>3, <1>4 DEF Modern, Legacy
  <2>2. QED
    BY <1>1, <2>1, FewIdent
<1>6. IInv'
  BY <1>1, <1>4, <1>5 DEF IInv
<1>7. ASSUME NEW q \in People PROVE Stays(vault, vault', ident, ident', q, IdsOf(secrets'))
  <2>1. ASSUME NEW i \in DOMAIN vault.rcpts, Opens(vault, ident, q, i)
        PROVE  Opens(vault, ident', q, i)
    <3>1. vault.rcpts[i].fp[2] \in Keys
      BY <1>1, RcptsAre DEF VaultOk, Rcpt, Fps
    <3>2. CASE q = p
      <4>1. ident[p].old # None => ident[p].now = Modern
        BY <1>1 DEF IdentOk
      <4>2. QED
        BY <1>2, <1>3, <2>1, <3>1, <3>2, <4>1 DEF Opens, Keys, None, Legacy, Modern
    <3>3. CASE q # p
      BY <1>4, <2>1, <3>3 DEF Opens
    <3>4. QED
      BY <3>2, <3>3
  <2>2. QED
    BY <1>1, <2>1 DEF Stays
<1>8. QED
  BY <1>6, <1>7 DEF Goes

(* `cert rekey`. *)
LEMMA GoesRekey ==
  ASSUME IInv, NEW p \in People, Rekey(p) PROVE Goes
<1> DEFINE i == At(vault, <<p, ident[p].old>>)
           fp == <<p, ident[p].now>>
<1>1. /\ SecretsOk(secrets) /\ VaultOk(vault, secrets) /\ FewOk(vault, ident) /\ IdentOk(ident)
      /\ vault \in Vaults /\ secrets' = secrets /\ ident' = ident /\ ops' = ops + 1 /\ ops \in Nat
      /\ ident[p].old # None /\ i # 0 /\ vault.rcpts[i].dek = vault.dek
      /\ vault' = Sealed(Rekeyed(vault, i, fp))
  BY DEF IInv, VaultOk, Rekey, Command, Commit
<1>2. ident[p].old = Legacy /\ ident[p].now = Modern
  BY <1>1 DEF IdentOk
<1>3. i \in DOMAIN vault.rcpts /\ vault.rcpts[i].fp = <<p, Legacy>>
  <2>1. i = At(vault, <<p, Legacy>>)
    BY <1>2
  <2> HIDE DEF i
  <2>2. QED
    BY <1>1, <2>1, RcptsAre, AtIs
<1>4. fp = <<p, Modern>> /\ fp \in Fps /\ vault.rcpts[i].fp[2] = Legacy
  BY <1>2, <1>3 DEF Fps, Keys
<1> HIDE DEF i, fp
<1>5. VaultOk(vault', secrets) /\ RekeyedAt(vault, vault', i, fp)
  BY <1>1, <1>3, <1>4, RekeyedIs
<1>6. FewOk(vault', ident)
  BY <1>1, <1>2, <1>3, <1>4, <1>5, FewRekeyed
<1>7. IInv'
  BY <1>1, <1>5, <1>6 DEF IInv
<1>8. ASSUME NEW q \in People PROVE Stays(vault, vault', ident, ident', q, IdsOf(secrets'))
  <2>1. \A j \in DOMAIN vault.rcpts : vault'.rcpts[j].fp[1] = vault.rcpts[j].fp[1]
    BY <1>3, <1>4, <1>5 DEF RekeyedAt
  <2>2. \A j \in DOMAIN vault.rcpts : DOMAIN vault'.rcpts[j].sdks = DOMAIN vault.rcpts[j].sdks
    BY <1>5 DEF RekeyedAt
  <2>3. ASSUME NEW j \in DOMAIN vault.rcpts, Opens(vault, ident, q, j)
        PROVE  Opens(vault', ident', q, j)
    <3>1. Only(vault', q, j)
      BY <1>5, <2>1, <2>3 DEF Only, Opens, RekeyedAt
    <3>2. CASE j = i
      <4>1. vault'.rcpts[j].fp = <<p, Modern>> /\ q = p
        BY <1>3, <1>4, <1>5, <2>3, <3>2 DEF RekeyedAt, Opens, Only
      <4>2. QED
        BY <1>1, <1>2, <3>1, <4>1 DEF Opens
    <3>3. CASE j # i
      BY <1>1, <1>5, <2>3, <3>1, <3>3 DEF Opens, RekeyedAt
    <3>4. QED
      BY <3>2, <3>3
  <2>4. DOMAIN vault'.rcpts = DOMAIN vault.rcpts
    BY <1>5 DEF RekeyedAt
  <2>5. QED
    BY <2>2, <2>3, <2>4 DEF Stays
<1>9. QED
  BY <1>7, <1>8 DEF Goes

(* Every command. *)
LEMMA Stepwise ==
  ASSUME IInv, Next PROVE Goes
<1>1. ASSUME NEW p \in People, EnableShared(p) \/ Configure(p) PROVE Goes
  BY <1>1, GoesEnable
<1>2. ASSUME NEW p \in People, NEW ns \in SUBSET Names, Upsert(p, ns) PROVE Goes
  BY <1>2, GoesUpsert
<1>3. ASSUME NEW p \in People, NEW n \in Names, Unset(p, n) PROVE Goes
  BY <1>3, GoesUnset
<1>4. ASSUME NEW p \in People, InitIdentity(p) \/ MigrateIdentity(p) PROVE Goes
  BY <1>4, GoesIdentity
<1>5. ASSUME NEW p \in People, Rekey(p) PROVE Goes
  BY <1>5, GoesRekey
<1>6. ASSUME NEW o \in Owners, Rotate(o) PROVE Goes
  BY <1>6, GoesRotate
<1>7. ASSUME NEW o \in Owners, NEW p \in People, NEW ids, NEW full \in BOOLEAN, Grant(o, p, ids, full)
      PROVE  Goes
  BY <1>7, GoesGrant
<1>8. ASSUME NEW o \in Owners, NEW fp, Revoke(o, fp) PROVE Goes
  BY <1>8, GoesRevoke
<1>9. ASSUME NEW o \in Owners, NEW fp, NEW n \in Names, AllowAdd(o, fp, n) PROVE Goes
  BY <1>9, GoesAllowAdd
<1>10. ASSUME NEW o \in Owners, NEW fp, NEW n \in Names, AllowRemove(o, fp, n) PROVE Goes
  BY <1>10, GoesAllowRemove
<1>11. QED
  BY <1>1, <1>2, <1>3, <1>4, <1>5, <1>6, <1>7, <1>8, <1>9, <1>10 DEF Next

(* IInv holds in every reachable state. *)
THEOREM Invariance ==
  ASSUME CurrentStarts PROVE Spec => []IInv
<1>1. Init => IInv
  BY Initially
<1>2. IInv /\ [Next]_vars => IInv'
  <2>1. CASE Next
    BY <2>1, Stepwise DEF Goes
  <2>2. CASE UNCHANGED vars
    BY <2>2 DEF vars, IInv
  <2>3. QED
    BY <2>1, <2>2
<1>3. QED
  BY <1>1, <1>2, PTL DEF Spec

-----------------------------------------------------------------------------
(* Reading, for given key pairs id: LocalAt, Access, OwnWrappings, CanRead.   *)

Found(id, v, p) ==
  LET now == At(v, <<p, id[p].now>>)
  IN  IF id[p].now # None /\ now # 0 THEN now ELSE At(v, <<p, id[p].old>>)

Way(id, v, p) ==
  LET i == Found(id, v, p)
      password == IF p \in Owners THEN "full" ELSE "denied"
  IN  IF ~v.shared \/ i = 0 THEN password
      ELSE CASE v.rcpts[i].dek = v.dek -> "full"
             [] v.rcpts[i].dek \notin {v.dek, NoKey} -> "tampered"
             [] v.rcpts[i].dek = NoKey -> IF DOMAIN v.rcpts[i].sdks # {}
                                          THEN "limited" ELSE password

Own(id, v, p, r) ==
  LET has(k) == k # None /\ At(v, <<p, k>>) # 0
                /\ r.id \in DOMAIN v.rcpts[At(v, <<p, k>>)].sdks
      sdk(k) == v.rcpts[At(v, <<p, k>>)].sdks[r.id]
  IN  CASE has(id[p].now)  -> {sdk(id[p].now)}
        [] ~has(id[p].now) -> IF has(id[p].old) THEN {sdk(id[p].old)} ELSE {}

Reads(id, v, s, p, n) ==
  /\ Way(id, v, p) \in {"full", "limited"}
  /\ IF ~v.shared THEN DekOpens(v, s[n])
     ELSE LET own == Own(id, v, p, s[n])
          IN  IF own = {} THEN v.rcpts = <<>> /\ DekOpens(v, s[n]) ELSE own = {s[n].key}

(* Reads is CanRead, of any identities. *)
LEMMA ReadsNow ==
  ASSUME NEW v, NEW s, NEW p, NEW n
  PROVE  CanRead(v, s, p, n) = Reads(ident, v, s, p, n)
BY DEF CanRead, Access, LocalAt, OwnWrappings, Reads, Way, Found, Own

(* Where nothing but entry i is of p. *)
LEMMA AtOne ==
  ASSUME NEW v \in Vaults, NEW p \in People, NEW i \in DOMAIN v.rcpts, Only(v, p, i), NEW k
  PROVE  At(v, <<p, k>>) = IF k = v.rcpts[i].fp[2] THEN i ELSE 0
<1>1. /\ v.rcpts \in Seq(Rcpt) /\ Len(v.rcpts) \in Nat /\ DOMAIN v.rcpts = 1 .. Len(v.rcpts)
      /\ v.rcpts[i] \in Rcpt
  BY RcptsAre
<1>2. v.rcpts[i].fp = <<p, v.rcpts[i].fp[2]>>
  BY <1>1 DEF Only, Rcpt, Fps
<1> DEFINE a == At(v, <<p, k>>)
<1>3. /\ a \in 0 .. Len(v.rcpts) /\ (a # 0 => v.rcpts[a].fp = <<p, k>>)
      /\ a = 0 => \A j \in DOMAIN v.rcpts : v.rcpts[j].fp # <<p, k>>
  BY <1>1, AtIs
<1> HIDE DEF a
<1>4. a # 0 => a = i
  BY <1>1, <1>3 DEF Only
<1>5. a = IF k = v.rcpts[i].fp[2] THEN i ELSE 0
  BY <1>1, <1>2, <1>3, <1>4
<1>6. QED
  BY <1>5 DEF a

(* A person with one entry reads what this entry has keys of. *)
LEMMA ReadsOne ==
  ASSUME NEW s, SecretsOk(s), NEW v, VaultOk(v, s), NEW id, IdentOk(id), NEW p \in People,
         NEW i \in DOMAIN v.rcpts, Only(v, p, i), NEW n \in Present(s)
  PROVE  /\ Found(id, v, p) # 0 => Opens(v, id, p, i)
         /\ Opens(v, id, p, i) => (Reads(id, v, s, p, n) <=> s[n].id \in DOMAIN v.rcpts[i].sdks)
<1> DEFINE now == id[p].now
           old == id[p].old
           r   == v.rcpts[i]
           k   == r.fp[2]
           x   == s[n].id
<1>1. /\ v \in Vaults /\ v.rcpts \in Seq(Rcpt) /\ DOMAIN v.rcpts = 1 .. Len(v.rcpts)
      /\ r \in Rcpt /\ Ok(v, r) /\ v.rcpts # <<>> /\ i # 0
  BY RcptsAre DEF VaultOk
<1>2. v.shared /\ k \in Keys /\ k # None
  BY <1>1 DEF VaultOk, Rcpt, Fps, Keys, None, Legacy, Modern
<1>3. /\ At(v, <<p, now>>) = IF now = k THEN i ELSE 0
      /\ At(v, <<p, old>>) = IF old = k THEN i ELSE 0
  <2> HIDE DEF now, old, k
  <2>1. \A y : At(v, <<p, y>>) = IF y = k THEN i ELSE 0
    BY <1>1, AtOne DEF k
  <2>2. QED
    BY <2>1
<1>4. k = old => now # old
  <2>1. id[p] \in [now : Keys \cup {None}, old : {None, Legacy}] /\ (old # None => now = Modern)
    BY DEF IdentOk
  <2>2. QED
    BY <1>2, <2>1 DEF None, Legacy, Modern
<1>5. Found(id, v, p) = IF k \in {now, old} THEN i ELSE 0
  BY <1>1, <1>2, <1>3 DEF Found
<1>6. Opens(v, id, p, i) <=> k \in {now, old}
  BY DEF Opens
<1> HIDE DEF k
<1>7. ASSUME k \in {now, old}
      PROVE  Own(id, v, p, s[n]) = IF x \in DOMAIN r.sdks THEN {r.sdks[x]} ELSE {}
  <2>1. CASE k = now
    BY <1>1, <1>2, <1>3, <1>4, <2>1 DEF Own
  <2>2. CASE k = old
    BY <1>1, <1>2, <1>3, <1>4, <2>2 DEF Own
  <2>3. QED
    BY <1>7, <2>1, <2>2
<1> HIDE DEF now, old
<1>8. x \in DOMAIN r.sdks => r.sdks[x] = s[n].key
  BY <1>1 DEF Ok, VaultOk
<1>9. ASSUME k \in {now, old}, x \in DOMAIN r.sdks PROVE Way(id, v, p) \in {"full", "limited"}
  <2>1. Found(id, v, p) = i /\ DOMAIN r.sdks # {} /\ r.dek \in {v.dek, NoKey}
    BY <1>1, <1>5, <1>9 DEF Ok
  <2>2. CASE r.dek = v.dek
    BY <1>1, <1>2, <2>1, <2>2 DEF Way
  <2>3. CASE r.dek # v.dek
    BY <1>1, <1>2, <2>1, <2>3 DEF Way
  <2>4. QED
    BY <2>2, <2>3
<1>10. ASSUME k \in {now, old} PROVE Reads(id, v, s, p, n) <=> x \in DOMAIN r.sdks
  <2>1. CASE x \in DOMAIN r.sdks
    <3>1. Own(id, v, p, s[n]) = {s[n].key}
      BY <1>7, <1>8, <1>10, <2>1
    <3>2. QED
      BY <1>2, <1>9, <1>10, <2>1, <3>1 DEF Reads
  <2>2. CASE x \notin DOMAIN r.sdks
    <3>1. Own(id, v, p, s[n]) = {}
      BY <1>7, <1>10, <2>2
    <3>2. QED
      BY <1>1, <1>2, <2>2, <3>1 DEF Reads
  <2>3. QED
    BY <2>1, <2>2
<1>11. QED
  BY <1>1, <1>5, <1>6, <1>10

-----------------------------------------------------------------------------
(* The theorems.                                                             *)

(* The invariant says that no wrapping is stale, *)
LEMMA CurrentWhen ==
  ASSUME IInv PROVE WrappingsCurrent
<1>1. /\ VaultOk(vault, secrets) /\ vault.wraps \in Bunch([sdk : Sdks, under : Deks])
      /\ DOMAIN vault.wraps = IdsOf(secrets)
  BY DEF IInv, VaultOk, Vaults
<1>2. ASSUME NEW n \in Present(secrets) PROVE DekOpens(vault, secrets[n])
  <2> DEFINE id == secrets[n].id
             x  == vault.wraps[id]
  <2>1. id \in DOMAIN vault.wraps
    BY <1>1 DEF IdsOf
  <2>2. x \in [sdk : Sdks, under : Deks]
    BY <1>1, <2>1, BunchIs
  <2>3. x.sdk = secrets[n].key /\ x.under = vault.dek
    BY <1>1 DEF VaultOk
  <2>4. x = [sdk |-> secrets[n].key, under |-> vault.dek]
    BY <2>2, <2>3
  <2>5. QED
    BY <2>1, <2>4 DEF DekOpens
<1>3. \A r \in Recipients(vault) : Ok(vault, r)
  BY <1>1 DEF Recipients, VaultOk
<1>4. QED
  BY <1>1, <1>2, <1>3 DEF WrappingsCurrent, Ok

(* No wrapping is ever stale: rotate_project_key_wrapping, upsert_record, unset,
   grant, allow, revoke and rekey, in any order and number, leave every record
   open with the project key and every recipient with the keys of now. *)
THEOREM NoWrappingIsStale ==
  ASSUME CurrentStarts PROVE Spec => []WrappingsCurrent
<1>1. IInv => WrappingsCurrent
  BY CurrentWhen
<1>2. QED
  BY <1>1, Invariance, PTL

(* ... that full access is every secret, *)
LEMMA FullWhen ==
  ASSUME IInv PROVE FullReadsAll
<1> SUFFICES ASSUME NEW p \in People, vault.shared, LocalAt(vault, p) # 0,
                    vault.rcpts[LocalAt(vault, p)].full
             PROVE  Access(vault, p) = "full"
                    /\ \A n \in Present(secrets) : CanRead(vault, secrets, p, n)
  BY DEF FullReadsAll
<1> DEFINE i == LocalAt(vault, p)
           r == vault.rcpts[i]
           now == At(vault, <<p, ident[p].now>>)
           old == At(vault, <<p, ident[p].old>>)
<1>1. /\ VaultOk(vault, secrets) /\ vault \in Vaults /\ IdentOk(ident)
      /\ vault.rcpts \in Seq(Rcpt) /\ DOMAIN vault.rcpts = 1 .. Len(vault.rcpts)
      /\ \A j \in DOMAIN vault.rcpts : vault.rcpts[j] \in Rcpt /\ Ok(vault, vault.rcpts[j])
  BY RcptsAre DEF IInv, VaultOk
<1>2. /\ now # 0 => now \in DOMAIN vault.rcpts
      /\ old # 0 => old \in DOMAIN vault.rcpts /\ vault.rcpts[old].fp = <<p, ident[p].old>>
  BY <1>1, AtIs
<1>3. old # 0 => ident[p].old # None
  BY <1>1, <1>2 DEF Rcpt, Fps, Keys, None, Legacy, Modern
<1>4. i = IF ident[p].now # None /\ now # 0 THEN now ELSE old
  BY DEF LocalAt
<1>5. i \in DOMAIN vault.rcpts /\ Ok(vault, r) /\ r.full /\ i # 0
  BY <1>1, <1>2, <1>4
<1>6. Access(vault, p) = "full"
  <2> HIDE DEF now, old
  <2>1. r.dek = vault.dek
    BY <1>5 DEF Ok
  <2>2. vault.dek # NoKey
    BY <1>1 DEF Vaults, Deks, NoKey
  <2>3. QED
    BY <1>5, <2>1, <2>2 DEF Access
<1>7. ASSUME NEW n \in Present(secrets) PROVE CanRead(vault, secrets, p, n)
  <2> DEFINE x == secrets[n].id
  <2>1. x \in DOMAIN vault.wraps /\ vault.wraps[x].sdk = secrets[n].key
    BY <1>1 DEF VaultOk, IdsOf
  <2>2. \A j \in DOMAIN vault.rcpts : x \in DOMAIN vault.rcpts[j].sdks =>
          vault.rcpts[j].sdks[x] = secrets[n].key
    BY <1>1, <2>1 DEF Ok
  <2>3. x \in DOMAIN r.sdks
    BY <1>5, <2>1 DEF Ok
  <2>4. OwnWrappings(vault, p, secrets[n]) = {secrets[n].key}
    <3> HIDE DEF x
    <3>1. CASE ident[p].now # None /\ now # 0 /\ x \in DOMAIN vault.rcpts[now].sdks
      BY <1>2, <2>2, <3>1 DEF OwnWrappings, x
    <3>2. CASE ~(ident[p].now # None /\ now # 0 /\ x \in DOMAIN vault.rcpts[now].sdks)
      <4>1. i = old /\ ~(ident[p].now # None /\ now # 0)
        BY <1>4, <2>3, <3>2
      <4>2. ident[p].old # None /\ old # 0 /\ x \in DOMAIN vault.rcpts[old].sdks
        BY <1>3, <1>5, <2>3, <4>1
      <4>3. QED
        BY <1>2, <2>2, <3>2, <4>2 DEF OwnWrappings, x
    <3>3. QED
      BY <3>1, <3>2
  <2>5. QED
    BY <1>6, <2>4 DEF CanRead
<1>8. QED
  BY <1>6, <1>7

(* Full access is every secret, under the current or the archived key pair, and
   its owner is never told that the vault was tampered with. *)
THEOREM FullAccessIsAll ==
  ASSUME CurrentStarts PROVE Spec => []FullReadsAll
<1>1. IInv => FullReadsAll
  BY FullWhen
<1>2. QED
  BY <1>1, Invariance, PTL

(* One entry by EntriesOf is the only one. *)
LEMMA EntryIs ==
  ASSUME NEW v \in Vaults, NEW p, EntriesOf(v, p) = 1
  PROVE  \E i \in DOMAIN v.rcpts : Only(v, p, i)
<1> DEFINE I == {i \in DOMAIN v.rcpts : v.rcpts[i].fp[1] = p}
<1>1. Len(v.rcpts) \in Nat /\ DOMAIN v.rcpts = 1 .. Len(v.rcpts)
  BY RcptsAre
<1>2. IsFiniteSet(I)
  <2>1. IsFiniteSet(1 .. Len(v.rcpts))
    BY <1>1, FS_Interval
  <2>2. QED
    BY <1>1, <2>1, FS_Subset
<1>3. Cardinality(I) = 1
  BY DEF EntriesOf
<1>4. \E i : I = {i}
  <2> HIDE DEF I
  <2>1. QED
    BY <1>2, <1>3, FS_Singleton
<1>5. PICK i : I = {i}
  BY <1>4
<1>6. i \in DOMAIN v.rcpts /\ Only(v, p, i)
  BY <1>5 DEF Only
<1>7. QED
  BY <1>6

(* Nobody who has one entry loses a secret by a command that is not about him:
   not by a rotation, not by the grant, the removal or the new key pair of
   somebody else, and not by his own `dl cert migrate`. *)
THEOREM RecipientsKeep ==
  ASSUME CurrentStarts PROVE Spec => RecipientsKeepReading
<1> DEFINE Kept ==
      \A p \in People, n \in Names :
         /\ EntriesOf(vault, p) = 1 /\ LocalAt(vault, p) # 0
         /\ secrets[n] # NoRecord /\ CanRead(vault, secrets, p, n)
         /\ secrets'[n].id = secrets[n].id /\ p \notin aim'
         => CanRead(vault, secrets, p, n)'
<1>1. ASSUME IInv, Next PROVE Kept
  <2> SUFFICES ASSUME NEW p \in People, NEW n \in Names,
                      EntriesOf(vault, p) = 1, LocalAt(vault, p) # 0,
                      secrets[n] # NoRecord, CanRead(vault, secrets, p, n),
                      secrets'[n].id = secrets[n].id, p \notin aim'
               PROVE  CanRead(vault, secrets, p, n)'
    OBVIOUS
  <2>1. /\ SecretsOk(secrets) /\ VaultOk(vault, secrets) /\ IdentOk(ident) /\ vault \in Vaults
        /\ n \in Present(secrets)
    BY <1>1 DEF IInv, VaultOk, Present
  <2>2. Goes
    BY <1>1, Stepwise
  <2>3. SecretsOk(secrets') /\ VaultOk(vault', secrets') /\ IdentOk(ident')
    BY <2>2 DEF Goes, IInv
  <2>4. PICK i \in DOMAIN vault.rcpts : Only(vault, p, i)
    BY <2>1, EntryIs
  <2>5. Found(ident, vault, p) # 0 /\ Reads(ident, vault, secrets, p, n)
    BY ReadsNow DEF LocalAt, Found
  <2>6. Opens(vault, ident, p, i) /\ secrets[n].id \in DOMAIN vault.rcpts[i].sdks
    BY <2>1, <2>4, <2>5, ReadsOne
  <2>7. PICK j \in DOMAIN vault'.rcpts :
          /\ Opens(vault', ident', p, j)
          /\ IdsOf(secrets') \cap DOMAIN vault.rcpts[i].sdks \subseteq DOMAIN vault'.rcpts[j].sdks
    BY <2>2, <2>6 DEF Goes, Stays
  <2>8. n \in Present(secrets')
    <3>1. secrets[n].id # <<>>
      <4>1. secrets[n].id \in {n} \X Nat
        BY <2>1 DEF SecretsOk
      <4>2. PICK m \in Nat : secrets[n].id = <<n, m>>
        BY <4>1
      <4>3. QED
        BY <4>2
    <3>2. QED
      BY <3>1 DEF Present, NoRecord
  <2>9. secrets'[n].id \in DOMAIN vault'.rcpts[j].sdks
    BY <2>6, <2>7, <2>8 DEF IdsOf
  <2>10. Reads(ident', vault', secrets', p, n)
    BY <2>3, <2>7, <2>8, <2>9, ReadsOne DEF Opens
  <2>11. CanRead(vault, secrets, p, n)' <=> Reads(ident', vault', secrets', p, n)
    BY DEF CanRead, Access, LocalAt, OwnWrappings, Reads, Way, Found, Own
  <2>12. QED
    BY <2>10, <2>11
<1>2. IInv /\ [Next]_vars => [Kept]_vars
  BY <1>1
<1>3. QED
  BY <1>2, Invariance, PTL DEF Spec, RecipientsKeepReading

(* Revoking the first entry of a fingerprint, if there is one. *)
Taken(v, w, fp) ==
  /\ Once(v, fp) => Of(w, fp) = {}
  /\ Twice(v, fp) => Once(w, fp)
  /\ \A g : (Of(v, g) = {} => Of(w, g) = {}) /\ (Twice(v, g) => Twice(w, g))

(* An entry revoked by its fingerprint, if there is one. *)
LEMMA TakenIs ==
  ASSUME NEW s, SecretsOk(s), NEW v, VaultOk(v, s), ops \in Nat, NEW fp,
         NEW w, w = IF At(v, fp) = 0 THEN v ELSE RevokedAndRotated(v, At(v, fp))
  PROVE  VaultOk(w, s) /\ Taken(v, w, fp)
<1> DEFINE i == At(v, fp)
           m == Len(v.rcpts)
<1>1. v \in Vaults /\ v.rcpts \in Seq(Rcpt) /\ m \in Nat /\ DOMAIN v.rcpts = 1 .. m
  BY RcptsAre DEF VaultOk
<1>2. /\ i \in 0 .. m /\ (i # 0 => v.rcpts[i].fp = fp)
      /\ i = 0 => \A j \in DOMAIN v.rcpts : v.rcpts[j].fp # fp
  BY <1>1, AtIs
<1>3. CASE i = 0
  <2>1. w = v
    BY <1>3
  <2>2. Of(v, fp) = {}
    BY <1>2, <1>3 DEF Of
  <2>3. QED
    BY <2>1, <2>2 DEF Taken, Once
<1>4. CASE i # 0
  <2>1. i \in 1 .. m /\ i \in DOMAIN v.rcpts /\ i \in Of(v, fp)
    BY <1>1, <1>2, <1>4 DEF Of
  <2>w. w = RevokedAndRotated(v, i)
    BY <1>4
  <2> HIDE DEF i
  <2>2. /\ VaultOk(w, s) /\ DOMAIN w.rcpts = 1 .. m - 1
        /\ \A k \in DOMAIN w.rcpts : w.rcpts[k].fp = v.rcpts[Came(i, k)].fp
    BY <1>1, <2>1, <2>w, RevokedIs
  <2>3. /\ \A k \in 1 .. m - 1 : Came(i, k) \in 1 .. m /\ Came(i, k) # i
        /\ \A k, l \in 1 .. m - 1 : Came(i, k) = Came(i, l) => k = l
    BY <1>1, <2>1, CameIs
  <2> HIDE DEF m
  <2>4. \A g : \A k \in Of(w, g) : /\ k \in 1 .. m - 1 /\ Came(i, k) # i
                                   /\ Came(i, k) \in Of(v, g)
    BY <1>1, <2>2, <2>3 DEF Of
  <2>5. Once(v, fp) => Of(w, fp) = {}
    BY <2>1, <2>4 DEF Once
  <2>6. Twice(v, fp) => Once(w, fp)
    BY <2>1, <2>3, <2>4 DEF Once, Twice
  <2>7. \A g : Of(v, g) = {} => Of(w, g) = {}
    BY <2>4
  <2>8. \A g : Twice(v, g) => Twice(w, g)
    BY <2>3, <2>4 DEF Twice
  <2>9. QED
    BY <2>2, <2>5, <2>6, <2>7, <2>8 DEF Taken
<1>5. QED
  BY <1>3, <1>4

(* ... and that an owner who revokes his entries and grants himself access reads
   every secret. *)
LEMMA RegainsWhen ==
  ASSUME IInv PROVE OwnerRegainsAll
<1> SUFFICES ASSUME NEW o \in Owners, ident[o].now # None
             PROVE  LET revoke(v, k) == LET i == At(v, <<o, k>>)
                                        IN  IF i = 0 THEN v ELSE RevokedAndRotated(v, i)
                        none  == revoke(revoke(revoke(vault, Legacy), Modern), Modern)
                        fp    == <<o, ident[o].now>>
                        again == Granted(none, fp, {}, TRUE, fp)
                    IN  \A n \in Present(secrets) : CanRead(again, secrets, o, n)
  BY DEF OwnerRegainsAll
<1> DEFINE revoke(v, k) == IF At(v, <<o, k>>) = 0 THEN v ELSE RevokedAndRotated(v, At(v, <<o, k>>))
           u1 == revoke(vault, Legacy)
           u2 == revoke(u1, Modern)
           u3 == revoke(u2, Modern)
           fp == <<o, ident[o].now>>
           again == Granted(u3, fp, {}, TRUE, fp)
<1>1. /\ SecretsOk(secrets) /\ VaultOk(vault, secrets) /\ IdentOk(ident) /\ FewOk(vault, ident)
      /\ ops \in Nat /\ o \in People
  BY OwnersAssumption DEF IInv
<1>2. fp \in Fps /\ ident[o].now \in Keys
  BY <1>1 DEF IdentOk, Fps
<1>3. VaultOk(u1, secrets) /\ Taken(vault, u1, <<o, Legacy>>)
  <2>1. u1 = IF At(vault, <<o, Legacy>>) = 0 THEN vault
             ELSE RevokedAndRotated(vault, At(vault, <<o, Legacy>>))
    OBVIOUS
  <2> HIDE DEF u1
  <2>2. QED
    BY <1>1, <2>1, TakenIs
<1>4. VaultOk(u2, secrets) /\ Taken(u1, u2, <<o, Modern>>)
  <2>1. u2 = IF At(u1, <<o, Modern>>) = 0 THEN u1
             ELSE RevokedAndRotated(u1, At(u1, <<o, Modern>>))
    OBVIOUS
  <2> HIDE DEF u1, u2
  <2>2. QED
    BY <1>1, <1>3, <2>1, TakenIs
<1>5. VaultOk(u3, secrets) /\ Taken(u2, u3, <<o, Modern>>)
  <2>1. u3 = IF At(u2, <<o, Modern>>) = 0 THEN u2
             ELSE RevokedAndRotated(u2, At(u2, <<o, Modern>>))
    OBVIOUS
  <2> HIDE DEF u1, u2, u3
  <2>2. QED
    BY <1>1, <1>4, <2>1, TakenIs
<1> HIDE DEF u1, u2, u3
<1>6. \A k \in Keys : Of(u3, <<o, k>>) = {}
  <2>1. Once(vault, <<o, Legacy>>) /\ Twice(vault, <<o, Modern>>)
    BY <1>1 DEF FewOk
  <2>2. Of(u3, <<o, Legacy>>) = {}
    BY <1>3, <1>4, <1>5, <2>1 DEF Taken
  <2>3. Of(u3, <<o, Modern>>) = {}
    BY <1>3, <1>4, <1>5, <2>1 DEF Taken
  <2>4. QED
    BY <2>2, <2>3 DEF Keys
<1>7. \A j \in DOMAIN u3.rcpts : u3.rcpts[j].fp[1] # o
  <2> SUFFICES ASSUME NEW j \in DOMAIN u3.rcpts, u3.rcpts[j].fp[1] = o PROVE FALSE
    OBVIOUS
  <2>1. u3.rcpts[j].fp \in Fps
    BY <1>5, RcptsAre DEF VaultOk, Rcpt
  <2>2. PICK k \in Keys : u3.rcpts[j].fp = <<o, k>>
    BY <2>1 DEF Fps
  <2>3. j \in Of(u3, <<o, k>>)
    BY <2>2 DEF Of
  <2>4. QED
    BY <1>6, <2>3
<1>8. VaultOk(again, secrets) /\ \E j : GrantedAt(u3, again, fp, TRUE, j)
  <2>1. ASSUME NEW full \in BOOLEAN, NEW w, w = Granted(u3, fp, {}, full, fp)
        PROVE  VaultOk(w, secrets) /\ \E j : GrantedAt(u3, w, fp, full, j)
    <3> HIDE DEF fp
    <3>1. QED
      BY <1>1, <1>2, <1>5, <2>1, GrantedIs
  <2>2. TRUE \in BOOLEAN /\ again = Granted(u3, fp, {}, TRUE, fp)
    OBVIOUS
  <2> HIDE DEF again, fp
  <2>3. QED
    BY <2>1, <2>2
<1>a. again = Granted(u3, fp, {}, TRUE, fp)
  OBVIOUS
<1> HIDE DEF again
<1>9. PICK j : GrantedAt(u3, again, fp, TRUE, j)
  BY <1>8
<1>10. j \in DOMAIN again.rcpts /\ Only(again, o, j) /\ Opens(again, ident, o, j)
  BY <1>7, <1>9 DEF GrantedAt, Only, Opens
<1>11. DOMAIN again.rcpts[j].sdks = IdsOf(secrets)
  BY <1>8, <1>9, <1>10 DEF GrantedAt, VaultOk, Ok
<1>12. ASSUME NEW n \in Present(secrets) PROVE CanRead(again, secrets, o, n)
  <2>1. Reads(ident, again, secrets, o, n)
    <3>1. secrets[n].id \in DOMAIN again.rcpts[j].sdks
      BY <1>11 DEF IdsOf
    <3>2. QED
      BY <1>1, <1>8, <1>10, <3>1, ReadsOne
  <2>2. QED
    BY <2>1, ReadsNow
<1>13. QED
  BY <1>12, <1>a DEF u1, u2, u3

(* An owner who has a key pair is never locked out for good: with the master
   password he revokes what entries he has - no more than one of the old key
   pair and two of the new - and grants himself full access, and reads all. *)
THEOREM OwnerComesBack ==
  ASSUME CurrentStarts PROVE Spec => []OwnerRegainsAll
<1>1. IInv => OwnerRegainsAll
  BY RegainsWhen
<1>2. QED
  BY <1>1, Invariance, PTL
=============================================================================
