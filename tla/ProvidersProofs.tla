--------------------------- MODULE ProvidersProofs ---------------------------
(***************************************************************************)
(* What the provider host hands to the engine, for every list of providers, *)
(* every reply, every tree and every set of roots.                         *)
(***************************************************************************)
EXTENDS ProvidersProps, TLAPS, NaturalsInduction, WellFoundedInduction

-----------------------------------------------------------------------------
(* The inductive invariant.                                                *)

(* The stages of a call, between its declaration and its fact.             *)
Calling == {"answer", "verify", "repo-file", "registry", "owner"}

(* A call works for the declaration it loaded, and goes the way of its     *)
(* kind: an executable answers once it is verified.                        *)
CallOK ==
    /\ run.i <= Len(Names) /\ Name \in DOMAIN past.decl /\ past.decl[Name] = run.decl
    /\ run.at = "answer" =>
          kind[Name] = "http" \/ (kind[Name] = "exec" /\ Name \in past.verified)
    /\ run.at = "verify" => kind[Name] = "exec"
    /\ run.at = "repo-file" => kind[Name] = "repo-file"
    /\ run.at \in {"registry", "owner"} => kind[Name] = "resource-owner"
    /\ run.at = "owner" =>
          /\ Name \in DOMAIN past.seen
          /\ past.seen[Name].from = "checkout" => past.seen[Name].target = Absent

(* ResolvedIsVetted and BuiltinsReadGovernedFiles, for one provider.       *)
FactOK(n) ==
    facts[n].state = "resolved" =>
        /\ n \in DOMAIN past.reply /\ n \in DOMAIN past.decl
        /\ kind[n] \in {"http", "exec"} => Vetted(n)
        /\ kind[n] = "exec" => n \in past.verified
        /\ kind[n] = "resource-owner" =>
              /\ n \in DOMAIN past.seen
              /\ facts[n].value = "checkout" => past.seen[n].target = Absent
        /\ kind[n] = "repo-file" => Governs(facts[n].value)

(* The records have their fields.                                          *)
Shape ==
    /\ run = [at |-> run.at, i |-> run.i, asOf |-> run.asOf, decl |-> run.decl,
              registry |-> run.registry, armed |-> run.armed]
    /\ past = [decl |-> past.decl, reply |-> past.reply, when |-> past.when, seen |-> past.seen,
               verified |-> past.verified]
    /\ run.i \in Nat \ {0} /\ run.asOf \in Nat /\ clock \in Nat /\ checkout \in Checkouts

(* Facts come in the order of the names: those before the current one.     *)
Earlier(n, i) == \E k \in 1..Len(Names) : k < i /\ n = Names[k]
HostInv ==
    /\ Shape
    /\ run.at = "start" => DOMAIN facts = {}
    /\ run.at \in Calling => CallOK
    /\ \A n \in DOMAIN facts : Earlier(n, run.i) /\ FactOK(n)

-----------------------------------------------------------------------------
(* Least and greatest elements.                                            *)

(* A set of numbers has a least one.                                       *)
LEMMA Least ==
    ASSUME NEW S \in SUBSET Nat, S # {}
    PROVE  Min(S) \in S /\ \A j \in S : Min(S) <= j
<1>1. \E x \in S : \A y \in S : ~(<<y, x>> \in OpToRel(<, Nat))
  BY NatLessThanWellFounded, WFMin
<1>2. PICK x \in S : \A y \in S : ~(<<y, x>> \in OpToRel(<, Nat))
  BY <1>1
<1>3. ASSUME NEW y \in S PROVE x <= y
  <2>1. x \in Nat /\ y \in Nat /\ <<y, x>> \in Nat \X Nat
    OBVIOUS
  <2>2. ~(y < x)
    BY <1>2, <2>1 DEF OpToRel
  <2> QED
    BY <2>1, <2>2
<1> QED
  BY <1>3 DEF Min

(* A bounded one has a greatest.                                           *)
LEMMA Greatest ==
    ASSUME NEW n \in Nat, NEW S \in SUBSET (1..n), S # {}
    PROVE  Max(S) \in S /\ \A j \in S : j <= Max(S)
<1> DEFINE T == {n - i : i \in S}
<1>1. T \in SUBSET Nat /\ T # {}
  <2>1. \A i \in S : i \in 1..n /\ n - i \in Nat
    OBVIOUS
  <2> QED
    BY <2>1
<1>2. Min(T) \in T /\ \A j \in T : Min(T) <= j
  BY <1>1, Least
<1>3. PICK x \in S : Min(T) = n - x
  BY <1>2
<1>4. \A y \in S : n - x <= n - y
  BY <1>2, <1>3
<1>5. \A y \in S : x >= y
  BY <1>4
<1> QED
  BY <1>5 DEF Max

(* Put changes a function at one place.                                    *)
LEMMA PutAt ==
    ASSUME NEW f, NEW n, NEW v
    PROVE  /\ DOMAIN Put(f, n, v) = DOMAIN f \union {n} /\ Put(f, n, v)[n] = v
           /\ \A x \in DOMAIN f : x # n => Put(f, n, v)[x] = f[x]
BY DEF Put

-----------------------------------------------------------------------------
(* The classifier.                                                         *)

(* What ResolveFactsChecked believes, the reply says, and says last.       *)
LEMMA Believed ==
    ASSUME NEW reply, NEW d, NEW n, run.asOf \in Nat,
           Len(reply.facts) \in Nat, DOMAIN reply.facts = 1..Len(reply.facts),
           \A i \in DOMAIN reply.facts : reply.facts[i].expires \in Int,
           ResolveFactsChecked(reply, d, n).state = "resolved"
    PROVE  /\ reply.queryId = n /\ reply.major = HostMajor
           /\ reply.status \notin {"error", "undecodable", "offSchema"}
           /\ \E i \in DOMAIN reply.facts :
                 LET f == reply.facts[i]
                 IN /\ f.name = d.output /\ f.like /\ f.state = "resolved"
                    /\ f.value = ResolveFactsChecked(reply, d, n).value /\ f.expires > run.asOf
                    /\ \A j \in i + 1..Len(reply.facts) : reply.facts[j].name # f.name
<1> DEFINE named == ByName(reply.facts, d.output)
           i == Max(named)
           f == reply.facts[i]
           v == ResolveFactsChecked(reply, d, n)
<1>1. /\ reply.status \notin {"error", "undecodable", "offSchema"} /\ reply.major = HostMajor
      /\ reply.queryId = n /\ named # {} /\ f.like /\ f.state = "resolved" /\ ~(f.expires <= run.asOf)
      /\ v.value = f.value
  BY DEF ResolveFactsChecked, Fact, AnswersQuery
<1>2. named \in SUBSET (1..Len(reply.facts))
  BY DEF ByName
<1>3. i \in named /\ \A j \in named : j <= i
  BY <1>1, <1>2, Greatest
<1>4. i \in DOMAIN reply.facts /\ f.name = d.output /\ f.expires \in Int
  BY <1>3 DEF ByName
<1>5. ASSUME NEW j \in i + 1..Len(reply.facts) PROVE reply.facts[j].name # d.output
  <2>1. i \in 1..Len(reply.facts)
    BY <1>4
  <2> HIDE DEF i
  <2>2. j \in 1..Len(reply.facts) /\ ~(j <= i)
    BY <2>1
  <2> QED
    BY <1>3, <2>2 DEF ByName
<1>6. f.expires > run.asOf
  BY <1>1, <1>4
<1> HIDE DEF i, v
<1> QED
  BY <1>1, <1>4, <1>5, <1>6 DEF v

-----------------------------------------------------------------------------
(* The walk of repo-file.                                                  *)

(* The candidate in the directory of the first m names of the change.      *)
Near(m) == Append(SubSeq(Anchor, 1, m), File)

(* n is the path of a file below the first m names of the path a.          *)
Under(n, a, f, m) ==
    /\ Len(n) = m + 1 /\ SubSeq(n, 1, m + 1) = n
    /\ \A j \in 1..m : SubSeq(n, 1, j) = SubSeq(a, 1, j)
    /\ IsPrefix(Front(n), a) /\ Last(n) = f

(* A name appended to a prefix of a path is such a path.                   *)
LEMMA Below ==
    ASSUME NEW S, NEW a \in Seq(S), NEW f \in S, NEW m \in 0..Len(a) - 1,
           NEW n, n = Append(SubSeq(a, 1, m), f)
    PROVE  n \in Seq(S) /\ Under(n, a, f, m)
<1> DEFINE s == SubSeq(a, 1, m)
<1>0. m \in Nat /\ m <= Len(a)
  OBVIOUS
<1>1. s \in Seq(S) /\ Len(s) = m /\ \A i \in 1..m : s[i] = a[i]
  BY <1>0
<1> HIDE DEF s
<1>2. n = Append(s, f)
  BY DEF s
<1>3. n \in Seq(S) /\ Len(n) = m + 1 /\ n[m + 1] = f /\ \A i \in 1..m : n[i] = a[i]
  BY <1>0, <1>1, <1>2
<1>4. SubSeq(n, 1, m + 1) = n
  BY <1>0, <1>3
<1>5. ASSUME NEW j \in 1..m PROVE SubSeq(n, 1, j) = SubSeq(a, 1, j)
  BY <1>0, <1>3
<1>6. Front(n) = SubSeq(n, 1, m) /\ Last(n) = f
  BY <1>0, <1>3 DEF Front, Last
<1>7. IsPrefix(Front(n), a)
  <2>1. SubSeq(n, 1, m) = s /\ Len(s) = m
    BY <1>0, <1>1, <1>3
  <2>2. SubSeq(s, 1, m) = s /\ SubSeq(a, 1, m) = s
    BY <1>0, <1>1 DEF s
  <2> QED
    BY <1>0, <1>6, <2>1, <2>2 DEF IsPrefix
<1> QED
  BY <1>3, <1>4, <1>5, <1>6, <1>7 DEF Under

(* The candidate lies below a prefix of the path of the change.            *)
LEMMA NearPath ==
    ASSUME NEW m \in 0..Len(Anchor) - 1
    PROVE  Near(m) \in Seq(STRING) /\ Under(Near(m), Anchor, File, m)
<1>1. Anchor \in Seq(STRING) /\ File \in STRING
  BY ProvidersAssumption
<1>3. PICK n : n = Append(SubSeq(Anchor, 1, m), File)
  OBVIOUS
<1>4. PICK T : T = STRING
  OBVIOUS
<1>5. Anchor \in Seq(T) /\ File \in T
  BY <1>1, <1>4
<1>6. n \in Seq(T) /\ Under(n, Anchor, File, m)
  BY <1>3, <1>5, Below
<1> QED
  BY <1>3, <1>4, <1>6 DEF Near

(* The directories of a path.                                              *)
LEMMA Dirs ==
    ASSUME NEW S, NEW a \in Seq(S), Len(a) >= 1, NEW d, d = Front(a)
    PROVE  /\ Len(d) = Len(a) - 1
           /\ \A k \in 1..Len(a) : SubSeq(d, 1, Len(d) + 1 - k) = SubSeq(a, 1, Len(a) - k)
<1>1. d \in Seq(S) /\ Len(d) = Len(a) - 1 /\ \A i \in 1..Len(a) - 1 : d[i] = a[i]
  <2>1. PICK l \in Nat : l = Len(a) - 1 /\ d = SubSeq(a, 1, l)
    BY DEF Front
  <2>2. SubSeq(a, 1, l) \in Seq(S) /\ Len(SubSeq(a, 1, l)) = l
    BY <2>1
  <2>3. \A i \in 1..l : SubSeq(a, 1, l)[i] = a[i]
    BY <2>1
  <2> QED
    BY <2>1, <2>2, <2>3
<1>2. ASSUME NEW k \in 1..Len(a) PROVE SubSeq(d, 1, Len(d) + 1 - k) = SubSeq(a, 1, Len(a) - k)
  BY <1>1
<1> QED
  BY <1>1, <1>2

(* The candidates, the nearest first.                                      *)
LEMMA CandidatePath ==
    /\ DOMAIN Candidates = 1..Len(Anchor)
    /\ \A k \in 1..Len(Anchor) : Candidates[k] = Near(Len(Anchor) - k)
<1> DEFINE dir == Front(Anchor)
<1>1. Anchor \in Seq(STRING) /\ Len(Anchor) >= 1
  BY ProvidersAssumption
<1>2. Len(Anchor) \in Nat
  BY <1>1
<1>3. /\ Len(dir) = Len(Anchor) - 1
      /\ \A k \in 1..Len(Anchor) :
            SubSeq(dir, 1, Len(dir) + 1 - k) = SubSeq(Anchor, 1, Len(Anchor) - k)
  BY <1>1, Dirs
<1>4. Candidates = [k \in 1..Len(dir) + 1 |-> Append(SubSeq(dir, 1, Len(dir) + 1 - k), File)]
  BY DEF Candidates
<1> HIDE DEF dir
<1>5. 1..Len(dir) + 1 = 1..Len(Anchor)
  BY <1>2, <1>3
<1> QED
  BY <1>3, <1>4, <1>5 DEF Near

(* What classifyCandidate says of a path.                                  *)
LEMMA Classified ==
    ASSUME checkout \in Checkouts, NEW p \in Seq(STRING), p # <<>>
    PROVE  /\ ClassifyCandidate(p) \in {"file", "symlink", "miss"}
           /\ ClassifyCandidate(p) = "file" =>
                 Plain(p) /\ p \in DOMAIN checkout.tree /\ EntryAt(p) \notin {"dir", "symlink"}
           /\ ClassifyCandidate(p) = "miss" =>
                 /\ Plain(p) => checkout.tree[p] = "dir"
                 /\ \A j \in 1..Len(p) : EntryAt(SubSeq(p, 1, j)) # "symlink"
<1> DEFINE bad == {k \in 1..Len(p) : EntryAt(SubSeq(p, 1, k)) \in {Absent, "symlink"}}
           first == EntryAt(SubSeq(p, 1, Min(bad)))
           tree == checkout.tree
<1>1. ClassifyCandidate(p) = IF bad # {} THEN IF first = "symlink" THEN "symlink" ELSE "miss"
                             ELSE IF EntryAt(p) = "dir" THEN "miss" ELSE "file"
  BY DEF ClassifyCandidate
<1>2. Len(p) \in Nat \ {0} /\ SubSeq(p, 1, Len(p)) = p /\ bad \in SUBSET Nat
  OBVIOUS
<1>3. \A q \in DOMAIN tree :
         /\ q \in Seq(STRING) /\ tree[q] \notin {Absent} /\ EntryAt(q) = tree[q]
         /\ \A k \in 1..Len(q) : SubSeq(q, 1, k) \in DOMAIN tree
  BY CheckoutsAssumption DEF Entries, Absent, EntryAt
<1>4. \A q : EntryAt(q) # Absent => q \in DOMAIN tree
  BY DEF EntryAt
<1>5. Plain(p) <=> bad = {}
  <2>1. ASSUME NEW k \in 1..Len(p)
        PROVE  k \notin bad <=> /\ SubSeq(p, 1, k) \in DOMAIN tree
                                /\ tree[SubSeq(p, 1, k)] # "symlink"
    BY <1>3, <1>4
  <2> QED
    BY <2>1 DEF Plain
<1>6. bad = {} => p \in DOMAIN tree /\ EntryAt(p) = tree[p] /\ tree[p] # "symlink"
  <2>1. Len(p) \in 1..Len(p)
    BY <1>2
  <2>2. Plain(p) => p \in DOMAIN tree /\ tree[p] # "symlink"
    BY <1>2, <2>1 DEF Plain
  <2> QED
    BY <1>3, <1>5, <2>2
<1>7. ASSUME bad # {}, first # "symlink", NEW j \in 1..Len(p), EntryAt(SubSeq(p, 1, j)) = "symlink"
      PROVE  FALSE
  <2> DEFINE m == Min(bad)
             q == SubSeq(p, 1, j)
  <2>1. m \in bad /\ m <= j /\ j \in bad
    BY <1>2, <1>7, Least
  <2>2. m \in 1..j /\ EntryAt(SubSeq(p, 1, m)) = Absent
    BY <1>7, <2>1
  <2> HIDE DEF m
  <2>3. q \in DOMAIN tree /\ Len(q) = j /\ SubSeq(q, 1, m) = SubSeq(p, 1, m)
    <3>1. q \in DOMAIN tree
      BY <1>4, <1>7 DEF Absent
    <3>2. Len(q) = j /\ SubSeq(q, 1, m) = SubSeq(p, 1, m)
      BY <1>2, <1>7, <2>2
    <3> QED
      BY <3>1, <3>2
  <2> QED
    BY <1>3, <2>2, <2>3
<1>8. bad = {} => \A j \in 1..Len(p) : EntryAt(SubSeq(p, 1, j)) # "symlink"
  OBVIOUS
<1> HIDE DEF bad, first
<1> QED
  BY <1>1, <1>5, <1>6, <1>7, <1>8

(* The nearest document of the walk governs the change.                    *)
LEMMA FoundGoverns ==
    ASSUME checkout \in Checkouts, FindMostSpecific # <<>>,
           ClassifyCandidate(FindMostSpecific) # "symlink",
           EntryAt(FindMostSpecific) \notin {"bad", "nokey"}
    PROVE  Governs(FindMostSpecific)
<1> DEFINE N == Len(Anchor)
           stops == {k \in DOMAIN Candidates :
                        InRoots(Candidates[k]) /\ StopsWalk(ClassifyCandidate(Candidates[k]))}
           c == Min(stops)
           m == N - c
           p == Near(m)
<1>1. N \in Nat \ {0} /\ stops \in SUBSET (1..N)
  BY CandidatePath, ProvidersAssumption
<1>2. stops # {} /\ FindMostSpecific = Candidates[c]
  BY DEF FindMostSpecific
<1>3. c \in stops /\ \A j \in stops : c <= j
  BY <1>1, <1>2, Least
<1>4. c \in 1..N /\ m \in 0..N - 1 /\ FindMostSpecific = p
  <2>1. c \in 1..N
    BY <1>1, <1>3
  <2> QED
    BY <1>1, <1>2, <2>1, CandidatePath
<1>5. InRoots(p) /\ StopsWalk(ClassifyCandidate(p))
  BY <1>2, <1>3, <1>4
<1> HIDE DEF c, stops
<1>6. /\ p \in Seq(STRING) /\ Len(p) = m + 1 /\ p # <<>>
      /\ IsPrefix(Front(p), Anchor) /\ Last(p) = File
  BY <1>4, NearPath DEF Under
<1>7. Plain(p) /\ checkout.tree[p] = "good"
  <2>1. ClassifyCandidate(p) = "file"
    BY <1>4, <1>5 DEF StopsWalk
  <2>2. Plain(p) /\ p \in DOMAIN checkout.tree /\ EntryAt(p) \notin {"dir", "symlink"}
    BY <1>6, <2>1, Classified
  <2>3. checkout.tree[p] \in Entries /\ EntryAt(p) = checkout.tree[p]
    BY <2>2, CheckoutsAssumption DEF EntryAt
  <2> QED
    BY <1>4, <2>2, <2>3 DEF Entries
<1>8. checkout.roots \ {<<>>} # {} => \E r \in checkout.roots : r # <<>> /\ IsPrefix(r, p)
  BY <1>5 DEF InRoots, UnderAnyRoot, Roots
<1>9. ASSUME NEW k \in Len(p)..N - 1, InRoots(Near(k))
      PROVE  /\ Plain(Near(k)) => checkout.tree[Near(k)] = "dir"
             /\ ~\E j \in 1..k : EntryAt(SubSeq(Anchor, 1, j)) = "symlink"
  <2>1. k \in 0..N - 1 /\ k > m /\ N - k \in 1..N /\ N - k < c
    BY <1>1, <1>4, <1>6, <1>9
  <2>2. Candidates[N - k] = Near(k) /\ N - k \in DOMAIN Candidates
    BY <1>1, <2>1, CandidatePath
  <2>3. N - k \notin stops
    BY <1>1, <1>3, <1>4, <2>1
  <2>4. ~StopsWalk(ClassifyCandidate(Near(k)))
    BY <1>9, <2>2, <2>3 DEF stops
  <2>5. /\ Near(k) \in Seq(STRING) /\ Near(k) # <<>> /\ Len(Near(k)) = k + 1
        /\ \A j \in 1..k : SubSeq(Near(k), 1, j) = SubSeq(Anchor, 1, j)
    <3>1. /\ Near(k) \in Seq(STRING) /\ Len(Near(k)) = k + 1
          /\ \A j \in 1..k : SubSeq(Near(k), 1, j) = SubSeq(Anchor, 1, j)
      BY <2>1, NearPath DEF Under
    <3> QED
      BY <2>1, <3>1
  <2>6. ClassifyCandidate(Near(k)) = "miss"
    BY <2>4, <2>5, Classified DEF StopsWalk
  <2>7. /\ Plain(Near(k)) => checkout.tree[Near(k)] = "dir"
        /\ \A j \in 1..k + 1 : EntryAt(SubSeq(Near(k), 1, j)) # "symlink"
    BY <2>5, <2>6, Classified
  <2>8. \A j \in 1..k : j \in 1..k + 1
    BY <2>1
  <2> QED
    BY <2>5, <2>7, <2>8
<1> QED
  BY <1>4, <1>6, <1>7, <1>8, <1>9 DEF Governs, Near

-----------------------------------------------------------------------------
(* The invariant is kept.                                                  *)

(* A name keeps what it has.                                               *)
Same(f, g, n) == n \in DOMAIN f => n \in DOMAIN g /\ g[n] = f[n]

(* What was read for a fact is never read again.                           *)
LEMMA FactStays ==
    ASSUME NEW n, FactOK(n), facts'[n] = facts[n], kind' = kind, checkout' = checkout,
           Same(past.reply, past'.reply, n), Same(past.decl, past'.decl, n),
           Same(past.seen, past'.seen, n), past.verified \subseteq past'.verified,
           run'.asOf = run.asOf
    PROVE  FactOK(n)'
<1>1. n \in DOMAIN past.reply /\ n \in DOMAIN past.decl /\ Vetted(n) => Vetted(n)'
  BY DEF Vetted, Same
<1>2. facts[n].state = "resolved" /\ kind[n] = "repo-file" /\ Governs(facts[n].value)
      => Governs(facts[n].value)'
  BY DEF Governs, Plain, EntryAt, InRoots, UnderAnyRoot, Roots
<1> QED
  BY <1>1, <1>2 DEF FactOK, Same

(* The name at the current place is not among those before it.             *)
LEMMA NameIsNew ==
    ASSUME run.i \in Nat \ {0}, run.i <= Len(Names)
    PROVE  /\ ~Earlier(Name, run.i) /\ Earlier(Name, run.i + 1)
           /\ \A n : Earlier(n, run.i) => Earlier(n, run.i + 1)
<1>1. Names \in Seq(STRING) /\ \A a, b \in DOMAIN Names : Names[a] = Names[b] => a = b
  BY ProvidersAssumption DEF IsInjective
<1>2. DOMAIN Names = 1..Len(Names) /\ Len(Names) \in Nat
  BY <1>1
<1> QED
  BY <1>1, <1>2 DEF Name, Earlier

(* Steps that leave the facts and their history alone.                     *)
LEMMA PlainInv ==
    ASSUME HostInv, UNCHANGED <<kind, checkout, facts, past>>, Shape',
           run'.i = run.i \/ (run'.i = run.i + 1 /\ run.i <= Len(Names)),
           run'.asOf = run.asOf \/ DOMAIN facts = {},
           \/ run'.at \notin Calling \union {"start"}
           \/ run'.at = run.at /\ run'.i = run.i /\ run'.decl = run.decl
    PROVE  HostInv'
<1>1. \A n \in DOMAIN facts' : FactOK(n)'
  BY FactStays DEF HostInv, Same
<1>2. \A n \in DOMAIN facts' : Earlier(n, run.i)'
  BY NameIsNew DEF HostInv, Shape, Earlier
<1>3. run'.at \in Calling => CallOK'
  BY DEF HostInv, CallOK, Calling, Name
<1>4. run'.at = "start" => DOMAIN facts' = {}
  BY DEF HostInv, Calling
<1> QED
  BY <1>1, <1>2, <1>3, <1>4 DEF HostInv

(* A fact is bound for the current name, from the reply it came with.      *)
LEMMA BindInv ==
    ASSUME HostInv, NEW reply, Bind(reply), run.at \in Calling,
           LET f == ResolveFactsChecked(reply, run.decl, Name)
           IN  f.state = "resolved" =>
                  /\ kind[Name] \in {"http", "exec"} =>
                        /\ reply.queryId = Name /\ reply.major = HostMajor /\ reply.status = "ok"
                        /\ \E i \in DOMAIN reply.facts :
                              LET g == reply.facts[i]
                              IN /\ g.name = run.decl.output /\ g.like /\ g.state = "resolved"
                                 /\ g.value = f.value /\ g.expires > run.asOf
                                 /\ \A j \in i + 1..Len(reply.facts) : reply.facts[j].name # g.name
                  /\ kind[Name] = "exec" => Name \in past.verified
                  /\ kind[Name] = "resource-owner" =>
                        /\ Name \in DOMAIN past.seen
                        /\ f.value = "checkout" => past.seen[Name].target = Absent
                  /\ kind[Name] = "repo-file" => Governs(f.value)
    PROVE  HostInv'
<1>1. PICK w, f : w = Name /\ f = ResolveFactsChecked(reply, run.decl, Name)
  OBVIOUS
<1>2. CallOK /\ Shape /\ run.i <= Len(Names)
  BY DEF HostInv, CallOK
<1>3. /\ run'.at = "declaration" /\ run'.i = run.i + 1 /\ run'.asOf = run.asOf /\ Shape'
      /\ UNCHANGED <<kind, checkout>>
  <2>1. run' = [run EXCEPT !.at = "declaration", !.i = @ + 1]
    BY DEF Bind, Skip
  <2>2. run' = [at |-> "declaration", i |-> run.i + 1, asOf |-> run.asOf, decl |-> run.decl,
                registry |-> run.registry, armed |-> run.armed]
    BY <1>2, <2>1 DEF Shape
  <2>3. past' = [past EXCEPT !.reply = Put(@, Name, reply), !.when = Put(@, Name, clock)]
    BY DEF Bind
  <2>4. past' = [decl |-> past.decl, reply |-> Put(past.reply, Name, reply),
                 when |-> Put(past.when, Name, clock), seen |-> past.seen,
                 verified |-> past.verified]
    BY <1>2, <2>3 DEF Shape
  <2>5. /\ run'.at = "declaration" /\ run'.i = run.i + 1 /\ run'.asOf = run.asOf
        /\ run'.decl = run.decl /\ run'.registry = run.registry /\ run'.armed = run.armed
    BY <2>2
  <2>6. UNCHANGED <<kind, checkout, clock>>
    BY DEF Bind, HostOnly
  <2>7. run.i + 1 \in Nat \ {0}
    BY <1>2 DEF Shape
  <2>8. past' = [decl |-> past'.decl, reply |-> past'.reply, when |-> past'.when,
                 seen |-> past'.seen, verified |-> past'.verified]
    BY <2>4
  <2> QED
    BY <1>2, <2>2, <2>5, <2>6, <2>7, <2>8 DEF Shape
<1>4. /\ past'.decl = past.decl /\ past'.seen = past.seen /\ past'.verified = past.verified
      /\ past'.reply = Put(past.reply, w, reply)
  BY <1>1, <1>2 DEF Bind, Shape
<1>5. facts' = Put(facts, w, f)
  BY <1>1 DEF Bind
<1>6. /\ DOMAIN facts' = DOMAIN facts \union {w} /\ facts'[w] = f /\ past'.reply[w] = reply
      /\ \A n \in DOMAIN facts : n # w => facts'[n] = facts[n] /\ Same(past.reply, past'.reply, n)
      /\ w \in DOMAIN past'.reply
  BY <1>4, <1>5 DEF Put, Same
<1>7. \A n \in DOMAIN facts : Earlier(n, run.i) /\ n # w /\ FactOK(n)
  BY <1>1, <1>2, NameIsNew DEF HostInv, Shape
<1>8. ASSUME NEW n \in DOMAIN facts PROVE FactOK(n)'
  BY <1>3, <1>4, <1>6, <1>7, FactStays DEF Same
<1>9. FactOK(w)'
  <2> SUFFICES ASSUME f.state = "resolved" PROVE FactOK(w)'
    BY <1>6 DEF FactOK
  <2>1. kind[w] \in {"http", "exec"} => Vetted(w)'
    BY <1>1, <1>2, <1>3, <1>4, <1>6 DEF Vetted, CallOK
  <2>2. kind[w] = "repo-file" => Governs(f.value)'
    <3>1. kind[w] = "repo-file" => Governs(f.value)
      BY <1>1
    <3> QED
      BY <1>3, <3>1 DEF Governs, Plain, EntryAt, InRoots, UnderAnyRoot, Roots
  <2>3. kind[w] = "repo-file" => Governs(facts[w].value)'
    BY <1>6, <2>2 DEF Governs, Plain, EntryAt, InRoots, UnderAnyRoot, Roots
  <2> QED
    BY <1>1, <1>2, <1>3, <1>4, <1>6, <2>1, <2>3 DEF FactOK, CallOK
<1>10. \A n \in DOMAIN facts' : Earlier(n, run.i)'
  <2>1. \A n \in DOMAIN facts' : Earlier(n, run.i + 1)
    BY <1>1, <1>2, <1>6, <1>7, NameIsNew DEF Shape
  <2> QED
    BY <1>3, <2>1 DEF Earlier
<1> QED
  BY <1>3, <1>6, <1>8, <1>9, <1>10 DEF HostInv, Calling

(* A new position in the run, field by field.                              *)
LEMMA Moves ==
    ASSUME Shape, NEW x, NEW i \in Nat \ {0}, NEW t \in Nat, NEW d, NEW g, NEW b,
           run' = [at |-> x, i |-> i, asOf |-> t, decl |-> d, registry |-> g, armed |-> b],
           past' = [decl |-> past'.decl, reply |-> past'.reply, when |-> past'.when,
                    seen |-> past'.seen, verified |-> past'.verified],
           clock' \in Nat, checkout' = checkout
    PROVE  /\ Shape' /\ run'.at = x /\ run'.i = i /\ run'.asOf = t /\ run'.decl = d
           /\ run'.registry = g /\ run'.armed = b
<1>1. /\ run'.at = x /\ run'.i = i /\ run'.asOf = t /\ run'.decl = d
      /\ run'.registry = g /\ run'.armed = b
  OBVIOUS
<1> QED
  BY <1>1 DEF Shape

(* Going to another stage.                                                 *)
LEMMA GotoMoves ==
    ASSUME Shape, NEW x, Goto(x), UNCHANGED <<past, clock, checkout>>
    PROVE  /\ Shape' /\ run'.at = x /\ run'.i = run.i /\ run'.asOf = run.asOf
           /\ run'.decl = run.decl /\ run'.armed = run.armed
<1>1. run' = [at |-> x, i |-> run.i, asOf |-> run.asOf, decl |-> run.decl,
              registry |-> run.registry, armed |-> run.armed]
  BY DEF Goto, Shape
<1>2. past' = [decl |-> past'.decl, reply |-> past'.reply, when |-> past'.when,
               seen |-> past'.seen, verified |-> past'.verified]
  BY DEF Shape
<1>3. run.i \in Nat \ {0} /\ run.asOf \in Nat /\ clock' \in Nat
  BY DEF Shape
<1> QED
  BY <1>1, <1>2, <1>3, Moves

(* Begin pins the instant before any fact is there.                        *)
LEMMA BeginInv ==
    ASSUME HostInv, Begin
    PROVE  HostInv'
<1>1. Shape /\ DOMAIN facts = {} /\ UNCHANGED <<kind, checkout, facts, past, clock>>
  BY DEF HostInv, Begin, At, HostOnly
<1>2. PICK x \in {"failed", "declaration"} : run' = [run EXCEPT !.at = x, !.asOf = clock]
  BY DEF Begin
<1>3. run' = [at |-> x, i |-> run.i, asOf |-> clock, decl |-> run.decl,
              registry |-> run.registry, armed |-> run.armed]
  BY <1>1, <1>2 DEF Shape
<1>4. /\ run.i \in Nat \ {0} /\ clock \in Nat
      /\ past' = [decl |-> past'.decl, reply |-> past'.reply, when |-> past'.when,
                  seen |-> past'.seen, verified |-> past'.verified]
  BY <1>1 DEF Shape
<1>5. Shape' /\ run'.at = x /\ run'.i = run.i
  BY <1>1, <1>3, <1>4, Moves
<1> QED
  BY <1>1, <1>2, <1>5, PlainInv DEF Calling

(* A declaration is loaded: the provider is skipped, refused or called.    *)
LEMMA LoadDeclarationInv ==
    ASSUME HostInv, LoadDeclaration
    PROVE  HostInv'
<1>1. /\ Shape /\ run.i <= Len(Names) /\ run.at = "declaration"
      /\ UNCHANGED <<kind, checkout, facts, clock>>
  BY DEF HostInv, LoadDeclaration, At, HostOnly
<1>2. run.i \in Nat \ {0} /\ run.asOf \in Nat /\ clock \in Nat
  BY <1>1 DEF Shape
<1>3. CASE UNCHANGED past /\ run' = Skip
  <2>1. run' = [at |-> "declaration", i |-> run.i + 1, asOf |-> run.asOf, decl |-> run.decl,
                registry |-> run.registry, armed |-> run.armed]
    BY <1>1, <1>3 DEF Skip, Shape
  <2>2. past' = [decl |-> past'.decl, reply |-> past'.reply, when |-> past'.when,
                 seen |-> past'.seen, verified |-> past'.verified]
    BY <1>1, <1>3 DEF Shape
  <2>3. Shape' /\ run'.at = "declaration" /\ run'.i = run.i + 1 /\ run'.asOf = run.asOf
    BY <1>1, <1>2, <2>1, <2>2, Moves
  <2> QED
    BY <1>1, <1>3, <2>3, PlainInv DEF Calling
<1>4. CASE UNCHANGED past /\ Goto("failed")
  BY <1>1, <1>4, GotoMoves, PlainInv DEF Calling
<1>5. ASSUME NEW d, d = target.decl[Name],
             run' = IF CallFor(kind[Name], d) = "skip" THEN Skip
                    ELSE [run EXCEPT !.at = CallFor(kind[Name], d), !.decl = d],
             past' = [past EXCEPT !.decl = Put(@, Name, d)]
      PROVE  HostInv'
  <2>1. PICK w : w = Name
    OBVIOUS
  <2>2. PICK x, y, i : /\ run' = [at |-> x, i |-> i, asOf |-> run.asOf, decl |-> y,
                                  registry |-> run.registry, armed |-> run.armed]
                       /\ \/ x = "declaration" /\ i = run.i + 1
                          \/ x = CallFor(kind[Name], d) /\ x # "skip" /\ i = run.i /\ y = d
    <3>1. CASE CallFor(kind[Name], d) = "skip"
      BY <1>1, <1>5, <3>1 DEF Shape, Skip
    <3>2. CASE CallFor(kind[Name], d) # "skip"
      BY <1>1, <1>5, <3>2 DEF Shape
    <3> QED
      BY <3>1, <3>2
  <2>3. past' = [decl |-> Put(past.decl, w, d), reply |-> past.reply, when |-> past.when,
                 seen |-> past.seen, verified |-> past.verified]
    BY <1>1, <1>5, <2>1 DEF Shape
  <2>4. /\ past'.decl = Put(past.decl, w, d) /\ past'.reply = past.reply /\ past'.seen = past.seen
        /\ past'.verified = past.verified
        /\ past' = [decl |-> past'.decl, reply |-> past'.reply, when |-> past'.when,
                    seen |-> past'.seen, verified |-> past'.verified]
    BY <2>3
  <2>5. i \in Nat \ {0}
    BY <1>2, <2>2
  <2>6. Shape' /\ run'.at = x /\ run'.i = i /\ run'.asOf = run.asOf /\ run'.decl = y
    BY <1>1, <1>2, <2>2, <2>4, <2>5, Moves
  <2>7. ASSUME NEW n \in DOMAIN facts' PROVE FactOK(n)' /\ Earlier(n, run.i)'
    <3>1. FactOK(n) /\ Earlier(n, run.i) /\ n # w
      BY <1>1, <1>2, <2>1, <2>7, NameIsNew DEF HostInv
    <3>2. Same(past.decl, past'.decl, n)
      BY <2>4, <3>1 DEF Same, Put
    <3>3. FactOK(n)'
      BY <1>1, <2>4, <2>6, <3>1, <3>2, FactStays DEF Same
    <3>4. Earlier(n, i)
      BY <1>1, <1>2, <2>2, <3>1, NameIsNew
    <3> QED
      BY <2>6, <3>3, <3>4 DEF Earlier
  <2>8. CASE x = "declaration" /\ i = run.i + 1
    BY <2>6, <2>7, <2>8 DEF HostInv, Calling
  <2>9. CASE x = CallFor(kind[Name], d) /\ x # "skip" /\ i = run.i /\ y = d
    <3>1. Name' = w
      BY <2>1, <2>6, <2>9 DEF Name
    <3>2. /\ x # "start" /\ x # "owner"
          /\ x = "answer" => kind[w] = "http"
          /\ x = "verify" => kind[w] = "exec"
          /\ x = "repo-file" => kind[w] = "repo-file"
          /\ x = "registry" => kind[w] = "resource-owner"
      BY <2>1, <2>9 DEF CallFor
    <3>3. w \in DOMAIN past'.decl /\ past'.decl[w] = d
      BY <2>4 DEF Put
    <3>4. run'.at \in Calling => CallOK'
      BY <1>1, <2>4, <2>6, <2>9, <3>1, <3>2, <3>3 DEF CallOK
    <3> QED
      BY <2>6, <2>7, <3>2, <3>4 DEF HostInv
  <2> QED
    BY <2>2, <2>8, <2>9
<1> QED
  BY <1>3, <1>4, <1>5 DEF LoadDeclaration

(* The answer of an outside provider is classified and bound.              *)
LEMMA AnswerInv ==
    ASSUME HostInv, CallHTTP \/ CallExec
    PROVE  HostInv'
<1>1. PICK reply \in Replies \union {CallFailed} : Bind(reply)
  BY DEF CallHTTP, CallExec, Answer
<1>2. run.at = "answer" /\ run.asOf \in Nat /\ CallOK
  BY DEF CallHTTP, CallExec, Answer, At, HostInv, Shape, Calling
<1>3. kind[Name] \in {"http", "exec"} /\ (kind[Name] = "exec" => Name \in past.verified)
  BY <1>2 DEF CallOK
<1> DEFINE f == ResolveFactsChecked(reply, run.decl, Name)
<1>4. ASSUME f.state = "resolved"
      PROVE  /\ reply.queryId = Name /\ reply.major = HostMajor /\ reply.status = "ok"
             /\ \E i \in DOMAIN reply.facts :
                   LET g == reply.facts[i]
                   IN /\ g.name = run.decl.output /\ g.like /\ g.state = "resolved"
                      /\ g.value = f.value /\ g.expires > run.asOf
                      /\ \A j \in i + 1..Len(reply.facts) : reply.facts[j].name # g.name
  <2>1. reply # CallFailed
    <3>1. ResolveFactsChecked(CallFailed, run.decl, Name).state # "resolved"
      BY DEF ResolveFactsChecked, CallFailed, Fact
    <3> QED
      BY <1>4, <3>1
  <2>2. /\ reply.status \in {"ok", "error", "undecodable", "offSchema"}
        /\ Len(reply.facts) \in Nat /\ DOMAIN reply.facts = 1..Len(reply.facts)
        /\ \A i \in DOMAIN reply.facts : reply.facts[i].expires \in Int
    BY <2>1, RepliesAssumption
  <2>3. PICK d, w, v : d = run.decl /\ w = Name /\ v = ResolveFactsChecked(reply, d, w)
    OBVIOUS
  <2>4. /\ reply.queryId = w /\ reply.major = HostMajor
        /\ reply.status \notin {"error", "undecodable", "offSchema"}
        /\ \E i \in DOMAIN reply.facts :
              LET g == reply.facts[i]
              IN /\ g.name = d.output /\ g.like /\ g.state = "resolved"
                 /\ g.value = v.value /\ g.expires > run.asOf
                 /\ \A j \in i + 1..Len(reply.facts) : reply.facts[j].name # g.name
    BY <1>2, <1>4, <2>2, <2>3, Believed
  <2> QED
    BY <2>2, <2>3, <2>4
<1> HIDE DEF f
<1> QED
  BY <1>1, <1>2, <1>3, <1>4, BindInv DEF Calling, f

(* An executable is verified and goes on to answer, or its call fails.     *)
LEMMA VerifyInv ==
    ASSUME HostInv, Verify
    PROVE  HostInv'
<1>1. run.at = "verify" /\ Shape /\ CallOK /\ run.i <= Len(Names)
  BY DEF Verify, At, HostInv, CallOK, Calling
<1>2. CASE Bind(CallFailed)
  <2>1. ResolveFactsChecked(CallFailed, run.decl, Name).state # "resolved"
    BY DEF ResolveFactsChecked, CallFailed, Fact
  <2> QED
    BY <1>1, <1>2, <2>1, BindInv DEF Calling
<1>3. CASE VerifyExecDigest
  <2>1. /\ Goto("answer") /\ UNCHANGED <<facts, kind, checkout, clock>>
        /\ past' = [past EXCEPT !.verified = @ \union {Name}]
    BY <1>3 DEF Verify, VerifyExecDigest, HostOnly
  <2>2. run' = [at |-> "answer", i |-> run.i, asOf |-> run.asOf, decl |-> run.decl,
                registry |-> run.registry, armed |-> run.armed]
    BY <1>1, <2>1 DEF Goto, Shape
  <2>3. past' = [decl |-> past.decl, reply |-> past.reply, when |-> past.when,
                 seen |-> past.seen, verified |-> past.verified \union {Name}]
    BY <1>1, <2>1 DEF Shape
  <2>4. /\ past'.decl = past.decl /\ past'.reply = past.reply /\ past'.seen = past.seen
        /\ past'.verified = past.verified \union {Name}
        /\ past' = [decl |-> past'.decl, reply |-> past'.reply, when |-> past'.when,
                    seen |-> past'.seen, verified |-> past'.verified]
    BY <2>3
  <2>5. run.i \in Nat \ {0} /\ run.asOf \in Nat /\ clock' \in Nat
    BY <1>1, <2>1 DEF Shape
  <2>6. /\ Shape' /\ run'.at = "answer" /\ run'.i = run.i /\ run'.asOf = run.asOf
        /\ run'.decl = run.decl
    BY <1>1, <2>1, <2>2, <2>4, <2>5, Moves
  <2>7. \A n \in DOMAIN facts' : FactOK(n)'
    BY <2>1, <2>4, <2>6, FactStays DEF HostInv, Same
  <2>8. CallOK'
    BY <1>1, <2>1, <2>4, <2>6 DEF CallOK, Name
  <2>9. \A n \in DOMAIN facts' : Earlier(n, run.i)'
    BY <2>1, <2>6 DEF HostInv, Earlier
  <2> QED
    BY <2>6, <2>7, <2>8, <2>9 DEF HostInv
<1> QED
  BY <1>2, <1>3 DEF Verify

(* What a builtin's reply resolves to.                                     *)
LEMMA BuiltinFact ==
    ASSUME NEW state, NEW value, NEW like, NEW age,
           ResolveFactsChecked(BuiltinReply(state, value, like, age), run.decl, Name).state = "resolved"
    PROVE  /\ state = "resolved" /\ like
           /\ ResolveFactsChecked(BuiltinReply(state, value, like, age), run.decl, Name).value = value
<1> DEFINE g == [name |-> run.decl.output, state |-> state, value |-> value,
                 expires |-> run.asOf + age, like |-> like]
           reply == BuiltinReply(state, value, like, age)
           named == ByName(reply.facts, run.decl.output)
           f == reply.facts[Max(named)]
           v == ResolveFactsChecked(reply, run.decl, Name)
<1>1. reply.facts = <<g>>
  BY DEF BuiltinReply
<1>2. named = {1}
  BY <1>1 DEF ByName
<1>3. Max(named) = 1
  BY <1>2 DEF Max
<1>4. f = g
  BY <1>1, <1>3
<1>5. f.like /\ f.state = "resolved" /\ v.value = f.value
  BY DEF ResolveFactsChecked, Fact
<1> QED
  BY <1>4, <1>5

(* repo-file answers with the document that governs.                       *)
LEMMA RepoFileInv ==
    ASSUME HostInv, CallRepoFile
    PROVE  HostInv'
<1> DEFINE doc == FindMostSpecific
           state == IF \/ Roots # {} /\ ~UnderAnyRoot(Anchor)
                       \/ doc = <<>> \/ ClassifyCandidate(doc) = "symlink"
                    THEN "unavailable"
                    ELSE IF EntryAt(doc) \in {"bad", "nokey"} THEN "invalid" ELSE "resolved"
           reply == BuiltinReply(state, doc, TRUE, run.decl.maxAge)
           f == ResolveFactsChecked(reply, run.decl, Name)
<1>1. run.at = "repo-file" /\ Bind(reply) /\ CallOK /\ checkout \in Checkouts
  BY DEF CallRepoFile, At, HostInv, Shape, Calling
<1>2. kind[Name] = "repo-file"
  BY <1>1 DEF CallOK
<1>3. state = "resolved" => Governs(doc)
  BY <1>1, FoundGoverns
<1> HIDE DEF state, doc
<1>4. f.state = "resolved" => state = "resolved" /\ f.value = doc
  <2>1. PICK like, age : like = TRUE /\ age = run.decl.maxAge
    OBVIOUS
  <2>2. reply = BuiltinReply(state, doc, like, age)
    BY <2>1
  <2> HIDE DEF reply
  <2> QED
    BY <2>2, BuiltinFact
<1>5. f.state = "resolved" => Governs(f.value)
  BY <1>3, <1>4
<1> HIDE DEF reply
<1> QED
  BY <1>1, <1>2, <1>5, BindInv DEF Calling

(* The registry is the target branch's unless that branch has none.        *)
LEMMA RegistryInv ==
    ASSUME HostInv, LoadResourceOwnerRegistry
    PROVE  HostInv'
<1>1. /\ run.at = "registry" /\ Shape /\ CallOK
      /\ UNCHANGED <<facts, kind, checkout, clock>>
  BY DEF LoadResourceOwnerRegistry, At, HostInv, Calling, HostOnly, Fail
<1>2. CASE Fail
  BY <1>1, <1>2, GotoMoves, PlainInv DEF Fail, Calling
<1> DEFINE new == [target |-> target.registry, from |-> RegistrySource]
<1>3. ASSUME NEW g, run' = [run EXCEPT !.at = "owner", !.registry = g],
             past' = [past EXCEPT !.seen = Put(@, Name, new)]
      PROVE  HostInv'
  <2>1. PICK w : w = Name
    OBVIOUS
  <2>2. run' = [at |-> "owner", i |-> run.i, asOf |-> run.asOf, decl |-> run.decl,
                registry |-> g, armed |-> run.armed]
    BY <1>1, <1>3 DEF Shape
  <2>3. new.from = "checkout" => new.target = Absent
    BY DEF RegistrySource
  <2> HIDE DEF new
  <2>4. past' = [decl |-> past.decl, reply |-> past.reply, when |-> past.when,
                 seen |-> Put(past.seen, w, new), verified |-> past.verified]
    BY <1>1, <1>3, <2>1 DEF Shape
  <2>5. /\ past'.decl = past.decl /\ past'.reply = past.reply
        /\ past'.seen = Put(past.seen, w, new) /\ past'.verified = past.verified
        /\ past' = [decl |-> past'.decl, reply |-> past'.reply, when |-> past'.when,
                    seen |-> past'.seen, verified |-> past'.verified]
    BY <2>4
  <2>6. run.i \in Nat \ {0} /\ run.asOf \in Nat /\ clock' \in Nat /\ run.i <= Len(Names)
    BY <1>1 DEF Shape, CallOK
  <2>7. /\ Shape' /\ run'.at = "owner" /\ run'.i = run.i /\ run'.asOf = run.asOf
        /\ run'.decl = run.decl
    BY <1>1, <2>2, <2>5, <2>6, Moves
  <2>8. ASSUME NEW n \in DOMAIN facts' PROVE FactOK(n)' /\ Earlier(n, run.i)'
    <3>1. FactOK(n) /\ Earlier(n, run.i) /\ n # w
      BY <1>1, <2>1, <2>6, <2>8, NameIsNew DEF HostInv
    <3>2. Same(past.seen, past'.seen, n)
      BY <2>5, <3>1 DEF Same, Put
    <3>3. FactOK(n)'
      BY <1>1, <2>5, <2>7, <3>1, <3>2, FactStays DEF Same
    <3> QED
      BY <2>7, <3>1, <3>3 DEF Earlier
  <2>9. w \in DOMAIN past'.seen /\ past'.seen[w] = new /\ Name' = w
    BY <2>1, <2>5, <2>7 DEF Put, Name
  <2>10. CallOK'
    BY <1>1, <2>1, <2>3, <2>5, <2>7, <2>9 DEF CallOK
  <2> QED
    BY <2>7, <2>8, <2>10 DEF HostInv
<1> QED
  BY <1>2, <1>3 DEF LoadResourceOwnerRegistry

(* resource-owner names the registry it read.                              *)
LEMMA OwnerInv ==
    ASSUME HostInv, CallResourceOwner
    PROVE  HostInv'
<1> DEFINE state == IF run.decl.output # "owner" THEN "invalid"
                    ELSE IF run.registry = "lacks" THEN "unavailable" ELSE "resolved"
           from == past.seen[Name].from
           reply == BuiltinReply(state, from, IsOwnerDeclaration(run.decl), OwnerDeclaration.maxAge)
           f == ResolveFactsChecked(reply, run.decl, Name)
<1>1. run.at = "owner" /\ Bind(reply) /\ CallOK
  BY DEF CallResourceOwner, At, HostInv, Calling
<1>2. /\ kind[Name] = "resource-owner" /\ Name \in DOMAIN past.seen
      /\ from = "checkout" => past.seen[Name].target = Absent
  BY <1>1 DEF CallOK
<1>3. f.state = "resolved" => f.value = from
  BY BuiltinFact
<1> HIDE DEF reply
<1> QED
  BY <1>1, <1>2, <1>3, BindInv DEF Calling

(* The end of the run, the clock and the world around it.                  *)
LEMMA RestInv ==
    ASSUME HostInv,
           \/ ForgeFails \/ Resolved \/ Arm \/ Tick \/ TargetMoves \/ BinaryReplaced
           \/ UNCHANGED vars
    PROVE  HostInv'
<1>1. Shape
  BY DEF HostInv
<1>2. CASE ForgeFails \/ Resolved
  <2>1. PICK x \in {"failed", "arm"} : Goto(x) /\ UNCHANGED <<kind, checkout, facts, past, clock>>
    BY <1>2 DEF ForgeFails, Resolved, Fail, HostOnly
  <2> QED
    BY <1>1, <2>1, GotoMoves, PlainInv DEF Calling
<1>3. CASE Arm
  <2>1. PICK b : run' = [run EXCEPT !.at = "done", !.armed = b]
    BY <1>3 DEF Arm
  <2>2. UNCHANGED <<kind, checkout, facts, past, clock>>
    BY <1>3 DEF Arm, HostOnly
  <2>3. run' = [at |-> "done", i |-> run.i, asOf |-> run.asOf, decl |-> run.decl,
                registry |-> run.registry, armed |-> b]
    BY <1>1, <2>1 DEF Shape
  <2>4. /\ run.i \in Nat \ {0} /\ run.asOf \in Nat /\ clock \in Nat
        /\ past' = [decl |-> past'.decl, reply |-> past'.reply, when |-> past'.when,
                    seen |-> past'.seen, verified |-> past'.verified]
    BY <1>1, <2>2 DEF Shape
  <2>5. Shape' /\ run'.at = "done" /\ run'.i = run.i /\ run'.asOf = run.asOf
    BY <1>1, <2>2, <2>3, <2>4, Moves
  <2> QED
    BY <2>2, <2>5, PlainInv DEF Calling
<1>4. CASE Tick \/ TargetMoves \/ BinaryReplaced \/ UNCHANGED vars
  <2>1. UNCHANGED <<kind, checkout, facts, past, run>> /\ clock' \in Nat
    <3>1. CASE Tick
      BY <1>1, <3>1 DEF Tick, Shape
    <3>2. CASE TargetMoves \/ BinaryReplaced \/ UNCHANGED vars
      BY <1>1, <3>2 DEF TargetMoves, BinaryReplaced, vars, Shape
    <3> QED
      BY <1>4, <3>1, <3>2
  <2>2. Shape'
    BY <1>1, <2>1 DEF Shape
  <2> QED
    BY <2>1, <2>2, PlainInv
<1> QED
  BY <1>2, <1>3, <1>4

(* The host starts with no facts.                                          *)
LEMMA HostInit == Init => HostInv
<1> SUFFICES ASSUME Init PROVE HostInv
  OBVIOUS
<1>1. /\ run.at = "start" /\ run.i = 1 /\ run.asOf = 0 /\ clock = 0 /\ DOMAIN facts = {}
      /\ checkout \in Checkouts
  BY DEF Init, NoneYet
<1>2. Shape
  BY <1>1 DEF Init, Shape
<1> QED
  BY <1>1, <1>2 DEF HostInv, Calling

(* The invariant of the host.                                              *)
LEMMA HostHolds == Spec => []HostInv
<1>1. HostInv /\ [Next]_vars => HostInv'
  BY BeginInv, LoadDeclarationInv, AnswerInv, VerifyInv, RepoFileInv, RegistryInv, OwnerInv, RestInv
     DEF Next, Host, Terminated
<1> QED
  BY <1>1, HostInit, PTL DEF Spec

(* Whatever replies, duplicates and late answers a transport delivers, a    *)
(* resolved fact of an http or exec provider is the last of its name in the *)
(* answer to this query, in the host's major, like the declaration of the   *)
(* target branch and valid at the pinned instant; an executable gave it     *)
(* after its digest was verified (ResolveFactsChecked, CallExec).           *)
THEOREM ResolvedFactsAreVetted == Spec => []ResolvedIsVetted
<1>1. HostInv => ResolvedIsVetted
  BY DEF HostInv, FactOK, ResolvedIsVetted, ResolvedBy
<1> QED
  BY <1>1, HostHolds, PTL

(* A builtin's fact is read from the file that governs, for every tree,     *)
(* every set of roots and every depth of the change, although the target    *)
(* branch moves while the host works (findMostSpecific, loadRegistry).      *)
THEOREM BuiltinsReadTheGoverningFile == Spec => []BuiltinsReadGovernedFiles
<1>1. HostInv => BuiltinsReadGovernedFiles
  BY DEF HostInv, FactOK, BuiltinsReadGovernedFiles, ResolvedBy
<1> QED
  BY <1>1, HostHolds, PTL

(* The merge is armed only on controlling facts that are still valid at the *)
(* moment of arming (controllingFactsFreshAt).                              *)
THEOREM ArmingChecksTheClock == Spec => ArmedOnLiveFacts
<1>1. ASSUME HostInv, [Next]_vars, run'.armed, ~run.armed
      PROVE  \/ DOMAIN facts = {}
             \/ \A n \in Controlling : n \in DOMAIN facts /\ facts[n].state = "resolved"
                                         /\ facts[n].expires > clock
  <2>1. CASE Arm
    <3>1. run'.armed = ControllingFactsFreshAt(clock)
      BY <1>1, <2>1 DEF Arm, ArmTime, HostInv, Shape
    <3> QED
      BY <1>1, <3>1 DEF ControllingFactsFreshAt
  <2>2. CASE ~Arm
    <3>1. ASSUME NEW reply, Bind(reply) PROVE run'.armed = run.armed
      BY <1>1, <3>1 DEF Bind, Skip, HostInv, Shape
    <3>2. ASSUME NEW x, Goto(x) PROVE run'.armed = run.armed
      BY <1>1, <3>2 DEF Goto, HostInv, Shape
    <3>3. CASE Begin
      BY <1>1, <3>3 DEF Begin, HostInv, Shape
    <3>4. CASE LoadDeclaration
      <4>1. \/ run' = Skip \/ Goto("failed")
            \/ run' = [run EXCEPT !.at = CallFor(kind[Name], target.decl[Name]),
                                  !.decl = target.decl[Name]]
        BY <3>4 DEF LoadDeclaration
      <4> QED
        BY <1>1, <3>2, <4>1 DEF Skip, HostInv, Shape
    <3>5. CASE LoadResourceOwnerRegistry
      <4>1. Goto("failed") \/ \E g : run' = [run EXCEPT !.at = "owner", !.registry = g]
        BY <3>5 DEF LoadResourceOwnerRegistry, Fail
      <4> QED
        BY <1>1, <3>2, <4>1 DEF HostInv, Shape
    <3>6. CASE CallHTTP \/ CallExec \/ Verify \/ CallRepoFile \/ CallResourceOwner
      <4>1. Goto("answer") \/ \E reply : Bind(reply)
        BY <3>6 DEF CallHTTP, CallExec, Answer, Verify, CallRepoFile, CallResourceOwner
      <4> QED
        BY <1>1, <3>1, <3>2, <4>1
    <3>7. CASE ForgeFails \/ Resolved
      BY <1>1, <3>2, <3>7 DEF ForgeFails, Resolved, Fail
    <3>8. CASE Tick \/ TargetMoves \/ BinaryReplaced \/ UNCHANGED vars
      BY <1>1, <3>8 DEF Tick, TargetMoves, BinaryReplaced, vars
    <3> QED
      BY <1>1, <2>2, <3>3, <3>4, <3>5, <3>6, <3>7, <3>8 DEF Next, Host, Terminated
  <2> QED
    BY <2>1, <2>2
<1>2. HostInv /\ [Next]_vars =>
        [run'.armed /\ ~run.armed =>
            \/ DOMAIN facts = {}
            \/ \A n \in Controlling : n \in DOMAIN facts /\ facts[n].state = "resolved"
                                        /\ facts[n].expires > clock]_vars
  BY <1>1
<1> QED
  BY <1>2, HostHolds, PTL DEF Spec, ArmedOnLiveFacts
==============================================================================
