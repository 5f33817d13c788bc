-------------------------- MODULE GuestFilesProofs --------------------------
(***************************************************************************)
(* Proofs about GuestFiles, for any sandbox, any set of excluded prefixes, *)
(* any names, places and links, and any number of threads.                 *)
(***************************************************************************)
EXTENDS GuestFiles, SequenceTheorems, TLAPS

(***************************************************************************)
(* Paths.                                                                  *)
(***************************************************************************)

\* Short sequences are sequences.
LEMMA ShortSeqs ==
  ASSUME NEW S, NEW x \in S, NEW y \in S
  PROVE  <<x>> \in Seq(S) /\ <<x, y>> \in Seq(S)
<1>1. <<x>> \in Seq(S)
  OBVIOUS
<1>2. <<x, y>> \in Seq(S)
  OBVIOUS
<1>3. QED
  BY <1>1, <1>2

\* And so is a pair with a third component behind it.
LEMMA ThreeJoined ==
  ASSUME NEW x, NEW y, NEW z
  PROVE  /\ <<x, y>> \o <<z>> = <<x, y, z>>
         /\ \A S : {x, y, z} \subseteq S => <<x, y, z>> \in Seq(S)
<1> DEFINE T == {x, y, z}
<1>1. <<x, y>> \in Seq(T) /\ <<z>> \in Seq(T) /\ <<x, y, z>> \in Seq(T)
  <2>1. x \in T /\ y \in T /\ z \in T
    OBVIOUS
  <2> HIDE DEF T
  <2>2. QED
    BY <2>1
<1> HIDE DEF T
<1>2. <<x, y>> \o <<z>> \in Seq(T) /\ Len(<<x, y>> \o <<z>>) = 3
  BY <1>1, ConcatProperties
<1>3. \A i \in 1..3 : (<<x, y>> \o <<z>>)[i] = <<x, y, z>>[i]
  BY <1>1
<1>4. ASSUME NEW S, {x, y, z} \subseteq S PROVE <<x, y, z>> \in Seq(S)
  <2>1. x \in S /\ y \in S /\ z \in S
    BY <1>4
  <2>2. QED
    BY <2>1
<1>5. QED
  BY <1>1, <1>2, <1>3, <1>4, SeqEqual

\* Paths can be joined, in any order of joining, and the lengths add up.
LEMMA PathConcat ==
  /\ \A s, t \in Paths : s \o t \in Paths /\ Len(s \o t) = Len(s) + Len(t)
  /\ \A s, t, u \in Paths : (s \o t) \o u = s \o (t \o u)
<1>1. \A s, t \in Paths : s \o t \in Paths /\ Len(s \o t) = Len(s) + Len(t)
  BY ConcatProperties DEF Paths
<1>2. \A s, t, u \in Paths : (s \o t) \o u = s \o (t \o u)
  BY ConcatAssociative DEF Paths
<1>3. QED
  BY <1>1, <1>2

\* A prefix, component by component.
LEMMA PrefixMeans ==
  ASSUME NEW p \in Paths, NEW s \in Paths
  PROVE  IsPrefix(p, s) <=> Len(p) <= Len(s) /\ \A i \in 1..Len(p) : p[i] = s[i]
<1>1. ASSUME IsPrefix(p, s) PROVE Len(p) <= Len(s) /\ \A i \in 1..Len(p) : p[i] = s[i]
  <2>1. Len(p) <= Len(s) /\ SubSeq(p, 1, Len(p)) = SubSeq(s, 1, Len(p))
    BY <1>1 DEF IsPrefix
  <2>2. ASSUME NEW i \in 1..Len(p) PROVE p[i] = s[i]
    <3>1. SubSeq(p, 1, Len(p))[i] = p[i] /\ SubSeq(s, 1, Len(p))[i] = s[i]
      BY <2>1 DEF Paths
    <3>2. QED
      BY <2>1, <3>1
  <2>3. QED
    BY <2>1, <2>2
<1>2. ASSUME Len(p) <= Len(s), \A i \in 1..Len(p) : p[i] = s[i] PROVE IsPrefix(p, s)
  <2>1. SubSeq(p, 1, Len(p)) = p
    BY SubSeqFull DEF Paths
  <2>2. /\ SubSeq(s, 1, Len(p)) \in Seq(Components) /\ Len(SubSeq(s, 1, Len(p))) = Len(p)
        /\ \A i \in 1..Len(p) : SubSeq(s, 1, Len(p))[i] = s[i]
    BY <1>2 DEF Paths
  <2>3. SubSeq(s, 1, Len(p)) = p
    BY <1>2, <2>2, SeqEqual DEF Paths
  <2>4. QED
    BY <1>2, <2>1, <2>3 DEF IsPrefix
<1>3. QED
  BY <1>1, <1>2

\* A prefix that is not empty has the path's first component.
LEMMA PrefixFirst ==
  ASSUME NEW p \in Paths, NEW s \in Paths, IsPrefix(p, s), p # <<>>
  PROVE  p[1] = s[1]
<1>1. Len(p) >= 1
  BY DEF Paths
<1>2. QED
  BY <1>1, PrefixMeans DEF Paths

\* map_path puts the sandbox in front and unmap_path takes it off: they are inverse.
LEMMA MapUnmap ==
  /\ \A p \in Paths : InSandbox(p) => UnmapPath(p) \in Paths /\ Root \o UnmapPath(p) = p
  /\ \A p \in Paths : InSandbox(Root \o p) /\ UnmapPath(Root \o p) = p
<1>1. Root \in Seq(Components) /\ Len(Root) \in Nat
  BY PathsAssumption DEF Paths
<1>2. ASSUME NEW p \in Paths, InSandbox(p)
      PROVE  UnmapPath(p) \in Paths /\ Root \o UnmapPath(p) = p
  <2>1. Len(Root) <= Len(p) /\ SubSeq(p, 1, Len(Root)) = SubSeq(Root, 1, Len(Root))
    BY <1>2 DEF InSandbox, Under, IsPrefix
  <2>2. SubSeq(Root, 1, Len(Root)) = Root /\ SubSeq(p, 1, Len(p)) = p
    BY <1>1, SubSeqFull DEF Paths
  <2>3. /\ p \in Seq(Components) /\ 1 \in 1 .. Len(p) + 1
        /\ Len(Root) \in 1 - 1 .. Len(p) /\ Len(p) \in Len(Root) .. Len(p)
    BY <1>1, <2>1 DEF Paths
  <2>4. SubSeq(p, 1, Len(Root)) \o SubSeq(p, Len(Root) + 1, Len(p)) = SubSeq(p, 1, Len(p))
    BY <2>3, ConcatAdjacentSubSeq
  <2>5. UnmapPath(p) \in Seq(Components)
    <3>1. \A i \in Len(Root) + 1 .. Len(p) : p[i] \in Components
      BY <1>1, <2>3
    <3>2. QED
      BY <1>1, <2>3, <3>1, SubSeqProperties DEF UnmapPath
  <2>6. QED
    BY <2>1, <2>2, <2>4, <2>5 DEF UnmapPath, Paths
<1>3. ASSUME NEW p \in Paths PROVE InSandbox(Root \o p) /\ UnmapPath(Root \o p) = p
  <2>1. /\ Root \o p \in Seq(Components) /\ Len(Root \o p) = Len(Root) + Len(p)
        /\ \A i \in 1 .. Len(Root) + Len(p) :
             (Root \o p)[i] = IF i <= Len(Root) THEN Root[i] ELSE p[i - Len(Root)]
    BY <1>1, ConcatProperties DEF Paths
  <2>2. InSandbox(Root \o p)
    <3>1. Len(Root) <= Len(Root \o p) /\ \A i \in 1..Len(Root) : Root[i] = (Root \o p)[i]
      BY <1>1, <2>1 DEF Paths
    <3>2. IsPrefix(Root, Root \o p)
      BY <1>1, <2>1, <3>1, PrefixMeans DEF Paths
    <3>3. QED
      BY <3>2 DEF InSandbox, Under
  <2>3. /\ UnmapPath(Root \o p) \in Seq(Components) /\ Len(UnmapPath(Root \o p)) = Len(p)
        /\ \A i \in 1..Len(p) : UnmapPath(Root \o p)[i] = p[i]
    BY <1>1, <2>1 DEF UnmapPath, Paths
  <2>4. UnmapPath(Root \o p) = p
    BY <2>3, SeqEqual DEF Paths
  <2>5. QED
    BY <2>2, <2>4
<1>4. QED
  BY <1>2, <1>3

\* The alias table, spelt out.
LEMMA AliasFacts ==
  /\ DOMAIN Alias = {"system", "vendor", "apex", "data", "storage", "etc", "bin", "xbin"}
  /\ \A c \in DOMAIN Alias : Alias[c] \in Paths
<1>1. DOMAIN Alias = {"system", "vendor", "apex", "data", "storage", "etc", "bin", "xbin"}
  BY DEF Alias
<1>2. /\ Alias["system"] = <<"system">> /\ Alias["vendor"] = <<"vendor">>
      /\ Alias["apex"] = <<"apex">> /\ Alias["data"] = <<"data">>
      /\ Alias["storage"] = <<"storage">>
  BY DEF Alias
<1>3. /\ Alias["etc"] = <<"system", "etc">> /\ Alias["bin"] = <<"system", "bin">>
      /\ Alias["xbin"] = <<"system", "xbin">>
  BY DEF Alias
<1>4. /\ <<"system">> \in Paths /\ <<"vendor">> \in Paths /\ <<"apex">> \in Paths
      /\ <<"data">> \in Paths /\ <<"storage">> \in Paths
      /\ <<"system", "etc">> \in Paths /\ <<"system", "bin">> \in Paths
      /\ <<"system", "xbin">> \in Paths
  BY PathsAssumption, ShortSeqs DEF Paths
<1>5. QED
  BY <1>1, <1>2, <1>3, <1>4

\* What an alias makes of a path the kernel takes is not cut: its buffer is larger.
LEMMA ResolveFacts ==
  ASSUME NEW p \in Paths, HasAlias(p)
  PROVE  /\ Alias[Head(p)] \o Tail(p) \in Paths
         /\ Len(ResolvePath(p)) <= PathMax =>
              ResolvePath(p) = Root \o (Alias[Head(p)] \o Tail(p))
         /\ Len(Root \o (Alias[Head(p)] \o Tail(p))) < OutSize =>
              ResolvePath(p) = Root \o (Alias[Head(p)] \o Tail(p))
<1> DEFINE q == Alias[Head(p)] \o Tail(p)
           r == Root \o Alias[Head(p)] \o Tail(p)
<1>1. p \in Seq(Components) /\ p # <<>> /\ Root \in Seq(Components)
  BY PathsAssumption DEF HasAlias, Paths
<1>2. Alias[Head(p)] \in Seq(Components) /\ Tail(p) \in Seq(Components)
  BY <1>1, AliasFacts, HeadTailProperties DEF HasAlias, Paths
<1>3. q \in Seq(Components) /\ r \in Seq(Components) /\ r = Root \o q
  <2>1. \A a, t \in Paths : a \o t \in Paths /\ Root \o a \o t \in Paths
                            /\ Root \o a \o t = Root \o (a \o t)
    BY <1>1, PathConcat DEF Paths
  <2>2. QED
    BY <1>2, <2>1 DEF Paths
<1>4. ResolvePath(p) = SubSeq(r, 1, IF Len(r) < OutSize THEN Len(r) ELSE OutSize)
  BY DEF ResolvePath
<1>5. CASE Len(r) < OutSize
  <2>1. ResolvePath(p) = r
    BY <1>3, <1>4, <1>5, SubSeqFull
  <2>2. QED
    BY <1>3, <2>1 DEF Paths
<1>6. CASE ~(Len(r) < OutSize)
  <2>1. Len(ResolvePath(p)) = OutSize
    <3>1. Len(r) \in Nat /\ OutSize \in Nat /\ OutSize <= Len(r)
      BY <1>3, <1>6, SizesAssumption
    <3>2. Len(SubSeq(r, 1, OutSize)) = OutSize
      BY <1>3, <3>1
    <3>3. QED
      BY <1>4, <1>6, <3>2
  <2>2. ~(OutSize <= PathMax)
    BY SizesAssumption
  <2>3. QED
    BY <1>3, <1>6, <2>1, <2>2 DEF Paths
<1>7. QED
  BY <1>5, <1>6

(***************************************************************************)
(* The placeholders and the inductive invariant.                           *)
(***************************************************************************)

\* A process works in a directory whose path the kernel takes.
HereFits == Len(cwd) <= PathMax

\* A placeholder a thread has passed, or this process's whole tree holds, is there, or its
\* creation has failed.
PassedInv ==
  \A k \in 1..Len(Placeholders) :
    (done \/ \E t \in Threads : k < job[t]) =>
      Backing(Placeholders[k]) \in placed \/ Placeholders[k] \in missed

IInv == TypeOK /\ HereFits /\ PassedInv

\* The placeholders: five directories and then two files.
LEMMA PlaceholderNames ==
  /\ Len(Placeholders) = 7
  /\ ToSet(Placeholders) = {Placeholders[k] : k \in 1..7}
  /\ Placeholders[1] = <<"proc">> /\ Placeholders[2] = <<"proc", "self">>
  /\ Placeholders[3] = <<"proc", "net">> /\ Placeholders[4] = <<"sys">>
  /\ Placeholders[5] = <<"sys", "class">> /\ Placeholders[6] = <<"proc", "version">>
  /\ Placeholders[7] = <<"proc", "self", "status">>
  /\ \A k \in 1..7 : Placeholders[k] \in Paths
<1>1. Len(Placeholders) = 7 /\ DOMAIN Placeholders = 1..7
  BY DEF Placeholders
<1>2. ToSet(Placeholders) = {Placeholders[k] : k \in 1..7}
  BY <1>1 DEF ToSet
<1>3. /\ Placeholders[1] = <<"proc">> /\ Placeholders[2] = <<"proc", "self">>
      /\ Placeholders[3] = <<"proc", "net">> /\ Placeholders[4] = <<"sys">>
      /\ Placeholders[5] = <<"sys", "class">> /\ Placeholders[6] = <<"proc", "version">>
  BY DEF Placeholders, Self
<1>4. {"proc", "self", "net", "sys", "class", "version", "status"} \subseteq Components
  BY PathsAssumption
<1>5. Placeholders[7] = <<"proc", "self", "status">> /\ Placeholders[7] \in Paths
  <2>1. Placeholders[7] = Self \o <<"status">>
    BY DEF Placeholders
  <2>2. QED
    BY <1>4, <2>1, ThreeJoined DEF Paths, Self
<1>6. /\ Placeholders[1] \in Paths /\ Placeholders[2] \in Paths
      /\ Placeholders[3] \in Paths /\ Placeholders[4] \in Paths
      /\ Placeholders[5] \in Paths /\ Placeholders[6] \in Paths
  BY <1>3, <1>4, ShortSeqs DEF Paths
<1>7. QED
  BY <1>1, <1>2, <1>3, <1>5, <1>6

\* What opendir makes is a directory or a file, as the table says.
LEMMA PlaceholderKinds ==
  \A k \in 1..7 : Classify(Placeholders[k]) = IF k <= 5 THEN "Dir" ELSE "File"
<1> DEFINE P(k) == Placeholders[k]
<1>1. <<"proc">> \in Paths /\ <<"sys">> \in Paths
  BY PlaceholderNames
<1>2. \A k \in 1..7 : /\ Under(P(k), <<"proc">>) <=> P(k)[1] = "proc"
                      /\ Under(P(k), <<"sys">>) <=> P(k)[1] = "sys"
  <2>1. ASSUME NEW k \in 1..7
        PROVE  /\ Under(P(k), <<"proc">>) <=> P(k)[1] = "proc"
               /\ Under(P(k), <<"sys">>) <=> P(k)[1] = "sys"
    <3>1. P(k) \in Paths /\ Len(P(k)) >= 1
      BY PlaceholderNames
    <3>2. QED
      BY <1>1, <3>1, PrefixMeans DEF Under
  <2>2. QED
    BY <2>1
<1>3. \A k \in 1..7 : IsVirtual(P(k)) /\ (Under(P(k), <<"sys">>) <=> k \in 4..5)
  BY <1>2, PlaceholderNames DEF IsVirtual
<1>4. P(1) = <<"proc">> /\ P(2) = Self /\ P(3) = <<"proc", "net">>
  BY PlaceholderNames DEF Self
<1>5. P(6) = <<"proc", "version">> /\ P(7) = Self \o <<"status">>
  BY PlaceholderNames DEF Placeholders
<1>6. /\ P(6) \notin {<<"proc">>, Self, <<"proc", "net">>, Own}
      /\ P(7) \notin {<<"proc">>, Self, <<"proc", "net">>, Own}
  BY PlaceholderNames DEF Self, Own
<1>7. \A k \in 1..5 : Classify(P(k)) = "Dir"
  <2>1. \A k \in 1..5 : IsVirtual(P(k)) /\ (k \in 4..5 => Under(P(k), <<"sys">>))
    BY <1>3
  <2>2. /\ <<"proc", "self">> \o <<"status">> = <<"proc", "self", "status">>
        /\ <<"proc", "pid">> \o <<"status">> = <<"proc", "pid", "status">>
    BY ThreeJoined
  <2>3. ASSUME NEW k \in 1..5
        PROVE  P(k) \notin {<<"proc", "version">>, Self \o <<"status">>, Own \o <<"status">>}
    BY <2>2, PlaceholderNames DEF Self, Own
  <2>4. \A k \in 1..5 :
          P(k) \in {<<"proc">>, Self, <<"proc", "net">>, Own} \/ Under(P(k), <<"sys">>)
    BY <2>1, <1>4
  <2>5. QED
    BY <2>1, <2>3, <2>4 DEF Classify
<1>8. Classify(P(6)) = "File" /\ Classify(P(7)) = "File"
  BY <1>3, <1>5, <1>6 DEF Classify
<1>9. QED
  BY <1>7, <1>8

\* Two paths with one backing place are one path.
LEMMA BackingIsOneToOne ==
  ASSUME NEW p \in Paths, NEW q \in Paths, Backing(p) = Backing(q)
  PROVE  p = q
<1> DEFINE v == <<".virtual">>
           r == Root \o v
<1>1. r \in Paths /\ Backing(p) = r \o p /\ Backing(q) = r \o q
  BY PathsAssumption, ShortSeqs, PathConcat DEF Backing, Paths
<1> HIDE DEF r
<1>2. Len(p) = Len(q)
  <2>1. Len(r \o p) = Len(r) + Len(p) /\ Len(r \o q) = Len(r) + Len(q)
    BY <1>1, PathConcat
  <2>2. Len(r) \in Nat /\ Len(p) \in Nat /\ Len(q) \in Nat
    BY <1>1 DEF Paths
  <2>3. r \o p = r \o q
    BY <1>1
  <2>4. Len(r) + Len(p) = Len(r) + Len(q)
    BY <2>1, <2>3
  <2>5. QED
    BY <2>2, <2>4
<1>3. ASSUME NEW k \in 1..Len(p) PROVE p[k] = q[k]
  <2>1. r \in Seq(Components) /\ p \in Seq(Components) /\ q \in Seq(Components)
    BY <1>1 DEF Paths
  <2>2. (r \o p)[Len(r) + k] = p[k] /\ (r \o q)[Len(r) + k] = q[k]
    BY <1>2, <2>1
  <2>3. QED
    BY <1>1, <2>2
<1>4. QED
  BY <1>2, <1>3, SeqEqual DEF Paths

\* mkdir of a placeholder's directory makes exactly the directory its open looks for.
LEMMA PlaceholderPlaces ==
  ASSUME NEW p \in Paths, Len(p) <= 2
  PROVE  MapPath(<<".virtual">> \o p) = {Backing(p)}
<1> DEFINE v == <<".virtual">>
           path == v \o p
<1>1. v \in Paths /\ Len(v) = 1 /\ v[1] = ".virtual"
  BY PathsAssumption, ShortSeqs DEF Paths
<1>2. path \in Paths /\ Len(path) = 1 + Len(p) /\ path[1] = ".virtual" /\ path # <<>>
  <2>1. path \in Paths /\ Len(path) = 1 + Len(p)
    BY <1>1, PathConcat
  <2>2. path[1] = v[1]
    BY <1>1, ConcatProperties DEF Paths
  <2>3. path # <<>>
    BY <2>1 DEF Paths
  <2>4. QED
    BY <1>1, <2>1, <2>2, <2>3
<1>3. ~InSandbox(path)
  <2>1. Root \in Paths /\ Root # <<>> /\ Root[1] # ".virtual"
    BY PathsAssumption, SizesAssumption DEF Paths
  <2>2. QED
    BY <1>2, <2>1, PrefixFirst DEF InSandbox, Under
<1>4. ~IsVirtual(path)
  <2>1. <<"proc">> \in Paths /\ <<"sys">> \in Paths
    BY PlaceholderNames
  <2>2. /\ IsPrefix(<<"proc">>, path) => <<"proc">>[1] = path[1]
        /\ IsPrefix(<<"sys">>, path) => <<"sys">>[1] = path[1]
    BY <1>2, <2>1, PrefixFirst
  <2>3. QED
    BY <1>2, <2>2 DEF IsVirtual, Under
<1>5. ~IsExcluded(path)
  <2>1. SUFFICES ASSUME NEW e \in Excluded, IsPrefix(e, path) PROVE FALSE
    BY DEF IsExcluded, Under
  <2>2. e \in Paths /\ ~IsPrefix(e, v) /\ ~IsPrefix(v, e)
    BY PathsAssumption, SizesAssumption
  <2>3. Len(e) <= Len(path) /\ \A i \in 1..Len(e) : e[i] = path[i]
    BY <1>2, <2>1, <2>2, PrefixMeans
  <2>4. ~(Len(e) <= 1 /\ \A i \in 1..Len(e) : e[i] = v[i])
    BY <1>1, <2>2, PrefixMeans
  <2>5. ~(1 <= Len(e) /\ e[1] = v[1])
    BY <1>1, <2>2, PrefixMeans
  <2>6. Len(e) \in Nat
    BY <2>2 DEF Paths
  <2>7. QED
    BY <1>1, <1>2, <2>3, <2>4, <2>5, <2>6
<1>6. ~HasAlias(path)
  <2>1. Head(path) = ".virtual"
    BY <1>2 DEF Paths
  <2>2. QED
    BY <2>1, AliasFacts DEF HasAlias
<1>7. Root \o path = Backing(p) /\ Len(Root \o path) <= OutSize
  <2>1. Root \in Paths /\ Len(Root) + 3 <= PathMax /\ PathMax < OutSize
    BY PathsAssumption, SizesAssumption
  <2>2. Root \o path = Backing(p)
    BY <1>1, <2>1, PathConcat DEF Backing
  <2>3. Len(Root \o path) = Len(Root) + (1 + Len(p)) /\ Len(p) \in Nat /\ Len(Root) \in Nat
    BY <1>2, <2>1, PathConcat DEF Paths
  <2>4. PathMax \in Nat /\ OutSize \in Nat
    BY SizesAssumption
  <2>5. QED
    BY <2>1, <2>2, <2>3, <2>4
<1>8. ~Passthrough(path)
  BY <1>3, <1>4, <1>5 DEF Passthrough
<1>9. QED
  BY <1>6, <1>7, <1>8 DEF MapPath

(***************************************************************************)
(* The invariant holds.                                                    *)
(***************************************************************************)

\* The first state has no placeholder, and the guest starts in a directory the kernel takes.
LEMMA IInvInit == Init => IInv
<1> SUFFICES ASSUME Init PROVE IInv
  OBVIOUS
<1>1. TypeOK
  <2>1. disk \in [Places -> Files \union {None}] /\ to \in [Files -> LinkTargets \union {<<>>}]
    BY DEF Init
  <2>2. kind \in [Files -> {"file", "dir", "link"}]
    BY DEF Init
  <2>3. cwd \in Dirs /\ done \in BOOLEAN /\ placed = {} /\ missed = {}
    BY PathsAssumption DEF Init
  <2>4. job \in [Threads -> 0..Len(Placeholders) + 1]
    BY PlaceholderNames DEF Init
  <2>5. QED
    BY <2>1, <2>2, <2>3, <2>4 DEF TypeOK
<1>2. HereFits
  BY SizesAssumption DEF Init, HereFits
<1>3. PassedInv
  BY PlaceholderNames DEF Init, PassedInv
<1>4. QED
  BY <1>1, <1>2, <1>3 DEF IInv

\* What the calls on files keep of the types.
FilesTyped ==
  /\ disk \in [Places -> Files \union {None}]
  /\ kind \in [Files -> {"file", "dir", "link"}]
  /\ to \in [Files -> LinkTargets \union {<<>>}]

\* Creating at a place keeps the disk's type.
LEMMA CreateTyped ==
  ASSUME FilesTyped, NEW h \in Places, NEW k \in {"file", "dir", "link"},
         NEW target \in LinkTargets \union {<<>>}, Create(h, k, target)
  PROVE  FilesTyped' /\ UNCHANGED <<cwd, tree>>
<1>1. PICK i \in Unused : /\ disk' = [disk EXCEPT ![h] = i]
                          /\ kind' = [kind EXCEPT ![i] = k]
                          /\ to' = [to EXCEPT ![i] = target]
  BY DEF Create
<1>2. i \in Files
  BY DEF Unused
<1>3. FilesTyped'
  BY <1>1, <1>2 DEF FilesTyped
<1>4. QED
  BY <1>3 DEF Create

\* So does removing what is at some of the places.
LEMMA KeepTyped ==
  ASSUME FilesTyped, NEW d \in [Places -> Files \union {None}], Keep(d)
  PROVE  FilesTyped' /\ UNCHANGED <<cwd, tree>>
<1>1. disk' \in [Places -> Files \union {None}]
  BY DEF Keep
<1>2. kind' \in [Files -> {"file", "dir", "link"}]
  BY DEF Keep, FilesTyped
<1>3. to' \in [Files -> LinkTargets \union {<<>>}]
  BY DEF Keep, FilesTyped
<1>4. QED
  BY <1>1, <1>2, <1>3 DEF FilesTyped, Keep

\* A call on files leaves the working directory and the placeholders alone.
LEMMA FileCallTyped ==
  ASSUME FilesTyped, FileCall
  PROVE  FilesTyped' /\ UNCHANGED <<cwd, tree>>
<1>1. PICK a \in Args(FileNames) :
        \/ OpenCreate(a) \/ MakeDir(a) \/ MakeNode(a) \/ Unlink(a)
        \/ \E target \in LinkTargets : Symlink(target, a)
        \/ \E b \in Args(FileNames) : Rename(a, b) \/ Link(a, b)
  BY DEF FileCall
<1>2. CASE OpenCreate(a)
  BY <1>2, CreateTyped DEF OpenCreate
<1>3. CASE MakeDir(a)
  BY <1>3, CreateTyped DEF MakeDir, At
<1>4. CASE MakeNode(a)
  BY <1>4, CreateTyped DEF MakeNode, At
<1>5. CASE \E target \in LinkTargets : Symlink(target, a)
  BY <1>5, CreateTyped DEF Symlink, At
<1>6. CASE Unlink(a)
  <2>1. PICK h \in Places : Keep([disk EXCEPT ![h] = None])
    BY <1>6 DEF Unlink, At
  <2>2. [disk EXCEPT ![h] = None] \in [Places -> Files \union {None}]
    BY DEF FilesTyped
  <2>3. QED
    BY <2>1, <2>2, KeepTyped
<1>7. ASSUME NEW b \in Args(FileNames), Rename(a, b) PROVE FilesTyped' /\ UNCHANGED <<cwd, tree>>
  <2>1. PICK h \in Places, g \in Places : Keep([disk EXCEPT ![h] = None, ![g] = disk[h]])
    BY <1>7 DEF Rename, At
  <2>2. [disk EXCEPT ![h] = None, ![g] = disk[h]] \in [Places -> Files \union {None}]
    BY DEF FilesTyped
  <2>3. QED
    BY <2>1, <2>2, KeepTyped
<1>8. ASSUME NEW b \in Args(FileNames), Link(a, b) PROVE FilesTyped' /\ UNCHANGED <<cwd, tree>>
  <2>1. PICK h \in Places, g \in Places : Keep([disk EXCEPT ![g] = disk[h]])
    BY <1>8 DEF Link, At
  <2>2. [disk EXCEPT ![g] = disk[h]] \in [Places -> Files \union {None}]
    BY DEF FilesTyped
  <2>3. QED
    BY <2>1, <2>2, KeepTyped
<1>9. QED
  BY <1>1, <1>2, <1>3, <1>4, <1>5, <1>6, <1>7, <1>8

\* The kernel's next directory has a path that it takes.
LEMMA ChdirFits ==
  ASSUME FilesTyped, NEW a, Chdir(a)
  PROVE  cwd' \in Dirs /\ Len(cwd') <= PathMax
<1>1. PICK h \in Reached(a) : cwd' = Follow(h)
  BY DEF Chdir
<1>2. Len(h) <= PathMax
  BY DEF Reached
<1>3. Follow(h) = h \/ Follow(h) \in LinkTargets \union {<<>>}
  BY DEF Follow, FilesTyped
<1>4. \A l \in LinkTargets \union {<<>>} : Len(l) <= PathMax
  BY PathsAssumption, SizesAssumption
<1>5. QED
  BY <1>1, <1>2, <1>3, <1>4 DEF Chdir

\* One more placeholder is made where the tree has its place for it, or is known to be missed.
LEMMA NewPlaceholder ==
  ASSUME NEW t \in Threads, MakePlaceholder(t)
  PROVE  /\ job[t] \in 1..7
         /\ placed' \in {placed, placed \union {Backing(Placeholders[job[t]])}}
         /\ missed' = {q \in missed \union {Placeholders[job[t]]} : Backing(q) \notin placed'}
<1> DEFINE p == Placeholders[job[t]]
<1>1. job[t] \in 1..7 /\ p \in Paths
  BY PlaceholderNames DEF MakePlaceholder
<1>2. PICK made \in {{}, IF Classify(p) = "Dir" THEN MapPath(<<".virtual">> \o p)
                                               ELSE {Backing(p)}} : Created(p, made)
  BY DEF MakePlaceholder
<1>3. made \in {{}, {Backing(p)}}
  <2>1. CASE job[t] <= 5
    <3>1. Classify(p) = "Dir" /\ Len(p) <= 2
      BY <1>1, <2>1, PlaceholderKinds, PlaceholderNames
    <3>2. MapPath(<<".virtual">> \o p) = {Backing(p)}
      BY <1>1, <3>1, PlaceholderPlaces
    <3>3. QED
      BY <1>2, <3>1, <3>2
  <2>2. CASE ~(job[t] <= 5)
    <3>1. Classify(p) = "File"
      BY <1>1, <2>2, PlaceholderKinds
    <3>2. QED
      BY <1>2, <3>1
  <2>3. QED
    BY <2>1, <2>2
<1>4. QED
  BY <1>1, <1>2, <1>3 DEF Created

\* Every step keeps the invariant: one case per action.
LEMMA IInvStep == IInv /\ [Next]_vars => IInv'
<1> SUFFICES ASSUME IInv, [Next]_vars PROVE IInv'
  OBVIOUS
<1> USE DEF IInv, HereFits
<1>1. FilesTyped
  BY DEF TypeOK, FilesTyped
<1>2. CASE FileCall
  <2>1. FilesTyped' /\ UNCHANGED <<cwd, tree>>
    BY <1>1, <1>2, FileCallTyped
  <2>2. QED
    BY <2>1 DEF FilesTyped, tree, TypeOK, PassedInv
<1>3. CASE \E a \in Args(DirNames) : Chdir(a)
  <2>1. cwd' \in Dirs /\ Len(cwd') <= PathMax /\ UNCHANGED <<files, tree>>
    BY <1>1, <1>3, ChdirFits DEF Chdir
  <2>2. QED
    BY <2>1 DEF files, tree, TypeOK, PassedInv
<1>4. ASSUME NEW t \in Threads, OpenDir(t) PROVE IInv'
  <2>1. /\ UNCHANGED <<files, cwd, placed, done, missed>>
        /\ job' = [job EXCEPT ![t] = 1] /\ job[t] = 0
    BY <1>4 DEF OpenDir
  <2>2. job' \in [Threads -> 0..Len(Placeholders) + 1]
    BY <2>1, PlaceholderNames DEF TypeOK
  <2>3. \A k \in 1..Len(Placeholders), s \in Threads : k < job'[s] => k < job[s]
    BY <2>1, PlaceholderNames DEF TypeOK
  <2>4. PassedInv'
    BY <2>1, <2>3 DEF PassedInv
  <2>5. QED
    BY <2>1, <2>2, <2>4 DEF TypeOK, files
<1>5. ASSUME NEW t \in Threads, MakePlaceholder(t) PROVE IInv'
  <2>1. /\ job[t] \in 1..7
        /\ placed' \in {placed, placed \union {Backing(Placeholders[job[t]])}}
        /\ missed' = {q \in missed \union {Placeholders[job[t]]} : Backing(q) \notin placed'}
    BY <1>5, NewPlaceholder
  <2>2. UNCHANGED <<files, cwd, done>> /\ job' = [job EXCEPT ![t] = job[t] + 1]
    BY <1>5 DEF MakePlaceholder
  <2>3. job' \in [Threads -> 0..Len(Placeholders) + 1]
    BY <2>1, <2>2, PlaceholderNames DEF TypeOK
  <2>4. placed' \subseteq {Backing(p) : p \in ToSet(Placeholders)}
    BY <2>1, PlaceholderNames DEF TypeOK
  <2>5. missed' \subseteq ToSet(Placeholders)
    BY <2>1, PlaceholderNames DEF TypeOK
  <2>6. \A k \in 1..Len(Placeholders), s \in Threads :
          k < job'[s] => k < job[s] \/ k = job[t]
    BY <2>1, <2>2, PlaceholderNames DEF TypeOK
  <2>7. PassedInv'
    BY <2>1, <2>2, <2>6 DEF PassedInv
  <2>8. QED
    BY <2>2, <2>3, <2>4, <2>5, <2>7 DEF TypeOK, files
<1>6. ASSUME NEW t \in Threads, TreeBuilt(t) PROVE IInv'
  <2>1. UNCHANGED <<files, cwd, placed, missed>> /\ job' = [job EXCEPT ![t] = 0] /\ job[t] = 8
    BY <1>6, PlaceholderNames DEF TreeBuilt
  <2>2. done' \in BOOLEAN
    BY <1>6 DEF TreeBuilt
  <2>3. job' \in [Threads -> 0..Len(Placeholders) + 1]
    BY <2>1, PlaceholderNames DEF TypeOK
  <2>4. \A k \in 1..Len(Placeholders) :
          Backing(Placeholders[k]) \in placed \/ Placeholders[k] \in missed
    BY <2>1, PlaceholderNames DEF PassedInv
  <2>5. PassedInv'
    BY <2>1, <2>4 DEF PassedInv
  <2>6. QED
    BY <2>1, <2>2, <2>3, <2>5 DEF TypeOK, files
<1>7. CASE Restart
  <2>1. UNCHANGED <<files, placed>> /\ cwd' = <<>> /\ job' = [t \in Threads |-> 0]
    BY <1>7 DEF Restart
  <2>2. done' = FALSE /\ missed' = {}
    BY <1>7 DEF Restart
  <2>3. done' \in BOOLEAN
    BY <2>2
  <2>4. cwd' \in Dirs /\ Len(cwd') <= PathMax
    BY <2>1, PathsAssumption, SizesAssumption
  <2>5. job' \in [Threads -> 0..Len(Placeholders) + 1]
    BY <2>1, PlaceholderNames
  <2>6. PassedInv'
    BY <2>1, <2>2, PlaceholderNames DEF PassedInv
  <2>7. QED
    BY <2>1, <2>2, <2>3, <2>4, <2>5, <2>6 DEF TypeOK, files
<1>8. CASE UNCHANGED vars
  BY <1>8 DEF vars, files, tree, TypeOK, PassedInv
<1>9. QED
  BY <1>2, <1>3, <1>4, <1>5, <1>6, <1>7, <1>8 DEF Next

\* The parts together are inductive.
LEMMA IInvCorrect == Spec => []IInv
BY IInvInit, IInvStep, PTL DEF Spec

(***************************************************************************)
(* What the guest sees of its own directory and of the emulated ones.      *)
(***************************************************************************)

\* Every variable has its type, and a placeholder is only ever made where opendir looks.
THEOREM GuestFilesTypeCorrect == Spec => []TypeOK
<1>1. IInv => TypeOK
  BY DEF IInv
<1>2. QED
  BY <1>1, IInvCorrect, PTL

\* A path of the guest's that no rule catches, or that an alias leaves as it is, is put under
\* the sandbox.
LEMMA PlainGoesBelowRoot ==
  ASSUME NEW p \in Paths, ~Passthrough(p), Len(Root \o p) <= PathMax,
         HasAlias(p) => Alias[Head(p)] = <<Head(p)>>
  PROVE  MapPath(p) = {Root \o p}
<1>1. Len(Root \o p) < OutSize /\ Len(Root \o p) <= OutSize
  <2>1. Len(Root \o p) \in Nat
    BY PathsAssumption, PathConcat DEF Paths
  <2>2. QED
    BY <2>1, SizesAssumption
<1>2. CASE HasAlias(p)
  <2>1. <<Head(p)>> \o Tail(p) = p
    <3>1. p \in Seq(Components) /\ p # <<>>
      BY <1>2 DEF Paths, HasAlias
    <3>2. 1 \in 1 .. Len(p) /\ Len(p) \in 1 .. Len(p)
      BY <3>1
    <3>3. SubSeq(p, 1, Len(p)) = <<p[1]>> \o SubSeq(p, 1 + 1, Len(p))
      BY <3>1, <3>2, SubSeqRecursiveFirst
    <3>4. Tail(p) = SubSeq(p, 2, Len(p))
      BY <3>1, TailIsSubSeq
    <3>5. SubSeq(p, 1, Len(p)) = p /\ Head(p) = p[1]
      BY <3>1, SubSeqFull
    <3>6. QED
      BY <3>3, <3>4, <3>5
  <2>2. ResolvePath(p) = Root \o p
    BY <1>1, <1>2, <2>1, ResolveFacts
  <2>3. QED
    BY <1>2, <2>2 DEF MapPath
<1>3. CASE ~HasAlias(p)
  BY <1>1, <1>3 DEF MapPath
<1>4. QED
  BY <1>2, <1>3

\* Both names a process can get for its directory inside the sandbox lead back to it.
THEOREM DirectoryNamesLeadBack == Spec => []HereLeadsBack
<1>1. IInv => HereLeadsBack
  <2>1. SUFFICES ASSUME IInv, InSandbox(cwd)
                 PROVE  MapPath(cwd) = {cwd} /\ (~Shadowed(cwd) => MapPath(EmuReadlinkCwd) = {cwd})
    BY DEF HereLeadsBack
  <2>2. cwd \in Paths /\ Len(cwd) <= PathMax
    BY <2>1, PathsAssumption DEF IInv, TypeOK, HereFits
  <2>3. MapPath(cwd) = {cwd}
    BY <2>1 DEF MapPath, Passthrough
  <2>4. UnmapPath(cwd) \in Paths /\ Root \o UnmapPath(cwd) = cwd
    BY <2>1, <2>2, MapUnmap
  <2>5. ASSUME ~Shadowed(cwd) PROVE MapPath(EmuReadlinkCwd) = {cwd}
    <3>1. EmuReadlinkCwd = UnmapPath(cwd)
      BY <2>1 DEF EmuReadlinkCwd
    <3>2. /\ ~Passthrough(UnmapPath(cwd))
          /\ HasAlias(UnmapPath(cwd)) =>
               Alias[Head(UnmapPath(cwd))] = <<Head(UnmapPath(cwd))>>
      BY <2>5 DEF Shadowed
    <3>3. QED
      BY <2>2, <2>4, <3>1, <3>2, PlainGoesBelowRoot
  <2>6. QED
    BY <2>3, <2>5
<1>2. QED
  BY <1>1, IInvCorrect, PTL

\* What opendir finds is served by stat, access and open alike, and once a thread is through
\* the tree opendir finds all that is served, but for what could not be created and for the
\* paths that have no placeholder.
THEOREM FoundIsServed == Spec => []ListedIsServed
<1>1. IInv => ListedIsServed
  <2>1. SUFFICES ASSUME IInv, NEW p \in VirtualNames
                 PROVE  /\ Found(p) =>
                             EmuStats(p) /\ EmuReads(p) /\ (EmuOpens(p) <=> Classify(p) # "Dir")
                        /\ /\ EmuStats(p)
                           /\ done \/ \E t \in Threads : job[t] = Len(Placeholders) + 1
                           => Found(p) \/ p \in missed \/ OnlyServed(p)
    BY DEF ListedIsServed
  <2>2. p \in Paths /\ Root \in Paths
    BY PathsAssumption
  <2>3. ASSUME Found(p)
        PROVE  EmuStats(p) /\ EmuReads(p) /\ (EmuOpens(p) <=> Classify(p) # "Dir")
    <3>1. PICK q \in ToSet(Placeholders) : Backing(p) = Backing(q)
      BY <2>1, <2>3 DEF Found, IInv, TypeOK
    <3>2. p = q
      BY <2>2, <3>1, BackingIsOneToOne, PlaceholderNames
    <3>3. Classify(p) \in {"Dir", "File"}
      BY <3>2, PlaceholderNames, PlaceholderKinds
    <3>4. QED
      BY <3>3 DEF EmuStats, EmuReads, EmuOpens
  <2>4. ASSUME EmuStats(p), done \/ \E t \in Threads : job[t] = Len(Placeholders) + 1
        PROVE  Found(p) \/ p \in missed \/ OnlyServed(p)
    <3>1. CASE p \in ToSet(Placeholders)
      BY <2>1, <2>4, <3>1, PlaceholderNames DEF Found, IInv, PassedInv
    <3>2. CASE p \notin ToSet(Placeholders)
      <4>1. \/ Under(p, <<"sys">>)
            \/ p \in {<<"proc">>, Self, <<"proc", "net">>, Own, <<"proc", "version">>,
                      Self \o <<"status">>, Own \o <<"status">>}
        BY <2>4 DEF EmuStats, Classify
      <4>2. {<<"proc">>, Self, <<"proc", "net">>, <<"proc", "version">>, Self \o <<"status">>}
              \subseteq ToSet(Placeholders)
        <5>1. /\ <<"proc">> = Placeholders[1] /\ Self = Placeholders[2]
              /\ <<"proc", "net">> = Placeholders[3] /\ <<"proc", "version">> = Placeholders[6]
          BY PlaceholderNames DEF Self
        <5>2. Self \o <<"status">> = Placeholders[7]
          BY DEF Placeholders
        <5>3. QED
          BY <5>1, <5>2, PlaceholderNames
      <4>3. QED
        BY <3>2, <4>1, <4>2 DEF OnlyServed
    <3>3. QED
      BY <3>1, <3>2
  <2>5. QED
    BY <2>3, <2>4
<1>2. QED
  BY <1>1, IInvCorrect, PTL

(***************************************************************************)
(* One tree. A path argument is a name of one thing, the place the kernel  *)
(* is asked for is where that thing is, and so a call on a place is a call *)
(* on the thing.                                                           *)
(***************************************************************************)

\* A path argument and the directory it starts from.
LEMMA ArgFacts ==
  \A a \in Args(FileNames) : /\ a.path \in Paths /\ a.dir \in Paths
                             /\ \A d : [a EXCEPT !.dir = d] =
                                         [abs |-> a.abs, path |-> a.path, dir |-> d]
                             /\ a = [abs |-> a.abs, path |-> a.path, dir |-> a.dir]
<1>1. Dirs \subseteq Paths /\ <<>> \in Paths
  BY PathsAssumption
<1>2. \A n \in FileNames : n.path \in Paths
  BY PathsAssumption
<1>3. ASSUME NEW a \in Args(FileNames)
      PROVE  \E n \in FileNames, d \in Dirs \union {<<>>} :
               a = [abs |-> n.abs, path |-> n.path, dir |-> d]
  BY DEF Args
<1>4. QED
  BY <1>1, <1>2, <1>3

\* A place and the thing that is there.
LEMMA PlaceOfThing == \A h \in Paths : HostPath(ThingAt(h)) = h
BY MapUnmap DEF HostPath, ThingAt

\* Whatever rule translates a name, the kernel is asked for the place of what it names.
LEMMA ReachedIsNamed ==
  ASSUME NEW a, a.path \in Paths, a.dir \in Paths, NEW h \in Reached(a)
  PROVE  h \in Paths /\ ThingAt(h) = Thing(a)
<1>1. Len(h) <= PathMax
  BY DEF Reached
<1>2. CASE ~a.abs
  <2>1. h = a.dir \o a.path
    BY <1>2 DEF Reached
  <2>2. QED
    BY <1>2, <2>1, PathConcat DEF Thing
<1>3. CASE a.abs
  <2>1. h \in MapPath(a.path)
    BY <1>3 DEF Reached
  <2>2. CASE Passthrough(a.path)
    <3>1. h = a.path
      BY <2>1, <2>2 DEF MapPath
    <3>2. QED
      BY <1>3, <2>2, <3>1 DEF Thing
  <2>3. ASSUME ~Passthrough(a.path), NEW q \in Paths, h = Root \o q,
               Thing(a) = [guest |-> TRUE, path |-> q]
        PROVE  h \in Paths /\ ThingAt(h) = Thing(a)
    <3>1. h \in Paths
      BY <2>3, PathsAssumption, PathConcat
    <3>2. InSandbox(h) /\ UnmapPath(h) = q
      BY <2>3, MapUnmap
    <3>3. ThingAt(h) = [guest |-> TRUE, path |-> q]
      BY <3>2 DEF ThingAt
    <3>4. QED
      BY <2>3, <3>1, <3>3
  <2>4. CASE ~Passthrough(a.path) /\ HasAlias(a.path)
    <3> DEFINE q == Alias[Head(a.path)] \o Tail(a.path)
    <3>1. h = ResolvePath(a.path)
      BY <2>1, <2>4 DEF MapPath
    <3>2. q \in Paths /\ h = Root \o q
      BY <1>1, <2>4, <3>1, ResolveFacts
    <3>3. Thing(a) = [guest |-> TRUE, path |-> q]
      BY <1>3, <2>4 DEF Thing
    <3> HIDE DEF q
    <3>4. QED
      BY <2>3, <2>4, <3>2, <3>3
  <2>5. CASE ~Passthrough(a.path) /\ ~HasAlias(a.path)
    <3>1. h = Root \o a.path
      BY <2>1, <2>5 DEF MapPath
    <3>2. Thing(a) = [guest |-> TRUE, path |-> a.path]
      BY <1>3, <2>5 DEF Thing
    <3>3. QED
      BY <2>3, <2>5, <3>1, <3>2
  <2>6. QED
    BY <2>2, <2>4, <2>5
<1>4. QED
  BY <1>2, <1>3

\* The tree a disk holds.
Held(d) == [x \in Things |-> d[HostPath(x)]]

\* A change at one place of the disk is a change at one thing of the tree, and at no other.
LEMMA HeldChange ==
  ASSUME NEW d \in [Places -> Files \union {None}], NEW h \in Places, NEW v
  PROVE  /\ ThingAt(h) \in Things
         /\ Held(d)[ThingAt(h)] = d[h]
         /\ Held([d EXCEPT ![h] = v]) = [Held(d) EXCEPT ![ThingAt(h)] = v]
<1>1. ThingAt(h) \in Things
  BY DEF Things
<1>2. \A x \in Things : HostPath(x) \in Places /\ x = ThingAt(HostPath(x))
  BY PlaceOfThing, PathsAssumption DEF Things
<1>3. HostPath(ThingAt(h)) = h
  BY PlaceOfThing, PathsAssumption
<1>4. \A x \in Things : HostPath(x) = h <=> x = ThingAt(h)
  BY <1>2, <1>3
<1>5. Held(d)[ThingAt(h)] = d[h]
  BY <1>1, <1>3 DEF Held
<1>6. \A x \in Things : [d EXCEPT ![h] = v][HostPath(x)] =
                          [Held(d) EXCEPT ![ThingAt(h)] = v][x]
  BY <1>2, <1>4 DEF Held
<1>7. Held([d EXCEPT ![h] = v]) = [Held(d) EXCEPT ![ThingAt(h)] = v]
  BY <1>6 DEF Held
<1>8. QED
  BY <1>1, <1>5, <1>7

\* What the kernel does at a place is what GuestTree says of the thing there.
LEMMA CreateMakes ==
  ASSUME FilesTyped, NEW h \in Places, NEW k, NEW target, Create(h, k, target)
  PROVE  ThingAt(h) \in Things /\ Tree!Make(ThingAt(h))
<1>1. PICK i \in Unused : disk[h] = None /\ disk' = [disk EXCEPT ![h] = i]
  BY DEF Create
<1>2. i \in Files /\ \A g \in Places : disk[g] # i
  BY DEF Unused
<1>3. \A x \in Things : HostPath(x) \in Places
  BY PlaceOfThing, PathsAssumption DEF Things
<1>4. \A x \in Things : Held(disk)[x] # i
  BY <1>2, <1>3 DEF Held
<1>5. /\ ThingAt(h) \in Things /\ Held(disk)[ThingAt(h)] = disk[h]
      /\ Held([disk EXCEPT ![h] = i]) = [Held(disk) EXCEPT ![ThingAt(h)] = i]
  BY HeldChange DEF FilesTyped
<1>6. Held(disk') = [Held(disk) EXCEPT ![ThingAt(h)] = i]
  BY <1>1, <1>5
<1>7. QED
  BY <1>1, <1>2, <1>4, <1>5, <1>6 DEF Tree!Make, Held

\* Removing at a place is removing the thing there.
LEMMA ClearRemoves ==
  ASSUME FilesTyped, NEW h \in Places, disk[h] # None, disk' = [disk EXCEPT ![h] = None]
  PROVE  ThingAt(h) \in Things /\ Tree!Remove(ThingAt(h))
<1>1. /\ ThingAt(h) \in Things /\ Held(disk)[ThingAt(h)] = disk[h]
      /\ Held(disk') = [Held(disk) EXCEPT ![ThingAt(h)] = None]
  BY HeldChange DEF FilesTyped
<1>2. QED
  BY <1>1 DEF Tree!Remove, Held

\* Moving between two places is renaming the thing at the one to that at the other.
LEMMA MoveRenames ==
  ASSUME FilesTyped, NEW h \in Places, NEW g \in Places, disk[h] \notin {None, disk[g]},
         disk' = [disk EXCEPT ![h] = None, ![g] = disk[h]]
  PROVE  {ThingAt(h), ThingAt(g)} \subseteq Things /\ Tree!Rename(ThingAt(h), ThingAt(g))
<1> DEFINE d == [disk EXCEPT ![h] = None]
<1>1. d \in [Places -> Files \union {None}] /\ disk' = [d EXCEPT ![g] = disk[h]]
  BY DEF FilesTyped
<1>2. /\ {ThingAt(h), ThingAt(g)} \subseteq Things
      /\ Held(disk)[ThingAt(h)] = disk[h] /\ Held(disk)[ThingAt(g)] = disk[g]
      /\ Held(d) = [Held(disk) EXCEPT ![ThingAt(h)] = None]
  BY HeldChange DEF FilesTyped
<1> HIDE DEF d
<1>3. Held([d EXCEPT ![g] = disk[h]]) = [Held(d) EXCEPT ![ThingAt(g)] = disk[h]]
  BY <1>1, HeldChange
<1>4. Held(disk') = [[Held(disk) EXCEPT ![ThingAt(h)] = None] EXCEPT ![ThingAt(g)] = disk[h]]
  BY <1>1, <1>2, <1>3
<1>5. QED
  BY <1>2, <1>4 DEF Tree!Rename, Held

\* Linking two places gives the second thing what the first holds.
LEMMA CopyLinks ==
  ASSUME FilesTyped, NEW h \in Places, NEW g \in Places, disk[h] # None, disk[g] = None,
         disk' = [disk EXCEPT ![g] = disk[h]]
  PROVE  {ThingAt(h), ThingAt(g)} \subseteq Things /\ Tree!Link(ThingAt(h), ThingAt(g))
<1>1. /\ {ThingAt(h), ThingAt(g)} \subseteq Things
      /\ Held(disk)[ThingAt(h)] = disk[h] /\ Held(disk)[ThingAt(g)] = disk[g]
      /\ Held(disk') = [Held(disk) EXCEPT ![ThingAt(g)] = disk[h]]
  BY HeldChange DEF FilesTyped
<1>2. QED
  BY <1>1 DEF Tree!Link, Held

\* What the history tells of a call on one name, and on two.
LEMMA DidFacts ==
  /\ \A op, a : Did(op, <<a>>) => Head(did') = op /\ Tail(did')[1] = a
  /\ \A op, a, b : Did(op, <<a, b>>) =>
       Head(did') = op /\ Tail(did')[1] = a /\ Tail(did')[2] = b
<1>1. ASSUME NEW op, NEW a PROVE Head(<<op>> \o <<a>>) = op /\ Tail(<<op>> \o <<a>>)[1] = a
  OBVIOUS
<1>2. ASSUME NEW op, NEW a, NEW b
      PROVE  /\ Head(<<op>> \o <<a, b>>) = op
             /\ Tail(<<op>> \o <<a, b>>)[1] = a /\ Tail(<<op>> \o <<a, b>>)[2] = b
  OBVIOUS
<1>3. \A op, a : Did(op, <<a>>) => Head(did') = op /\ Tail(did')[1] = a
  BY <1>1 DEF Did
<1>4. \A op, a, b : Did(op, <<a, b>>) =>
        Head(did') = op /\ Tail(did')[1] = a /\ Tail(did')[2] = b
  BY <1>2 DEF Did
<1>5. QED
  BY <1>3, <1>4

\* A call on files is a step of the tree, and the step its arguments call for.
Kept == Tree!Next /\ Expected(Head(did'), Tail(did'))

\* The thing a call names is the one at the place the kernel is asked for.
LEMMA NamedThing ==
  ASSUME NEW a \in Args(FileNames), NEW h \in Reached(a)
  PROVE  ThingAt(h) = Thing(a)
BY ArgFacts, ReachedIsNamed

\* open and fopen take GuestTree's step, but through an absolute symbolic link.
LEMMA OpenKept ==
  ASSUME FilesTyped, NEW a \in Args(FileNames), OpenCreate(a) PROVE Kept
<1>1. PICK g \in Reached(a) : Follow(g) \in Places /\ Create(Follow(g), "file", <<>>)
                              /\ Did("open", <<a>>)
  BY DEF OpenCreate
<1>2. ThingAt(Follow(g)) \in Things /\ Tree!Make(ThingAt(Follow(g)))
  BY <1>1, CreateMakes
<1>3. Head(did') = "open" /\ Tail(did')[1] = a
  BY <1>1, DidFacts
<1>4. CASE Follow(g) = g
  <2>1. ThingAt(Follow(g)) = Thing(a)
    BY <1>4, NamedThing
  <2>2. QED
    BY <1>2, <1>3, <2>1 DEF Kept, Tree!Next, Expected
<1>5. CASE Follow(g) # g
  <2>1. g \in Places
    BY <1>5 DEF Follow
  <2>2. ThroughLink(a)
    BY <1>5, <2>1 DEF ThroughLink, At
  <2>3. QED
    BY <1>2, <1>3, <2>2 DEF Kept, Tree!Next, Expected
<1>6. QED
  BY <1>4, <1>5

\* So do mkdir and symlink.
LEMMA MakeKept ==
  ASSUME FilesTyped, NEW a \in Args(FileNames),
         MakeDir(a) \/ \E target \in LinkTargets : Symlink(target, a)
  PROVE  Kept
<1>1. ASSUME NEW h \in At(a), NEW k, NEW target, Create(h, k, target),
             NEW op \in {"mkdir", "symlink"}, Did(op, <<a>>)
      PROVE  Kept
  <2>1. h \in Reached(a) /\ h \in Places
    BY DEF At
  <2>2. Thing(a) \in Things /\ Tree!Make(Thing(a))
    BY <1>1, <2>1, CreateMakes, NamedThing
  <2>3. Head(did') \in {"mkdir", "symlink"} /\ Tail(did')[1] = a
    BY <1>1, DidFacts
  <2>4. QED
    BY <2>2, <2>3 DEF Kept, Tree!Next, Expected
<1>2. CASE MakeDir(a)
  BY <1>1, <1>2 DEF MakeDir
<1>3. CASE \E target \in LinkTargets : Symlink(target, a)
  BY <1>1, <1>3 DEF Symlink
<1>4. QED
  BY <1>2, <1>3

\* mknod does, and mknodat with an absolute name.
LEMMA MakeNodeKept ==
  ASSUME FilesTyped, cwd \in Paths, NEW a \in Args(FileNames), MakeNode(a) PROVE Kept
<1> DEFINE b == [a EXCEPT !.dir = cwd]
<1>1. PICK h \in At(b) : Create(h, "file", <<>>) /\ Did("mknod", <<a>>)
  BY DEF MakeNode
<1>2. h \in Reached(b) /\ h \in Places
  BY <1>1 DEF At
<1>3. b.abs = a.abs /\ b.path = a.path /\ b.dir = cwd /\ a.path \in Paths
  <2>1. b = [abs |-> a.abs, path |-> a.path, dir |-> cwd] /\ a.path \in Paths
    BY ArgFacts
  <2>2. QED
    BY <2>1
<1> HIDE DEF b
<1>4. ThingAt(h) = Thing(b)
  BY <1>2, <1>3, ReachedIsNamed
<1>5. ThingAt(h) \in Things /\ Tree!Make(ThingAt(h))
  BY <1>1, <1>2, CreateMakes
<1>6. Head(did') = "mknod" /\ Tail(did')[1] = a
  BY <1>1, DidFacts
<1>7. CASE a.abs \/ a.dir = cwd
  <2>1. Thing(b) = Thing(a)
    BY <1>3, <1>7 DEF Thing
  <2>2. QED
    BY <1>4, <1>5, <1>6, <2>1 DEF Kept, Tree!Next, Expected
<1>8. CASE ~a.abs /\ a.dir # cwd
  BY <1>5, <1>6, <1>8 DEF Kept, Tree!Next, Expected
<1>9. QED
  BY <1>7, <1>8

\* unlink and rmdir do.
LEMMA UnlinkKept ==
  ASSUME FilesTyped, NEW a \in Args(FileNames), Unlink(a) PROVE Kept
<1>1. PICK h \in At(a) : /\ disk[h] # None /\ disk' = [disk EXCEPT ![h] = None]
                         /\ Did("unlink", <<a>>)
  BY DEF Unlink, Keep
<1>2. Thing(a) \in Things /\ Tree!Remove(Thing(a))
  BY <1>1, ClearRemoves, NamedThing DEF At
<1>3. Head(did') = "unlink" /\ Tail(did')[1] = a
  BY <1>1, DidFacts
<1>4. QED
  BY <1>2, <1>3 DEF Kept, Tree!Next, Expected

\* rename does.
LEMMA RenameKept ==
  ASSUME FilesTyped, NEW a \in Args(FileNames), NEW b \in Args(FileNames), Rename(a, b)
  PROVE  Kept
<1>1. PICK h \in At(a), g \in At(b) :
        /\ disk[h] \notin {None, disk[g]} /\ disk' = [disk EXCEPT ![h] = None, ![g] = disk[h]]
        /\ Did("rename", <<a, b>>)
  BY DEF Rename, Keep
<1>2. {Thing(a), Thing(b)} \subseteq Things /\ Tree!Rename(Thing(a), Thing(b))
  BY <1>1, MoveRenames, NamedThing DEF At
<1>3. Head(did') = "rename" /\ Tail(did')[1] = a /\ Tail(did')[2] = b
  BY <1>1, DidFacts
<1>4. QED
  BY <1>2, <1>3 DEF Kept, Tree!Next, Expected

\* link does.
LEMMA LinkKept ==
  ASSUME FilesTyped, NEW a \in Args(FileNames), NEW b \in Args(FileNames), Link(a, b)
  PROVE  Kept
<1>1. PICK h \in At(a), g \in At(b) :
        /\ disk[h] # None /\ disk[g] = None /\ disk' = [disk EXCEPT ![g] = disk[h]]
        /\ Did("link", <<a, b>>)
  BY DEF Link, Keep
<1>2. {Thing(a), Thing(b)} \subseteq Things /\ Tree!Link(Thing(a), Thing(b))
  BY <1>1, CopyLinks, NamedThing DEF At
<1>3. Head(did') = "link" /\ Tail(did')[1] = a /\ Tail(did')[2] = b
  BY <1>1, DidFacts
<1>4. QED
  BY <1>2, <1>3 DEF Kept, Tree!Next, Expected

\* The remaining steps leave the disk alone.
LEMMA OtherStepsLeaveFiles ==
  ASSUME [Next]_vars, ~FileCall
  PROVE  UNCHANGED disk
BY DEF Next, vars, files, Chdir, OpenDir, MakePlaceholder, TreeBuilt, Restart

\* So every step is the step its arguments name, or changes no file.
LEMMA StepKept == IInv /\ [Next]_vars => Kept \/ UNCHANGED disk
<1> SUFFICES ASSUME IInv, [Next]_vars, FileCall PROVE Kept
  BY OtherStepsLeaveFiles
<1>1. FilesTyped /\ cwd \in Paths
  BY PathsAssumption DEF IInv, TypeOK, FilesTyped
<1>2. PICK a \in Args(FileNames) :
        \/ OpenCreate(a) \/ MakeNode(a) \/ Unlink(a)
        \/ MakeDir(a) \/ \E target \in LinkTargets : Symlink(target, a)
        \/ \E b \in Args(FileNames) : Rename(a, b) \/ Link(a, b)
  BY DEF FileCall
<1>3. QED
  BY <1>1, <1>2, OpenKept, MakeNodeKept, UnlinkKept, MakeKept, RenameKept, LinkKept

\* The guest sees one tree, under every rule of translation and for every list of excluded
\* prefixes: GuestFiles implements GuestTree, and each call takes the step of GuestTree that
\* its arguments name.
THEOREM GuestSeesOneTree == Spec => OneTree
<1>1. Init => Tree!Init
  <2>1. \A x \in Things : HostPath(x) \in Places
    BY PlaceOfThing, PathsAssumption DEF Things
  <2>2. QED
    BY <2>1 DEF Init, Tree!Init
<1>2. IInv /\ [Next]_vars => [Tree!Next]_([x \in Things |-> disk[HostPath(x)]])
  BY StepKept DEF Kept
<1>3. IInv /\ [Next]_vars => [Expected(Head(did'), Tail(did'))]_disk
  BY StepKept DEF Kept
<1>4. QED
  BY <1>1, <1>2, <1>3, IInvCorrect, PTL DEF Spec, OneTree, Tree!Spec
=============================================================================
