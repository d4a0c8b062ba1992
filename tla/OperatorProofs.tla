---------------------------- MODULE OperatorProofs ----------------------------
(***************************************************************************)
(* The pure algorithms, for inputs of any size: the kubeadm configuration  *)
(* on its way through a document (UserData), the choice of a drive         *)
(* (BlockDevices) and the locations of a cluster (Locations).  MCOperators *)
(* has the same claims over bounded inputs.                                *)
(***************************************************************************)
EXTENDS MCOperators, FiniteSetTheorems, WellFoundedInduction, TLAPS

-----------------------------------------------------------------------------
(* Numbers.                                                                *)

\* Every set of natural numbers has a least one.
LEMMA Least ==
  ASSUME NEW S, S \subseteq Nat, S # {}
  PROVE  \E n \in S : \A m \in S : n <= m
<1>1. PICK n \in S : \A m \in S : ~(<<m, n>> \in OpToRel(<, Nat))
  BY WFMin, NatLessThanWellFounded
<1>2. \A m \in S : ~(m < n)
  BY <1>1 DEF OpToRel
<1>3. QED BY <1>2

-----------------------------------------------------------------------------
(* UserData.                                                               *)

\* Documents whose kubeadm objects have settings out of A, and whose files have
\* paths and owners out of P and W.
Kubeadm(A) == LET O == [there : BOOLEAN, args : A] IN [cluster : O, init : O, join : O]
ContentsOf(A) ==
  {c \in [kind : {"missing", "text", "empty", "objects"}, of : Kubeadm(A) \cup {U!NoObjects}] :
     c.kind # "objects" => c.of = U!NoObjects}
FilesOf(A, P, W) == [path : P, content : ContentsOf(A), owner : W]
DocumentsOf(A, P, W) == [there : BOOLEAN, files : Seq(FilesOf(A, P, W))]

\* getFile finds a file with the path, unless there is none.
LEMMA GetFileFacts ==
  ASSUME NEW F, NEW doc, doc.files \in Seq(F), NEW path
  PROVE  /\ U!GetFile(doc, path) = 0 <=> \A n \in DOMAIN doc.files : doc.files[n].path # path
         /\ U!GetFile(doc, path) # 0 =>
              /\ U!GetFile(doc, path) \in DOMAIN doc.files
              /\ doc.files[U!GetFile(doc, path)].path = path
<1> DEFINE S == {n \in DOMAIN doc.files : doc.files[n].path = path}
<1>1. S \subseteq Nat /\ 0 \notin S
  OBVIOUS
<1>2. CASE S = {}
  BY <1>2 DEF U!GetFile
<1>3. CASE S # {}
  <2>1. \E n \in S : \A m \in S : n <= m
    BY <1>1, <1>3, Least
  <2>2. U!GetFile(doc, path) \in S
    BY <1>3, <2>1 DEF U!GetFile
  <2>3. QED BY <1>1, <1>3, <2>2
<1>4. QED BY <1>2, <1>3

\* It finds the same one while the paths stay.
LEMMA GetFileSame ==
  ASSUME NEW doc, NEW new, NEW path,
         DOMAIN new.files = DOMAIN doc.files,
         \A n \in DOMAIN doc.files : new.files[n].path = doc.files[n].path
  PROVE  U!GetFile(new, path) = U!GetFile(doc, path)
<1> DEFINE First(S) == IF S = {} THEN 0 ELSE CHOOSE n \in S : \A m \in S : n <= m
           Places(d) == {n \in DOMAIN d.files : d.files[n].path = path}
<1>1. Places(new) = Places(doc)
  OBVIOUS
<1>2. /\ U!GetFile(new, path) = First(Places(new))
      /\ U!GetFile(doc, path) = First(Places(doc))
  BY DEF U!GetFile
<1> HIDE DEF First, Places
<1>3. QED BY <1>1, <1>2

\* What SetKubeadmConfig does: a file without an owner of its own is put into
\* the document.
Put(doc, path, objects) ==
  U!SetOrUpdateFile(doc, U!File(path, U!Rendered(objects), "missing"))

\* What becomes of a content: nothing is written where there is nothing.
Written(objects, old) == IF objects = U!NoObjects THEN old ELSE U!Rendered(objects)

\* No more has changed than the content of the n-th file.
OnlyContent(old, new, n) ==
  /\ new.there = old.there
  /\ DOMAIN new.files = DOMAIN old.files /\ Len(new.files) = Len(old.files)
  /\ \A m \in DOMAIN old.files :
       /\ new.files[m].path = old.files[m].path /\ new.files[m].owner = old.files[m].owner
       /\ m # n => new.files[m] = old.files[m]

\* That one has been written, unless there was an error.
Updated(old, result, n, objects) ==
  /\ OnlyContent(old, result.of, n)
  /\ ~result.err => result.of.files[n].content = Written(objects, old.files[n].content)

\* The file is appended, or it replaces the content of the one that is there,
\* unless there is nothing to be written.
LEMMA PutFacts ==
  ASSUME NEW A, NEW P, NEW W, NEW doc \in DocumentsOf(A, P, W), doc.there,
         NEW path, NEW objects
  PROVE  /\ U!GetFile(doc, path) = 0 =>
              Put(doc, path, objects) = U!Ok([doc EXCEPT !.files =
                             Append(doc.files, U!File(path, U!Rendered(objects), "missing"))])
         /\ U!GetFile(doc, path) # 0 =>
              Updated(doc, Put(doc, path, objects), U!GetFile(doc, path), objects)
<1> DEFINE n == U!GetFile(doc, path)
           r == Put(doc, path, objects)
           file == U!File(path, U!Rendered(objects), "missing")
           old == doc.files[n]
           content == objects # U!NoObjects
           lacks == content /\ old.content.kind = "missing"
           new == U!File(old.path, IF content /\ old.content.kind # "missing"
                                   THEN file.content ELSE old.content, old.owner)
<1>1. /\ file.path = path /\ file.content = U!Rendered(objects) /\ file.owner = "missing"
      /\ file.content.kind \notin {"missing", "empty"} <=> content
  BY DEF U!File, U!Rendered, U!Content
<1>2. r = IF n = 0 THEN U!Ok([doc EXCEPT !.files = Append(@, file)])
          ELSE IF lacks THEN U!Failed([doc EXCEPT !.files[n] = new])
          ELSE U!Ok([doc EXCEPT !.files[n] = new])
  BY <1>1 DEF U!SetOrUpdateFile, Put
<1> HIDE DEF n, r
<1>3. n = 0 => r = U!Ok([doc EXCEPT !.files = Append(doc.files, file)])
  BY <1>2
<1>4. ASSUME n # 0
      PROVE  Updated(doc, r, n, objects)
  <2>1. /\ doc.files \in Seq(FilesOf(A, P, W)) /\ doc \in DocumentsOf(A, P, W)
    BY DEF DocumentsOf
  <2>2. n \in DOMAIN doc.files /\ old \in FilesOf(A, P, W)
    BY <1>4, <2>1, GetFileFacts DEF n
  <2>3. /\ new.path = old.path /\ new.owner = old.owner
        /\ ~lacks => new.content =
             IF objects = U!NoObjects THEN old.content ELSE U!Rendered(objects)
    BY <1>1 DEF U!File
  <2> HIDE DEF new, file, lacks
  <2>4. /\ r.of = [doc EXCEPT !.files = [doc.files EXCEPT ![n] = new]]
        /\ r.err <=> lacks
    BY <1>2, <1>4, <2>1 DEF U!Ok, U!Failed, DocumentsOf
  <2>5. r.of.files = [doc.files EXCEPT ![n] = new] /\ r.of.there = doc.there
    BY <2>4 DEF DocumentsOf
  <2> DEFINE F == FilesOf(A, P, W) \cup {new}
  <2>5a. r.of.files \in Seq(F)
    <3>1. doc.files \in [1 .. Len(doc.files) -> F] /\ Len(doc.files) \in Nat /\ new \in F
      BY <2>1
    <3> HIDE DEF F
    <3>2. r.of.files \in [1 .. Len(doc.files) -> F]
      BY <2>5, <3>1
    <3>3. QED BY <3>1, <3>2
  <2>6. /\ DOMAIN r.of.files = DOMAIN doc.files /\ r.of.files[n] = new
        /\ Len(r.of.files) = Len(doc.files)
        /\ \A m \in DOMAIN doc.files : m # n => r.of.files[m] = doc.files[m]
    BY <2>1, <2>2, <2>5, <2>5a
  <2>7. ~lacks => new.content = Written(objects, doc.files[n].content)
    BY <2>3 DEF Written
  <2>8. QED BY <2>2, <2>3, <2>4, <2>5, <2>6, <2>7 DEF OnlyContent, Updated
<1>5. QED BY <1>3, <1>4 DEF n, r

\* GetKubeadmConfig reads the init file where there is one, else the join file.
LEMMA ReadWhere ==
  ASSUME NEW doc, doc.there, NEW isInit \in BOOLEAN, NEW c, c.kind # "text",
         NEW i, i = U!GetFile(doc, U!InitPath), NEW j, j = U!GetFile(doc, U!JoinPath),
         isInit => i # 0 /\ doc.files[i].content = c,
         ~isInit => i = 0 /\ j # 0 /\ doc.files[j].content = c
  PROVE  U!GetKubeadmConfig(doc) = U!Ok([isInit |-> isInit, of |-> c.of])
<1> DEFINE Config(b, o) == [isInit |-> b, of |-> o]
           n == IF i # 0 THEN i ELSE j
<1>1. n # 0 /\ doc.files[n].content = c
  OBVIOUS
<1>2. U!GetKubeadmConfig(doc) = U!Ok(Config(i # 0 \/ n = 0, doc.files[n].content.of))
  BY <1>1 DEF U!GetKubeadmConfig
<1>3. CASE isInit
  <2>1. (i # 0 \/ n = 0) = TRUE /\ isInit = TRUE
    BY <1>3
  <2> HIDE DEF Config, n
  <2>2. U!GetKubeadmConfig(doc) = U!Ok(Config(isInit, c.of))
    BY <1>1, <1>2, <2>1
  <2>3. QED BY <2>2 DEF Config
<1>4. CASE ~isInit
  <2>1. (i # 0 \/ n = 0) = FALSE /\ isInit = FALSE
    BY <1>1, <1>4
  <2> HIDE DEF Config, n
  <2>2. U!GetKubeadmConfig(doc) = U!Ok(Config(isInit, c.of))
    BY <1>1, <1>2, <2>1
  <2>3. QED BY <2>2 DEF Config
<1>5. QED BY <1>3, <1>4

\* What a configuration is written with is what is read again: SetKubeadmConfig
\* and then GetKubeadmConfig, of what GetKubeadmConfig gave, in which no more
\* than the settings of objects that are there may have changed.
LEMMA WrittenIsRead ==
  ASSUME NEW A, NEW P, NEW W, NEW doc \in DocumentsOf(A, P, W),
         ~U!GetKubeadmConfig(doc).err,
         NEW k, k = U!GetKubeadmConfig(doc).of,
         NEW objects, objects = U!NoObjects <=> k.of = U!NoObjects,
         NEW r, r = U!SetKubeadmConfig(doc, [isInit |-> k.isInit, of |-> objects]),
         ~r.err
  PROVE  U!GetKubeadmConfig(r.of).of = [isInit |-> k.isInit, of |-> objects]
<1> DEFINE i == U!GetFile(doc, U!InitPath)
           j == U!GetFile(doc, U!JoinPath)
           n == IF i # 0 THEN i ELSE j
           path == IF k.isInit THEN U!InitPath ELSE U!JoinPath
           new == r.of
           file == U!File(path, U!Rendered(objects), "missing")
           last == Len(doc.files) + 1
<1>1. doc.there /\ doc.files \in Seq(FilesOf(A, P, W))
  BY DEF U!GetKubeadmConfig, U!Failed, U!Ok, DocumentsOf
<1>2. /\ k.isInit = (i # 0 \/ n = 0)
      /\ k.of = (IF n = 0 THEN U!MissingContent ELSE doc.files[n].content).of
      /\ n # 0 => doc.files[n].content.kind # "text"
  BY DEF U!GetKubeadmConfig, U!Failed, U!Ok
<1>3. r = Put(doc, path, objects)
  BY DEF U!SetKubeadmConfig, Put
<1>4. /\ U!Rendered(objects).of = objects /\ U!Rendered(objects).kind # "text"
      /\ file.path = path /\ file.content = U!Rendered(objects)
  BY DEF U!Rendered, U!Content, U!File
<1>5. U!GetFile(doc, path) = n
  BY <1>2
<1> HIDE DEF path
<1>6. /\ n = 0 => r = U!Ok([doc EXCEPT !.files = Append(doc.files, file)])
      /\ n # 0 =>
           /\ new.there = doc.there /\ DOMAIN new.files = DOMAIN doc.files
           /\ \A m \in DOMAIN doc.files : new.files[m].path = doc.files[m].path
           /\ new.files[n].content = Written(objects, doc.files[n].content)
  <2>1. n = 0 => r = U!Ok([doc EXCEPT !.files = Append(doc.files, file)])
    BY <1>1, <1>3, <1>5, PutFacts
  <2> HIDE DEF i, j, n
  <2>2. U!GetFile(doc, path) # 0 =>
          Updated(doc, Put(doc, path, objects), U!GetFile(doc, path), objects)
    BY <1>1, PutFacts
  <2>3. n # 0 => Updated(doc, r, n, objects)
    BY <1>3, <1>5, <2>2
  <2>4. QED BY <2>1, <2>3 DEF Updated, OnlyContent
<1> HIDE DEF file
<1>7. CASE n = 0
  <2>1. i = 0 /\ j = 0 /\ k.isInit = TRUE /\ k.of = U!NoObjects /\ path = U!InitPath
    BY <1>2, <1>7 DEF U!MissingContent, U!Content, path
  <2>2. new = [doc EXCEPT !.files = Append(doc.files, file)]
    BY <1>6, <1>7 DEF U!Ok
  <2>3. new.files = Append(doc.files, file) /\ new.there
    BY <1>1, <2>2 DEF DocumentsOf
  <2>4. /\ DOMAIN new.files = 1 .. last /\ new.files[last] = file
        /\ \A m \in DOMAIN doc.files : new.files[m] = doc.files[m]
        /\ \A m \in 1 .. last : m = last \/ m \in DOMAIN doc.files
        /\ last \in Nat \ {0}
    BY <1>1, <2>3
  <2>5. \A m \in DOMAIN doc.files : doc.files[m].path # U!InitPath
    BY <1>1, <2>1, GetFileFacts
  <2>6. U!GetFile(new, U!InitPath) = last
    <3> DEFINE S == {m \in DOMAIN new.files : new.files[m].path = U!InitPath}
    <3> HIDE DEF new, last
    <3>1. S = {last}
      BY <1>4, <2>1, <2>4, <2>5
    <3>2. (CHOOSE m \in S : \A l \in S : m <= l) = last
      BY <2>4, <3>1
    <3>3. QED BY <3>1, <3>2 DEF U!GetFile
  <2>7. new.files[last] = file /\ last # 0
    BY <2>4
  <2> HIDE DEF new, last
  <2>8. U!GetKubeadmConfig(new) = U!Ok([isInit |-> TRUE, of |-> U!Rendered(objects).of])
    BY <1>4, <2>3, <2>6, <2>7, ReadWhere
  <2>9. U!GetKubeadmConfig(new).of = [isInit |-> TRUE, of |-> objects]
    BY <1>4, <2>8 DEF U!Ok
  <2>10. QED BY <2>1, <2>9, Zenon DEF new
<1>8. CASE n # 0
  <2>1. U!GetFile(new, U!InitPath) = i /\ U!GetFile(new, U!JoinPath) = j
    BY <1>6, <1>8, GetFileSame
  <2>2. new.files[n].content.kind # "text" /\ new.files[n].content.of = objects
    BY <1>2, <1>4, <1>6, <1>8 DEF Written
  <2>3. /\ k.isInit => n = i
        /\ ~k.isInit => i = 0 /\ n = j
        /\ k.isInit \in BOOLEAN /\ new.there
    BY <1>1, <1>2, <1>6, <1>8
  <2> DEFINE c == new.files[n].content
  <2> HIDE DEF new, i, j, n, c
  <2>4. U!GetKubeadmConfig(new) = U!Ok([isInit |-> k.isInit, of |-> c.of])
    BY <1>8, <2>1, <2>2, <2>3, ReadWhere DEF c
  <2>5. QED BY <2>2, <2>4 DEF U!Ok, new, c
<1>9. QED BY <1>7, <1>8

\* What is read: whether it is for init, and the objects.
LEMMA ReadType ==
  ASSUME NEW A, NEW P, NEW W, NEW doc \in DocumentsOf(A, P, W), ~U!GetKubeadmConfig(doc).err
  PROVE  \E b \in BOOLEAN, o \in Kubeadm(A) \cup {U!NoObjects} :
           U!GetKubeadmConfig(doc).of = [isInit |-> b, of |-> o]
<1> DEFINE i == U!GetFile(doc, U!InitPath)
           j == U!GetFile(doc, U!JoinPath)
           n == IF i # 0 THEN i ELSE j
           o == (IF n = 0 THEN U!MissingContent ELSE doc.files[n].content).of
           b == i # 0 \/ n = 0
<1>1. doc.files \in Seq(FilesOf(A, P, W))
  BY DEF DocumentsOf
<1>2. U!GetKubeadmConfig(doc).of = [isInit |-> b, of |-> o]
  BY DEF U!GetKubeadmConfig, U!Failed, U!Ok
<1>3. o \in Kubeadm(A) \cup {U!NoObjects}
  <2>1. CASE n = 0
    BY <2>1 DEF U!MissingContent, U!Content
  <2>2. CASE n # 0
    <3>1. n \in DOMAIN doc.files
      BY <1>1, <2>2, GetFileFacts
    <3>2. doc.files[n] \in FilesOf(A, P, W)
      BY <1>1, <3>1
    <3>3. doc.files[n].content \in ContentsOf(A)
      BY <3>2 DEF FilesOf
    <3>4. doc.files[n].content.of \in Kubeadm(A) \cup {U!NoObjects}
      BY <3>3 DEF ContentsOf
    <3>5. QED BY <2>2, <3>4
  <2>3. QED BY <2>1, <2>2
<1>4. b \in BOOLEAN
  OBVIOUS
<1> HIDE DEF b, o
<1>5. QED BY <1>2, <1>3, <1>4

\* Settings that are added never make an object out of none.
LEMMA CompletedFacts ==
  ASSUME NEW A, NEW o \in Kubeadm(A) \cup {U!NoObjects}, NEW defaults
  PROVE  /\ [o EXCEPT !.cluster = U!WithDefaults(@, defaults)] = U!NoObjects <=> o = U!NoObjects
         /\ [o EXCEPT !.join = U!WithDefaults(@, defaults)] = U!NoObjects <=> o = U!NoObjects
         /\ U!Completed(o.cluster, U!WithDefaults(o.cluster, defaults), defaults)
         /\ U!Completed(o.join, U!WithDefaults(o.join, defaults), defaults)
         /\ U!Completed(o.cluster, o.cluster, <<>>)
<1> DEFINE c == U!WithDefaults(o.cluster, defaults)
           j == U!WithDefaults(o.join, defaults)
           O == [there : BOOLEAN, args : A \cup {<<>>}]
<1>1. o \in [cluster : O, init : O, join : O]
  <2>1. U!NoObjects \in [cluster : O, init : O, join : O]
    BY DEF U!NoObjects, U!Nil
  <2>2. CASE o \in Kubeadm(A)
    BY <2>2 DEF Kubeadm
  <2>3. QED BY <2>1, <2>2
<1>2. \A x \in O : /\ ~x.there => U!WithDefaults(x, defaults) = x
                   /\ x.there => U!WithDefaults(x, defaults).there
  BY DEF U!WithDefaults, U!Object
<1>3. \A x \in O : U!Completed(x, U!WithDefaults(x, defaults), defaults)
  <2> SUFFICES ASSUME NEW x \in O PROVE U!Completed(x, U!WithDefaults(x, defaults), defaults)
    OBVIOUS
  <2>1. CASE x.there
    <3>1. /\ U!WithDefaults(x, defaults).there
          /\ U!WithDefaults(x, defaults).args = U!Over(x.args, defaults)
      BY <2>1 DEF U!WithDefaults, U!Object
    <3> DEFINE args == U!Over(x.args, defaults)
    <3>2. /\ DOMAIN args = DOMAIN x.args \cup DOMAIN defaults
          /\ \A key \in DOMAIN args :
               args[key] = IF key \in DOMAIN x.args THEN x.args[key] ELSE defaults[key]
      BY DEF U!Over
    <3> HIDE DEF args
    <3>3. U!WithDefaults(x, defaults).args = args
      BY <3>1 DEF args
    <3>4. QED BY <2>1, <3>1, <3>2, <3>3 DEF U!Completed
  <2>2. CASE ~x.there
    BY <1>2, <2>2 DEF U!Completed
  <2>3. QED BY <2>1, <2>2
<1>4. \A x \in O : U!Completed(x, x, <<>>)
  BY DEF U!Completed
<1>5. /\ o.cluster \in O /\ o.join \in O
      /\ U!NoObjects.cluster.there = FALSE /\ U!NoObjects.join.there = FALSE
  BY <1>1 DEF U!NoObjects, U!Nil
<1> HIDE DEF O
<1>6. [o EXCEPT !.cluster = c] = U!NoObjects <=> o = U!NoObjects
  <2>1. CASE o.cluster.there
    BY <1>1, <1>2, <1>5, <2>1 DEF O
  <2>2. CASE ~o.cluster.there
    <3>1. c = o.cluster
      BY <1>2, <1>5, <2>2
    <3>2. QED BY <1>1, <3>1
  <2>3. QED BY <2>1, <2>2
<1>7. [o EXCEPT !.join = j] = U!NoObjects <=> o = U!NoObjects
  <2>1. CASE o.join.there
    BY <1>1, <1>2, <1>5, <2>1 DEF O
  <2>2. CASE ~o.join.there
    <3>1. j = o.join
      BY <1>2, <1>5, <2>2
    <3>2. QED BY <1>1, <3>1
  <2>3. QED BY <2>1, <2>2
<1>8. QED BY <1>3, <1>4, <1>5, <1>6, <1>7

\* ConfigArrives (UserData), for documents of any size, with any files and any
\* settings: what kubeadm reads on the server is what Cluster API rendered and
\* what createServer (server.go:206) and the bare metal service add.
THEOREM ConfigAlwaysArrives ==
  ASSUME NEW A, NEW P, NEW W, NEW doc \in DocumentsOf(A, P, W),
         NEW controlPlane \in BOOLEAN, NEW defaults
  PROVE  U!ConfigArrives(doc, controlPlane, defaults)
<1> DEFINE r == U!GetKubeadmConfig(doc)
           server == U!ConfigureServer(doc, controlPlane, defaults)
           metal == U!ConfigureBareMetal(doc, defaults)
<1>1. r.err => server.err /\ metal.err
  BY DEF U!ConfigureServer, U!ConfigureBareMetal, U!Failed
<1>2. CASE r.err
  BY <1>1, <1>2 DEF U!ConfigArrives
<1>3. CASE ~r.err
  <2>1. PICK b \in BOOLEAN, o \in Kubeadm(A) \cup {U!NoObjects} :
          r.of = [isInit |-> b, of |-> o]
    BY <1>3, ReadType
  <2> DEFINE adds == controlPlane /\ b
             c == IF adds THEN [o EXCEPT !.cluster = U!WithDefaults(o.cluster, defaults)] ELSE o
             j == [o EXCEPT !.join = U!WithDefaults(o.join, defaults)]
             Config(x) == [isInit |-> b, of |-> x]
  <2>2. server = U!SetKubeadmConfig(doc, Config(c))
    BY <1>3, <2>1 DEF U!ConfigureServer
  <2>3. metal = U!SetKubeadmConfig(doc, Config(j))
    BY <1>3, <2>1 DEF U!ConfigureBareMetal
  <2>4. c = U!NoObjects <=> o = U!NoObjects
    BY CompletedFacts
  <2>5. j = U!NoObjects <=> o = U!NoObjects
    BY CompletedFacts
  <2>6. /\ r.of.isInit = b /\ r.of.of = o /\ r = U!GetKubeadmConfig(doc)
        /\ \A x : Config(x).isInit = b /\ Config(x).of = x
    BY <2>1
  <2> HIDE DEF r, server, metal, adds, c, j
  <2>7. ~server.err => U!GetKubeadmConfig(server.of).of = Config(c)
    BY <1>3, <2>2, <2>4, <2>6, WrittenIsRead
  <2>8. ~metal.err => U!GetKubeadmConfig(metal.of).of = Config(j)
    BY <1>3, <2>3, <2>5, <2>6, WrittenIsRead
  <2> HIDE DEF Config
  <2>9. /\ U!Completed(o.cluster, c.cluster, IF adds THEN defaults ELSE <<>>)
        /\ c.join = o.join
    BY CompletedFacts DEF c, Kubeadm, U!NoObjects
  <2>10. /\ U!Completed(o.join, j.join, defaults)
         /\ j.cluster = o.cluster
    BY CompletedFacts DEF j, Kubeadm, U!NoObjects
  <2>11. QED BY <2>6, <2>7, <2>8, <2>9, <2>10 DEF U!ConfigArrives, r, server, metal, adds
<1>4. QED BY <1>2, <1>3

\* RestIsKept (UserData), likewise: certificates and keys stay as they are, the
\* configuration keeps its owner, and a file comes only where there was none.
THEOREM RestIsAlwaysKept ==
  ASSUME NEW A, NEW P, NEW W, NEW doc \in DocumentsOf(A, P, W),
         NEW controlPlane \in BOOLEAN, NEW defaults
  PROVE  U!RestIsKept(doc, controlPlane, defaults)
<1> DEFINE r == U!GetKubeadmConfig(doc)
           server == U!ConfigureServer(doc, controlPlane, defaults)
           new == server.of
           i == U!GetFile(doc, U!InitPath)
           j == U!GetFile(doc, U!JoinPath)
<1>1. CASE r.err
  <2>1. new = doc
    BY <1>1 DEF U!ConfigureServer, U!Failed
  <2>2. Len(doc.files) \in Nat
    BY DEF DocumentsOf
  <2> HIDE DEF new
  <2>3. QED BY <2>1, <2>2 DEF U!RestIsKept, new
<1>2. CASE ~r.err
  <2>1. doc.there /\ doc.files \in Seq(FilesOf(A, P, W))
    BY <1>2 DEF U!GetKubeadmConfig, U!Failed, U!Ok, DocumentsOf
  <2>2. PICK b \in BOOLEAN, o \in Kubeadm(A) \cup {U!NoObjects} :
          r.of = [isInit |-> b, of |-> o]
    BY <1>2, ReadType
  <2>3. b <=> i # 0 \/ j = 0
    BY <1>2, <2>2 DEF U!GetKubeadmConfig, U!Failed, U!Ok
  <2> DEFINE path == IF b THEN U!InitPath ELSE U!JoinPath
             n == U!GetFile(doc, path)
  <2>4. PICK objects : server = Put(doc, path, objects)
    <3> DEFINE Config(x) == [isInit |-> b, of |-> x]
               c == IF controlPlane /\ b
                    THEN [o EXCEPT !.cluster = U!WithDefaults(o.cluster, defaults)] ELSE o
    <3>1. server = U!SetKubeadmConfig(doc, Config(c))
      BY <1>2, <2>2 DEF U!ConfigureServer
    <3> HIDE DEF c, server
    <3>2. server = Put(doc, path, c)
      BY <3>1 DEF U!SetKubeadmConfig, Put
    <3>3. QED BY <3>2
  <2> HIDE DEF r, server, path, n
  <2>5. CASE n = 0
    <3> DEFINE file == U!File(path, U!Rendered(objects), "missing")
    <3>1. server = U!Ok([doc EXCEPT !.files = Append(doc.files, file)])
      BY <2>1, <2>4, <2>5, PutFacts DEF n
    <3>2. new.files = Append(doc.files, file)
      BY <3>1 DEF U!Ok, DocumentsOf
    <3>3. i = 0 /\ j = 0
      BY <2>3, <2>5 DEF n, path
    <3>4. \A m \in DOMAIN doc.files :
            doc.files[m].path # U!InitPath /\ doc.files[m].path # U!JoinPath
      BY <2>1, <3>3, GetFileFacts
    <3>5. \A m \in DOMAIN doc.files : new.files[m] = doc.files[m]
      BY <2>1, <3>2
    <3> HIDE DEF file
    <3>6. QED BY <3>4, <3>5 DEF U!RestIsKept, server
  <2>6. CASE n # 0
    <3>1. Updated(doc, server, n, objects)
      BY <2>1, <2>4, <2>6, PutFacts DEF n
    <3>2. OnlyContent(doc, new, n) /\ Len(doc.files) \in Nat
      BY <2>1, <3>1 DEF Updated
    <3>3. n \in DOMAIN doc.files /\ doc.files[n].path = path
      BY <2>1, <2>6, GetFileFacts DEF n
    <3>4. path \in {U!InitPath, U!JoinPath}
      BY DEF path
    <3>5. QED BY <3>2, <3>3, <3>4 DEF U!RestIsKept, OnlyContent, server
  <2>7. QED BY <2>5, <2>6
<1>3. QED BY <1>1, <1>2

\* The documents of the bounded inputs are among them.
LEMMA BoundedDocuments ==
  Documents \subseteq DocumentsOf(Args \cup {<<>>}, {U!InitPath, U!JoinPath, "ca.crt"},
                                  {"missing", "root"})
<1> DEFINE A == Args \cup {<<>>}
           P == {U!InitPath, U!JoinPath, "ca.crt"}
           W == {"missing", "root"}
<1>1. Args \subseteq A /\ <<>> \in A
  OBVIOUS
<1> HIDE DEF A
<1>2. Contents \subseteq ContentsOf(A)
  <2>1. \A x \in ObjectsOf : x \in [there : BOOLEAN, args : A]
    <3>1. \A a \in A : U!Object(a) \in [there : BOOLEAN, args : A]
      BY DEF U!Object
    <3>2. \A x \in ObjectsOf : x = U!Nil \/ \E a \in Args : x = U!Object(a)
      BY Zenon DEF ObjectsOf
    <3>3. U!Nil \in [there : BOOLEAN, args : A]
      BY <1>1 DEF U!Nil
    <3>4. QED BY <1>1, <3>1, <3>2, <3>3
  <2>2. U!Nil \in [there : BOOLEAN, args : A]
    BY <1>1 DEF U!Nil
  <2>3. /\ U!MissingContent \in ContentsOf(A) /\ U!Text \in ContentsOf(A)
        /\ \A x \in Kubeadm(A) : U!Rendered(x) \in ContentsOf(A)
    BY DEF ContentsOf, U!MissingContent, U!Text, U!Rendered, U!Content
  <2>4. \A c, j \in ObjectsOf : [cluster |-> c, init |-> U!Nil, join |-> j] \in Kubeadm(A)
    BY <2>1, <2>2 DEF Kubeadm
  <2>5. \A x \in Contents :
          \/ x = U!MissingContent \/ x = U!Text
          \/ \E c, j \in ObjectsOf : x = U!Rendered([cluster |-> c, init |-> U!Nil, join |-> j])
    BY DEF Contents
  <2>6. QED
    <3> SUFFICES ASSUME NEW x \in Contents PROVE x \in ContentsOf(A)
      OBVIOUS
    <3>1. CASE x = U!MissingContent \/ x = U!Text
      BY <2>3, <3>1
    <3>2. CASE \E c, j \in ObjectsOf :
                 x = U!Rendered([cluster |-> c, init |-> U!Nil, join |-> j])
      BY <2>3, <2>4, <3>2
    <3>3. QED BY <2>5, <3>1, <3>2
<1>3. \A n \in 0 .. 2 : [1 .. n -> Files] \subseteq Seq(FilesOf(A, P, W))
  <2>1. Files \subseteq FilesOf(A, P, W)
    <3>1. \A f \in Files : \E path \in P, content \in Contents, owner \in W :
            f = U!File(path, content, owner)
      BY DEF Files
    <3> HIDE DEF P, W
    <3>2. \A path \in P, content \in ContentsOf(A), owner \in W :
            U!File(path, content, owner) \in FilesOf(A, P, W)
      BY DEF FilesOf, U!File
    <3>3. QED BY <1>2, <3>1, <3>2
  <2> DEFINE F == FilesOf(A, P, W)
  <2> HIDE DEF F
  <2>2. \A n \in 0 .. 2 : \A fs \in [1 .. n -> Files] : fs \in [1 .. n -> F] /\ n \in Nat
    <3> SUFFICES ASSUME NEW n \in 0 .. 2, NEW fs \in [1 .. n -> Files]
                 PROVE  fs \in [1 .. n -> F] /\ n \in Nat
      OBVIOUS
    <3>1. \A m \in 1 .. n : fs[m] \in F
      BY <2>1 DEF F
    <3>2. QED BY <3>1
  <2>3. \A n \in Nat : \A fs \in [1 .. n -> F] : fs \in Seq(F)
    OBVIOUS
  <2>4. QED BY <2>2, <2>3 DEF F
<1>4. U!NoDocument \in DocumentsOf(A, P, W)
  BY DEF U!NoDocument, DocumentsOf
<1>5. \A fs \in Seq(FilesOf(A, P, W)) : U!Document(fs) \in DocumentsOf(A, P, W)
  BY DEF U!Document, DocumentsOf
<1>6. \A d \in Documents : \/ d = U!NoDocument
                          \/ \E n \in 0 .. 2 : \E fs \in [1 .. n -> Files] : d = U!Document(fs)
  BY DEF Documents
<1> HIDE DEF P, W
<1>7. Documents \subseteq DocumentsOf(A, P, W)
  BY <1>3, <1>4, <1>5, <1>6
<1>8. QED BY <1>7 DEF A, P, W

\* So the run's inputs are no exception (UserDataArrives of MCOperators).
THEOREM BoundedDataArrives == Spec => []UserDataArrives
<1>1. Init => UserDataArrives
  <2> SUFFICES ASSUME Init, input.for = "data"
               PROVE  /\ U!ConfigArrives(input.doc, input.controlPlane, Settings)
                      /\ U!RestIsKept(input.doc, input.controlPlane, Settings)
    BY DEF UserDataArrives
  <2>1. input \in [for : {"data"}, doc : Documents, controlPlane : BOOLEAN]
    BY DEF Init
  <2>2. input.doc \in Documents /\ input.controlPlane \in BOOLEAN
    BY <2>1
  <2>3. QED BY <2>2, BoundedDocuments, ConfigAlwaysArrives, RestIsAlwaysKept
<1>2. UserDataArrives /\ [Next]_input => UserDataArrives'
  BY DEF UserDataArrives, Next
<1>3. QED BY <1>1, <1>2, PTL DEF Spec

-----------------------------------------------------------------------------
(* BlockDevices.                                                           *)

\* Lists of any length, of devices of any sizes, whose names differ.
Lists ==
  {ds \in Seq(D!Device) : \A n, m \in DOMAIN ds : ds[n].name = ds[m].name => n = m}

\* Two lists of the same devices.
SameDevices(ds, es) ==
  /\ \A n \in DOMAIN ds : \E m \in DOMAIN es : es[m] = ds[n]
  /\ \A m \in DOMAIN es : \E n \in DOMAIN ds : ds[n] = es[m]

\* No other of the free SSDs comes before this one.
IsBest(ds, n) ==
  /\ n \in D!FreeSSDs(ds)
  /\ \A m \in D!FreeSSDs(ds) \ {n} :
       \/ D!Megabytes(ds[m].size) > D!Megabytes(ds[n].size)
       \/ /\ D!Megabytes(ds[m].size) = D!Megabytes(ds[n].size)
          /\ ds[m].name < ds[n].name

\* The names of a list are bounded: there is no shortest part of one whose
\* names are not.
LEMMA Bounded ==
  ASSUME NEW N \in Nat, NEW f \in [1 .. N -> Nat]
  PROVE  \E b \in Nat : \A n \in 1 .. N : f[n] <= b
<1> DEFINE B(k) == \E b \in Nat : \A n \in 1 .. k : f[n] <= b
           S == {k \in 0 .. N : ~B(k)}
<1>1. SUFFICES ASSUME ~B(N) PROVE FALSE
  OBVIOUS
<1> HIDE DEF B
<1>2. S \subseteq Nat /\ N \in S
  BY <1>1
<1>3. PICK k \in S : \A m \in S : k <= m
  BY <1>2, Least
<1>4. B(0)
  <2>1. \A n \in 1 .. 0 : f[n] <= 0
    OBVIOUS
  <2>2. QED BY <2>1 DEF B
<1>5. k \in 1 .. N /\ k - 1 \in 0 .. N /\ k - 1 \in Nat
  BY <1>3, <1>4
<1>6. B(k - 1)
  BY <1>3, <1>5
<1>7. PICK b \in Nat : \A n \in 1 .. k - 1 : f[n] <= b
  BY <1>6 DEF B
<1>8. f[k] \in Nat
  BY <1>5
<1>9. PICK c \in Nat : b <= c /\ f[k] <= c
  <2>1. CASE b <= f[k]
    BY <1>8, <2>1
  <2>2. CASE f[k] <= b
    BY <1>8, <2>2
  <2>3. QED BY <1>8, <2>1, <2>2
<1>10. \A n \in 1 .. k : f[n] <= c
  <2> SUFFICES ASSUME NEW n \in 1 .. k PROVE f[n] <= c
    OBVIOUS
  <2>1. n = k \/ n \in 1 .. k - 1
    BY <1>5
  <2>2. n \in 1 .. N /\ f[n] \in Nat
    BY <1>5
  <2>3. QED BY <1>7, <1>8, <1>9, <2>1, <2>2
<1>11. B(k)
  BY <1>9, <1>10 DEF B
<1>12. QED BY <1>3, <1>11

\* A bounded set of numbers has a greatest one, the least of its bounds.
LEMMA Greatest ==
  ASSUME NEW S, S \subseteq Nat, S # {}, NEW b \in Nat, \A n \in S : n <= b
  PROVE  \E n \in S : \A m \in S : m <= n
<1> DEFINE T == {c \in Nat : \A n \in S : n <= c}
<1>1. PICK c \in T : \A d \in T : c <= d
  <2>1. b \in T
    OBVIOUS
  <2> HIDE DEF T
  <2>2. T \subseteq Nat
    BY DEF T
  <2>3. QED BY <2>1, <2>2, Least
<1>2. c \in S
  <2>1. SUFFICES ASSUME c \notin S PROVE FALSE
    OBVIOUS
  <2>2. \A n \in S : n < c
    BY <1>1, <2>1
  <2>3. c - 1 \in Nat /\ \A n \in S : n <= c - 1
    <3>1. c \in Nat /\ \E n \in S : n < c
      BY <2>2
    <3>2. \A n \in S : n \in Nat /\ n < c
      BY <2>2
    <3> HIDE DEF T
    <3>3. QED BY <3>1, <3>2
  <2>4. QED BY <1>1, <2>3
<1>3. QED BY <1>1, <1>2

LEMMA DeviceFacts ==
  ASSUME NEW ds \in Lists, NEW n \in DOMAIN ds
  PROVE  /\ ds[n] \in D!Device
         /\ ds[n].name \in Nat \ {0}
         /\ D!Megabytes(ds[n].size) \in Nat
<1>1. ds \in Seq(D!Device) /\ ds[n] \in D!Device
  BY DEF Lists
<1>2. ds[n].name \in Nat \ {0} /\ ds[n].size \in D!Size
  BY <1>1 DEF D!Device
<1>3. \A size \in D!Size : D!Megabytes(size) \in Nat
  BY DEF D!Size, D!Megabytes
<1>4. QED BY <1>1, <1>2, <1>3

\* The two sorts leave the best one in front.
LEMMA BestIsFirst ==
  ASSUME NEW ds \in Lists, D!FreeSSDs(ds) # {}
  PROVE  IsBest(ds, D!LastOfSmallest(ds, D!FreeSSDs(ds)))
<1> DEFINE free == D!FreeSSDs(ds)
           mb(n) == D!Megabytes(ds[n].size)
           smallest == {n \in free : \A m \in free : mb(n) <= mb(m)}
           names == {ds[n].name : n \in smallest}
           p == D!LastOfSmallest(ds, free)
<1>1. free \subseteq DOMAIN ds
  BY DEF D!FreeSSDs
<1>2. \A n \in free : mb(n) \in Nat /\ ds[n].name \in Nat
  BY <1>1, DeviceFacts
<1>3. smallest # {}
  <2> DEFINE sizes == {mb(n) : n \in free}
  <2>1. sizes \subseteq Nat /\ sizes # {}
    BY <1>2
  <2>2. PICK s \in sizes : \A t \in sizes : s <= t
    BY <2>1, Least
  <2>3. PICK n \in free : s = mb(n)
    OBVIOUS
  <2>4. \A m \in free : mb(m) \in sizes
    OBVIOUS
  <2> HIDE DEF sizes, mb
  <2>5. n \in smallest
    BY <2>2, <2>3, <2>4
  <2>6. QED BY <2>5
<1>4. \E n \in smallest : \A m \in smallest : ds[m].name <= ds[n].name
  <2>1. ds \in Seq(D!Device) /\ Len(ds) \in Nat /\ DOMAIN ds = 1 .. Len(ds)
    BY DEF Lists
  <2>2. PICK b \in Nat : \A n \in DOMAIN ds : ds[n].name <= b
    <3> DEFINE f == [n \in 1 .. Len(ds) |-> ds[n].name]
    <3>1. f \in [1 .. Len(ds) -> Nat]
      BY <2>1, DeviceFacts
    <3>2. \A n \in 1 .. Len(ds) : f[n] = ds[n].name
      OBVIOUS
    <3> HIDE DEF f
    <3>3. \E b \in Nat : \A n \in 1 .. Len(ds) : f[n] <= b
      BY <2>1, <3>1, Bounded
    <3>4. QED BY <2>1, <3>2, <3>3
  <2>3. names \subseteq Nat /\ names # {} /\ \A x \in names : x <= b
    BY <1>1, <1>2, <1>3, <2>2
  <2>4. PICK x \in names : \A y \in names : y <= x
    BY <2>3, Greatest
  <2>5. PICK n \in smallest : x = ds[n].name
    OBVIOUS
  <2>6. \A m \in smallest : ds[m].name \in names
    OBVIOUS
  <2> HIDE DEF smallest, names
  <2>7. QED BY <2>4, <2>5, <2>6
<1>5. p = CHOOSE n \in smallest : \A m \in smallest : ds[m].name <= ds[n].name
  BY DEF D!LastOfSmallest
<1>6. p \in smallest /\ \A m \in smallest : ds[m].name <= ds[p].name
  <2> HIDE DEF smallest, p
  <2>1. QED BY <1>4, <1>5
<1> HIDE DEF p, mb
<1>7. p \in free /\ \A m \in free : mb(p) <= mb(m)
  BY <1>6
<1>8. \A m \in free \ {p} : mb(m) > mb(p) \/ (mb(m) = mb(p) /\ ds[m].name < ds[p].name)
  <2> SUFFICES ASSUME NEW m \in free \ {p}, ~(mb(m) > mb(p))
               PROVE  mb(m) = mb(p) /\ ds[m].name < ds[p].name
    OBVIOUS
  <2>1. mb(m) = mb(p)
    BY <1>2, <1>7
  <2>2. m \in smallest
    BY <1>7, <2>1
  <2>3. ds[m].name # ds[p].name
    BY <1>1, <1>7 DEF Lists
  <2>4. QED BY <1>2, <1>6, <1>7, <2>1, <2>2, <2>3
<1>9. QED BY <1>7, <1>8 DEF IsBest, p, mb

\* The drive that is chosen, when one is: the only labelled one, or the best of
\* the free SSDs where none is labelled.
LEMMA Chosen ==
  ASSUME NEW ds \in Lists, D!FindCorrectDevice(ds).drive # D!NoDrive
  PROVE  \E n \in DOMAIN ds :
           /\ D!FindCorrectDevice(ds) = D!Answer(ds[n].name)
           /\ \/ D!Systems(ds) = {n}
              \/ D!Systems(ds) = {} /\ IsBest(ds, n)
<1> DEFINE systems == D!Systems(ds)
           free == D!FreeSSDs(ds)
           r == D!FindCorrectDevice(ds)
           p == D!LastOfSmallest(ds, free)
<1>1. systems \subseteq DOMAIN ds /\ free \subseteq DOMAIN ds
  BY DEF D!Systems, D!FreeSSDs
<1>2. D!Error.drive = D!NoDrive /\ D!Answer(D!NoDrive).drive = D!NoDrive
  BY DEF D!Error, D!Answer
<1>3. CASE \E n, m \in systems : n # m
  BY <1>2, <1>3 DEF D!FindCorrectDevice
<1>4. CASE systems # {} /\ ~ \E n, m \in systems : n # m
  <2>1. PICK n \in systems : systems = {n}
    BY <1>4
  <2>2. (CHOOSE m \in systems : TRUE) = n
    BY <2>1
  <2>3. r = D!Answer(ds[CHOOSE m \in systems : TRUE].name)
    BY <1>4 DEF D!FindCorrectDevice
  <2>4. r = D!Answer(ds[n].name)
    BY <2>2, <2>3
  <2>5. QED BY <1>1, <2>1, <2>4
<1>5. CASE systems = {}
  <2>1. CASE free = {}
    BY <1>2, <1>5, <2>1 DEF D!FindCorrectDevice
  <2>2. CASE \E n \in free : free = {n}
    <3>1. PICK n \in free : free = {n}
      BY <2>2
    <3>2. (CHOOSE m \in free : TRUE) = n
      BY <3>1
    <3>3. r = D!Error \/ r = D!Answer(ds[CHOOSE m \in free : TRUE].name)
      BY <1>5, <3>1 DEF D!FindCorrectDevice
    <3>4. r = D!Answer(ds[n].name)
      BY <1>2, <3>2, <3>3
    <3>5. IsBest(ds, n)
      BY <3>1 DEF IsBest
    <3>6. QED BY <1>1, <1>5, <3>1, <3>4, <3>5
  <2>3. CASE free # {} /\ ~ \E n \in free : free = {n}
    <3>1. r = D!Error \/ r = D!Answer(ds[p].name)
      BY <1>5, <2>3 DEF D!FindCorrectDevice
    <3>2. IsBest(ds, p)
      BY <2>3, BestIsFirst
    <3>3. p \in free
      BY <3>2 DEF IsBest
    <3>4. QED BY <1>1, <1>2, <1>5, <3>1, <3>2, <3>3
  <2>4. QED BY <2>1, <2>2, <2>3
<1>6. QED BY <1>3, <1>4, <1>5

\* There is only one best one.
LEMMA BestIsOne ==
  ASSUME NEW ds \in Lists, NEW n, NEW m, IsBest(ds, n), IsBest(ds, m)
  PROVE  n = m
<1> SUFFICES ASSUME n # m PROVE FALSE
  OBVIOUS
<1>1. n \in DOMAIN ds /\ m \in DOMAIN ds
  BY DEF IsBest, D!FreeSSDs
<1>2. /\ ds[n].name \in Nat /\ ds[m].name \in Nat
      /\ D!Megabytes(ds[n].size) \in Nat /\ D!Megabytes(ds[m].size) \in Nat
  BY <1>1, DeviceFacts
<1>3. QED BY <1>2 DEF IsBest

\* When no drive is chosen.
NoneChosen(ds) ==
  \/ \E n, m \in D!Systems(ds) : n # m
  \/ /\ D!Systems(ds) = {}
     /\ \/ D!FreeSSDs(ds) = {}
        \/ /\ \A n \in D!FreeSSDs(ds) : D!FreeSSDs(ds) # {n}
           /\ \E n \in D!FreeSSDs(ds) : ~D!Readable(ds[n].size)

\* Then it is an error, except where there are devices to partition and no SSDs.
LEMMA NotChosen ==
  ASSUME NEW ds \in Lists
  PROVE  /\ D!FindCorrectDevice(ds).drive = D!NoDrive <=> NoneChosen(ds)
         /\ NoneChosen(ds) =>
              D!FindCorrectDevice(ds) =
                IF /\ D!Systems(ds) = {} /\ D!FreeSSDs(ds) = {}
                   /\ \E n \in DOMAIN ds : ~D!IsParted(ds[n])
                THEN D!Answer(D!NoDrive) ELSE D!Error
<1> DEFINE systems == D!Systems(ds)
           free == D!FreeSSDs(ds)
           r == D!FindCorrectDevice(ds)
           p == D!LastOfSmallest(ds, free)
<1>1. systems \subseteq DOMAIN ds /\ free \subseteq DOMAIN ds
  BY DEF D!Systems, D!FreeSSDs
<1>2. D!Error.drive = D!NoDrive /\ \A x : D!Answer(x).drive = x
  BY DEF D!Error, D!Answer
<1>3. \A n \in DOMAIN ds : ds[n].name # D!NoDrive
  BY DeviceFacts DEF D!NoDrive
<1>4. free # {} => p \in free /\ \E n \in DOMAIN ds : ~D!IsParted(ds[n])
  <2> SUFFICES ASSUME free # {} PROVE p \in free /\ \E n \in DOMAIN ds : ~D!IsParted(ds[n])
    OBVIOUS
  <2>1. p \in free
    BY BestIsFirst DEF IsBest
  <2>2. ~D!IsParted(ds[p])
    BY <2>1 DEF D!FreeSSDs, D!IsFreeSSD, D!IsParted
  <2>3. QED BY <1>1, <2>1, <2>2
<1>5. CASE \E n, m \in systems : n # m
  <2>1. r = D!Error
    BY <1>5 DEF D!FindCorrectDevice
  <2>2. NoneChosen(ds) /\ systems # {}
    BY <1>5 DEF NoneChosen
  <2>3. QED BY <1>2, <2>1, <2>2
<1>6. CASE systems # {} /\ ~ \E n, m \in systems : n # m
  <2>1. (CHOOSE m \in systems : TRUE) \in systems
    BY <1>6
  <2>2. r = D!Answer(ds[CHOOSE m \in systems : TRUE].name)
    BY <1>6 DEF D!FindCorrectDevice
  <2>3. r.drive # D!NoDrive
    BY <1>1, <1>2, <1>3, <2>1, <2>2
  <2>4. ~NoneChosen(ds)
    BY <1>6 DEF NoneChosen
  <2>5. QED BY <2>3, <2>4
<1>7. CASE systems = {} /\ free = {}
  <2>1. r = IF \E n \in DOMAIN ds : ~D!IsParted(ds[n]) THEN D!Answer(D!NoDrive) ELSE D!Error
    BY <1>7 DEF D!FindCorrectDevice
  <2>2. NoneChosen(ds)
    BY <1>7 DEF NoneChosen
  <2>3. QED BY <1>2, <1>7, <2>1, <2>2
<1>8. CASE systems = {} /\ \E n \in free : free = {n}
  <2>1. (CHOOSE m \in free : TRUE) \in free
    BY <1>8
  <2>2. r = D!Answer(ds[CHOOSE m \in free : TRUE].name)
    BY <1>4, <1>8 DEF D!FindCorrectDevice
  <2>3. r.drive # D!NoDrive
    BY <1>1, <1>2, <1>3, <2>1, <2>2
  <2>4. ~NoneChosen(ds)
    BY <1>8 DEF NoneChosen
  <2>5. QED BY <2>3, <2>4
<1>9. CASE systems = {} /\ free # {} /\ ~ \E n \in free : free = {n}
  <2>1. r = IF \E n \in free : ~D!Readable(ds[n].size) THEN D!Error ELSE D!Answer(ds[p].name)
    BY <1>4, <1>9 DEF D!FindCorrectDevice
  <2>2. NoneChosen(ds) <=> \E n \in free : ~D!Readable(ds[n].size)
    BY <1>9 DEF NoneChosen
  <2>3. D!Answer(ds[p].name).drive # D!NoDrive
    BY <1>1, <1>2, <1>3, <1>4, <1>9
  <2>4. QED BY <1>2, <1>9, <2>1, <2>2, <2>3
<1>10. QED BY <1>5, <1>6, <1>7, <1>8, <1>9

\* Devices that are in one list are in the other, at different places.
LEMMA SamePlaces ==
  ASSUME NEW ds \in Lists, NEW es \in Lists, SameDevices(ds, es),
         NEW n \in DOMAIN ds, NEW m \in DOMAIN ds
  PROVE  \E k, l \in DOMAIN es : es[k] = ds[n] /\ es[l] = ds[m] /\ (k = l <=> n = m)
<1>1. PICK k \in DOMAIN es : es[k] = ds[n]
  BY DEF SameDevices
<1>2. PICK l \in DOMAIN es : es[l] = ds[m]
  BY DEF SameDevices
<1>3. n = m => k = l
  BY <1>1, <1>2 DEF Lists
<1>4. k = l => n = m
  BY <1>1, <1>2 DEF Lists
<1>5. QED BY <1>1, <1>2, <1>3, <1>4

\* So they are labelled or free in both.
LEMMA SameSets ==
  ASSUME NEW ds \in Lists, NEW es \in Lists, SameDevices(ds, es)
  PROVE  /\ D!Systems(ds) = {} => D!Systems(es) = {}
         /\ D!FreeSSDs(ds) = {} => D!FreeSSDs(es) = {}
         /\ NoneChosen(ds) => NoneChosen(es)
         /\ (\E n \in DOMAIN ds : ~D!IsParted(ds[n])) => \E n \in DOMAIN es : ~D!IsParted(es[n])
<1>1. D!Systems(ds) = {} => D!Systems(es) = {}
  BY DEF SameDevices, D!Systems
<1>2. D!FreeSSDs(ds) = {} => D!FreeSSDs(es) = {}
  BY DEF SameDevices, D!FreeSSDs
<1>3. (\E n \in DOMAIN ds : ~D!IsParted(ds[n])) => \E n \in DOMAIN es : ~D!IsParted(es[n])
  BY DEF SameDevices
<1>4. ASSUME NoneChosen(ds) PROVE NoneChosen(es)
  <2>1. CASE \E n, m \in D!Systems(ds) : n # m
    <3>1. PICK n, m \in D!Systems(ds) : n # m
      BY <2>1
    <3>2. PICK k, l \in DOMAIN es : es[k] = ds[n] /\ es[l] = ds[m] /\ k # l
      BY <3>1, SamePlaces DEF D!Systems
    <3>3. k \in D!Systems(es) /\ l \in D!Systems(es)
      BY <3>1, <3>2 DEF D!Systems
    <3>4. QED BY <3>2, <3>3 DEF NoneChosen
  <2>2. CASE D!Systems(ds) = {} /\ D!FreeSSDs(ds) = {}
    BY <1>1, <1>2, <2>2 DEF NoneChosen
  <2>3. CASE /\ D!Systems(ds) = {}
             /\ \A n \in D!FreeSSDs(ds) : D!FreeSSDs(ds) # {n}
             /\ \E n \in D!FreeSSDs(ds) : ~D!Readable(ds[n].size)
    <3>1. PICK n \in D!FreeSSDs(ds) : ~D!Readable(ds[n].size)
      BY <2>3
    <3>2. PICK m \in D!FreeSSDs(ds) : m # n
      BY <2>3
    <3>3. PICK k, l \in DOMAIN es : es[k] = ds[n] /\ es[l] = ds[m] /\ k # l
      BY <3>2, SamePlaces DEF D!FreeSSDs
    <3>4. k \in D!FreeSSDs(es) /\ l \in D!FreeSSDs(es)
      BY <3>3 DEF D!FreeSSDs
    <3>5. ~D!Readable(es[k].size)
      BY <3>1, <3>3
    <3>6. \A f \in D!FreeSSDs(es) : D!FreeSSDs(es) # {f}
      BY <3>3, <3>4
    <3>7. QED BY <1>1, <2>3, <3>4, <3>5, <3>6 DEF NoneChosen
  <2>4. QED BY <1>4, <2>1, <2>2, <2>3 DEF NoneChosen
<1>5. QED BY <1>1, <1>2, <1>3, <1>4

\* However lsblk orders its list, findCorrectDevice (baremetal.go:599) gives
\* the same answer.
THEOREM OrderIsIrrelevant ==
  ASSUME NEW ds \in Lists, NEW es \in Lists, SameDevices(ds, es)
  PROVE  D!FindCorrectDevice(es) = D!FindCorrectDevice(ds)
<1>1. SameDevices(es, ds)
  BY DEF SameDevices
<1>2. CASE NoneChosen(ds)
  <2>1. NoneChosen(es)
    BY <1>2, SameSets
  <2>2. /\ D!Systems(ds) = {} <=> D!Systems(es) = {}
        /\ D!FreeSSDs(ds) = {} <=> D!FreeSSDs(es) = {}
        /\ (\E n \in DOMAIN ds : ~D!IsParted(ds[n])) <=> \E n \in DOMAIN es : ~D!IsParted(es[n])
    BY <1>1, SameSets
  <2> DEFINE P(x) == /\ D!Systems(x) = {} /\ D!FreeSSDs(x) = {}
                     /\ \E n \in DOMAIN x : ~D!IsParted(x[n])
  <2>3. P(ds) <=> P(es)
    BY <2>2
  <2>4. /\ D!FindCorrectDevice(ds) = IF P(ds) THEN D!Answer(D!NoDrive) ELSE D!Error
        /\ D!FindCorrectDevice(es) = IF P(es) THEN D!Answer(D!NoDrive) ELSE D!Error
    BY <1>2, <2>1, NotChosen
  <2> HIDE DEF P
  <2>5. QED BY <2>3, <2>4
<1>3. CASE ~NoneChosen(ds)
  <2>1. ~NoneChosen(es)
    BY <1>1, <1>3, SameSets
  <2>2. PICK n \in DOMAIN ds :
          /\ D!FindCorrectDevice(ds) = D!Answer(ds[n].name)
          /\ \/ D!Systems(ds) = {n}
             \/ D!Systems(ds) = {} /\ IsBest(ds, n)
    BY <1>3, NotChosen, Chosen
  <2>3. PICK m \in DOMAIN es :
          /\ D!FindCorrectDevice(es) = D!Answer(es[m].name)
          /\ \/ D!Systems(es) = {m}
             \/ D!Systems(es) = {} /\ IsBest(es, m)
    BY <2>1, NotChosen, Chosen
  <2>4. PICK k \in DOMAIN es : es[k] = ds[n]
    BY DEF SameDevices
  <2>5. CASE D!Systems(ds) = {n}
    <3>1. k \in D!Systems(es)
      BY <2>4, <2>5 DEF D!Systems
    <3>2. k = m
      BY <2>3, <3>1
    <3>3. QED BY <2>2, <2>3, <2>4, <3>2
  <2>6. CASE D!Systems(ds) = {} /\ IsBest(ds, n)
    <3>1. D!Systems(es) = {}
      BY <2>6, SameSets
    <3>2. IsBest(es, m)
      BY <2>3, <3>1
    <3>3. k \in D!FreeSSDs(es)
      BY <2>4, <2>6 DEF D!FreeSSDs, IsBest
    <3>4. ASSUME NEW l \in D!FreeSSDs(es) \ {k}
          PROVE  \/ D!Megabytes(es[l].size) > D!Megabytes(es[k].size)
                 \/ /\ D!Megabytes(es[l].size) = D!Megabytes(es[k].size)
                    /\ es[l].name < es[k].name
      <4>1. l \in DOMAIN es /\ k \in DOMAIN es /\ l # k
        BY <2>4 DEF D!FreeSSDs
      <4>2. PICK j, i \in DOMAIN ds : ds[j] = es[l] /\ ds[i] = es[k] /\ j # i
        BY <1>1, <4>1, SamePlaces
      <4>3. i = n
        BY <2>4, <4>2 DEF Lists
      <4>4. j \in D!FreeSSDs(ds) \ {n}
        BY <4>2, <4>3 DEF D!FreeSSDs
      <4>5. \/ D!Megabytes(ds[j].size) > D!Megabytes(ds[n].size)
            \/ /\ D!Megabytes(ds[j].size) = D!Megabytes(ds[n].size)
               /\ ds[j].name < ds[n].name
        BY <2>6, <4>4 DEF IsBest
      <4>6. QED BY <2>4, <4>2, <4>5
    <3>5. IsBest(es, k)
      BY <3>3, <3>4 DEF IsBest
    <3>6. k = m
      BY <3>2, <3>5, BestIsOne
    <3>7. QED BY <2>2, <2>3, <2>4, <3>6
  <2>7. QED BY <2>2, <2>5, <2>6
<1>4. QED BY <1>2, <1>3

\* DriveIsRight (BlockDevices), for lists of any length and sizes: the drive is
\* the labelled one or the best of the free SSDs, whichever way lsblk lists them.
THEOREM DriveIsAlwaysRight ==
  ASSUME NEW ds \in Lists
  PROVE  D!DriveIsRight(ds)
<1> DEFINE es == D!Reverse(ds)
           len == Len(ds)
<1>1. ds \in Seq(D!Device) /\ len \in Nat /\ DOMAIN ds = 1 .. len
  BY DEF Lists
<1>2. es = [n \in 1 .. len |-> ds[(len - n) + 1]]
  BY DEF D!Reverse
<1> HIDE DEF es, len
<1>3. \A n \in 1 .. len : (len - n) + 1 \in 1 .. len /\ (len - ((len - n) + 1)) + 1 = n
  BY <1>1
<1>4. DOMAIN es = 1 .. len /\ \A n \in 1 .. len : es[n] = ds[(len - n) + 1]
  BY <1>2
<1>5. es \in Lists
  <2>1. \A n \in 1 .. len : es[n] \in D!Device
    BY <1>1, <1>3, <1>4
  <2>2. es \in Seq(D!Device)
    <3>1. es \in [1 .. len -> D!Device]
      BY <1>2, <1>4, <2>1
    <3>2. QED BY <1>1, <3>1
  <2>3. ASSUME NEW n \in DOMAIN es, NEW m \in DOMAIN es, es[n].name = es[m].name
        PROVE  n = m
    <3> DEFINE k == (len - n) + 1
               l == (len - m) + 1
    <3>1. /\ k \in DOMAIN ds /\ (len - k) + 1 = n /\ es[n] = ds[k]
          /\ l \in DOMAIN ds /\ (len - l) + 1 = m /\ es[m] = ds[l]
      BY <1>1, <1>3, <1>4
    <3> HIDE DEF k, l
    <3>2. k = l
      BY <2>3, <3>1 DEF Lists
    <3>3. QED BY <3>1, <3>2
  <2>4. QED BY <2>2, <2>3 DEF Lists
<1>6. SameDevices(ds, es)
  <2>1. ASSUME NEW n \in DOMAIN ds PROVE \E m \in DOMAIN es : es[m] = ds[n]
    <3> DEFINE m == (len - n) + 1
    <3>1. m \in DOMAIN es /\ (len - m) + 1 = n
      BY <1>1, <1>3, <1>4
    <3> HIDE DEF m
    <3>2. es[m] = ds[n]
      BY <1>4, <3>1
    <3>3. QED BY <3>1, <3>2
  <2>2. ASSUME NEW m \in DOMAIN es PROVE \E n \in DOMAIN ds : ds[n] = es[m]
    BY <1>1, <1>3, <1>4
  <2>3. QED BY <2>1, <2>2 DEF SameDevices
<1>7. D!FindCorrectDevice(es) = D!FindCorrectDevice(ds)
  BY <1>5, <1>6, OrderIsIrrelevant
<1>8. D!FindCorrectDevice(ds).drive # D!NoDrive =>
        \E n \in DOMAIN ds :
          /\ ds[n].name = D!FindCorrectDevice(ds).drive
          /\ D!IsSystem(ds[n]) \/ IsBest(ds, n)
  <2> SUFFICES ASSUME D!FindCorrectDevice(ds).drive # D!NoDrive
               PROVE  \E n \in DOMAIN ds :
                        /\ ds[n].name = D!FindCorrectDevice(ds).drive
                        /\ D!IsSystem(ds[n]) \/ IsBest(ds, n)
    OBVIOUS
  <2>1. PICK n \in DOMAIN ds :
          /\ D!FindCorrectDevice(ds) = D!Answer(ds[n].name)
          /\ \/ D!Systems(ds) = {n}
             \/ D!Systems(ds) = {} /\ IsBest(ds, n)
    BY Chosen
  <2>2. D!Systems(ds) = {n} => D!IsSystem(ds[n])
    BY DEF D!Systems
  <2>3. ds[n].name = D!FindCorrectDevice(ds).drive
    BY <2>1 DEF D!Answer
  <2>4. QED BY <2>1, <2>2, <2>3
<1>9. QED BY <1>7, <1>8 DEF D!DriveIsRight, IsBest, es

\* DriveIsKept (BlockDevices), likewise: a machine that is provisioned again is
\* installed on the drive it has been installed on.
THEOREM DriveIsAlwaysKept ==
  ASSUME NEW ds \in Lists
  PROVE  D!DriveIsKept(ds)
<1> DEFINE drive == D!FindCorrectDevice(ds).drive
           new == D!Install(ds, drive)
<1> SUFFICES ASSUME drive # D!NoDrive PROVE D!FindCorrectDevice(new) = D!Answer(drive)
  BY DEF D!DriveIsKept
<1>1. PICK n \in DOMAIN ds :
        /\ D!FindCorrectDevice(ds) = D!Answer(ds[n].name)
        /\ \/ D!Systems(ds) = {n}
           \/ D!Systems(ds) = {} /\ IsBest(ds, n)
  BY Chosen
<1>2. ds[n] \in D!Device /\ ds[n].name = drive
  BY <1>1, DeviceFacts DEF D!Answer
<1>3. ds[n].sd
  BY <1>1 DEF IsBest, D!FreeSSDs, D!IsFreeSSD, D!Systems, D!IsSystem
<1> HIDE DEF drive
<1>4. DOMAIN new = DOMAIN ds /\ new[n] = [ds[n] EXCEPT !.parts = "os"]
  BY <1>2 DEF D!Install
<1>5. \A m \in DOMAIN ds : m # n => new[m] = ds[m]
  BY <1>2 DEF D!Install, Lists
<1> HIDE DEF new
<1>6. D!IsSystem(new[n]) /\ new[n].name = drive
  BY <1>2, <1>3, <1>4 DEF D!IsSystem, D!Device
<1>7. D!Systems(new) = {n}
  <2>1. \A m \in DOMAIN ds : m # n => ~D!IsSystem(ds[m])
    BY <1>1 DEF D!Systems
  <2>2. QED BY <1>4, <1>5, <1>6, <2>1 DEF D!Systems
<1>8. (CHOOSE m \in D!Systems(new) : TRUE) = n
  BY <1>7
<1>9. D!FindCorrectDevice(new) = D!Answer(new[n].name)
  BY <1>7, <1>8 DEF D!FindCorrectDevice
<1>10. QED BY <1>6, <1>9 DEF new

\* The lists of the bounded inputs are among them.
LEMMA BoundedLists == DeviceLists \subseteq Lists
<1> DEFINE Injections(n) ==
             {q \in [1 .. n -> 1 .. n] : \A i, j \in 1 .. n : q[i] = q[j] => i = j}
           List(n, k, p) ==
             [i \in 1 .. n |-> [name |-> p[i], sd |-> k[i].sd, rotates |-> k[i].rotates,
                                parts |-> k[i].parts, size |-> k[i].size]]
           Kind == [sd : BOOLEAN, rotates : BOOLEAN, parts : {"none", "plain", "os"},
                    size : D!Size]
<1>1. \A k \in Kinds : k \in Kind
  <2>1. {Big, Same, Half, Odd} \subseteq D!Size
    BY DEF Big, Same, Half, Odd, D!Size, D!Units
  <2>2. Half \in {Big, Same, Half, Odd}
    OBVIOUS
  <2> HIDE DEF Kind
  <2>3. QED BY <2>1, <2>2 DEF Kinds, Kind
<1>2. ASSUME NEW n \in 0 .. 3, NEW k \in [1 .. n -> Kinds], NEW p \in Injections(n)
      PROVE  List(n, k, p) \in Lists
  <2>1. n \in Nat /\ p \in [1 .. n -> 1 .. n]
    OBVIOUS
  <2>2. ASSUME NEW i \in 1 .. n
        PROVE  /\ List(n, k, p)[i] \in D!Device
               /\ List(n, k, p)[i].name = p[i]
    <3>1. k[i] \in Kind /\ p[i] \in Nat \ {0}
      BY <1>1, <2>1
    <3>2. QED BY <3>1 DEF D!Device
  <2>3. DOMAIN List(n, k, p) = 1 .. n
    OBVIOUS
  <2> DEFINE ds == List(n, k, p)
  <2>4. ds \in [1 .. n -> D!Device]
    BY <2>2
  <2> HIDE DEF List
  <2>5. ds \in Seq(D!Device)
    BY <2>1, <2>4
  <2>6. QED BY <2>2, <2>3, <2>5 DEF Lists
<1>3. \A ds \in DeviceLists : \E n \in 0 .. 3 : \E k \in [1 .. n -> Kinds], p \in Injections(n) :
        ds = List(n, k, p)
  BY DEF DeviceLists
<1> HIDE DEF Injections, List
<1>4. QED BY <1>2, <1>3

\* So the run's inputs are no exception (DrivesAreRight of MCOperators).
THEOREM BoundedDrivesAreRight == Spec => []DrivesAreRight
<1>1. Init => DrivesAreRight
  <2> SUFFICES ASSUME Init, input.for = "drive" PROVE D!DriveIsRight(input.ds)
    BY DEF DrivesAreRight
  <2>1. input \in [for : {"drive"}, ds : DeviceLists]
    BY DEF Init
  <2>2. input.ds \in DeviceLists
    BY <2>1
  <2>3. QED BY <2>2, BoundedLists, DriveIsAlwaysRight
<1>2. DrivesAreRight /\ [Next]_input => DrivesAreRight'
  BY DEF DrivesAreRight, Next
<1>3. QED BY <1>1, <1>2, PTL DEF Spec

\* Nor when they are provisioned again (DrivesAreKept of MCOperators).
THEOREM BoundedDrivesAreKept == Spec => []DrivesAreKept
<1>1. Init => DrivesAreKept
  <2> SUFFICES ASSUME Init, input.for = "drive" PROVE D!DriveIsKept(input.ds)
    BY DEF DrivesAreKept
  <2>1. input \in [for : {"drive"}, ds : DeviceLists]
    BY DEF Init
  <2>2. input.ds \in DeviceLists
    BY <2>1
  <2>3. QED BY <2>2, BoundedLists, DriveIsAlwaysKept
<1>2. DrivesAreKept /\ [Next]_input => DrivesAreKept'
  BY DEF DrivesAreKept, Next
<1>3. QED BY <1>1, <1>2, PTL DEF Spec

-----------------------------------------------------------------------------
(* Locations.                                                              *)

\* Permutations of the places of a list, and those that sort it.
IsPermutation(n, p) ==
  /\ p \in [1 .. n -> 1 .. n]
  /\ \A i, j \in 1 .. n : p[i] = p[j] => i = j
  /\ \A j \in 1 .. n : \E i \in 1 .. n : p[i] = j

Sorts(n, p, ls) == \A i, j \in 1 .. n : i < j => ls[p[i]] <= ls[p[j]]

Sortable(n) == \A ls \in [1 .. n -> Nat] : \E p : IsPermutation(n, p) /\ Sorts(n, p, ls)

\* A list with a greatest element is sorted by putting the last one in its
\* place, sorting all but the last, and putting it at the end.
LEMMA OneMore ==
  ASSUME NEW n \in Nat \ {0}, Sortable(n - 1)
  PROVE  Sortable(n)
<1> SUFFICES ASSUME NEW ls \in [1 .. n -> Nat]
             PROVE  \E p : IsPermutation(n, p) /\ Sorts(n, p, ls)
  BY DEF Sortable
<1> DEFINE values == {ls[i] : i \in 1 .. n}
<1>1. PICK b \in Nat : \A i \in 1 .. n : ls[i] <= b
  BY Bounded
<1>2. values \subseteq Nat /\ values # {} /\ \A x \in values : x <= b
  <2>1. 1 \in 1 .. n
    OBVIOUS
  <2>2. QED BY <1>1, <2>1
<1>3. PICK x \in values : \A y \in values : y <= x
  BY <1>2, Greatest
<1>4. PICK q \in 1 .. n : \A i \in 1 .. n : ls[i] <= ls[q]
  BY <1>3
<1> DEFINE t == [i \in 1 .. n - 1 |-> IF i = q THEN n ELSE i]
           rest == [i \in 1 .. n - 1 |-> ls[t[i]]]
<1>5. /\ t \in [1 .. n - 1 -> 1 .. n]
      /\ \A i \in 1 .. n - 1 : t[i] # q
      /\ \A i, j \in 1 .. n - 1 : t[i] = t[j] => i = j
      /\ \A j \in 1 .. n : j = q \/ \E i \in 1 .. n - 1 : t[i] = j
  <2>1. t \in [1 .. n - 1 -> 1 .. n]
    OBVIOUS
  <2>2. \A i \in 1 .. n - 1 : t[i] # q
    OBVIOUS
  <2>3. \A i, j \in 1 .. n - 1 : t[i] = t[j] => i = j
    OBVIOUS
  <2>4. ASSUME NEW j \in 1 .. n, j # q PROVE \E i \in 1 .. n - 1 : t[i] = j
    <3>1. CASE j = n
      <4>1. q \in 1 .. n - 1 /\ t[q] = j
        BY <2>4, <3>1
      <4>2. QED BY <4>1
    <3>2. CASE j # n
      <4>1. j \in 1 .. n - 1 /\ t[j] = j
        BY <2>4, <3>2
      <4>2. QED BY <4>1
    <3>3. QED BY <3>1, <3>2
  <2> HIDE DEF t
  <2>5. QED BY <2>1, <2>2, <2>3, <2>4
<1> HIDE DEF t
<1>6. rest \in [1 .. n - 1 -> Nat] /\ \A i \in 1 .. n - 1 : rest[i] = ls[t[i]]
  BY <1>5
<1> HIDE DEF rest
<1>7. PICK s : IsPermutation(n - 1, s) /\ Sorts(n - 1, s, rest)
  BY <1>6 DEF Sortable
<1> DEFINE p == [i \in 1 .. n |-> IF i = n THEN q ELSE t[s[i]]]
<1>8. /\ s \in [1 .. n - 1 -> 1 .. n - 1]
      /\ p \in [1 .. n -> 1 .. n] /\ p[n] = q
      /\ \A i \in 1 .. n - 1 : p[i] = t[s[i]] /\ s[i] \in 1 .. n - 1 /\ i \in 1 .. n
      /\ \A i \in 1 .. n : i = n \/ i \in 1 .. n - 1
  <2>1. s \in [1 .. n - 1 -> 1 .. n - 1]
    BY <1>7 DEF IsPermutation
  <2>2. \A i \in 1 .. n : i = n \/ i \in 1 .. n - 1
    OBVIOUS
  <2>3. \A i \in 1 .. n - 1 : i # n /\ i \in 1 .. n
    OBVIOUS
  <2>4. n \in 1 .. n
    OBVIOUS
  <2>5. QED BY <1>5, <2>1, <2>2, <2>3, <2>4
<1> HIDE DEF p
<1>9. \A i, j \in 1 .. n : p[i] = p[j] => i = j
  <2>1. \A i \in 1 .. n - 1 : p[i] # q
    <3> SUFFICES ASSUME NEW i \in 1 .. n - 1 PROVE p[i] # q
      OBVIOUS
    <3>1. p[i] = t[s[i]] /\ s[i] \in 1 .. n - 1
      BY <1>8
    <3>2. QED BY <1>5, <3>1
  <2>2. ASSUME NEW i \in 1 .. n - 1, NEW j \in 1 .. n - 1, p[i] = p[j] PROVE i = j
    <3>1. /\ p[i] = t[s[i]] /\ s[i] \in 1 .. n - 1
          /\ p[j] = t[s[j]] /\ s[j] \in 1 .. n - 1
      BY <1>8
    <3>2. s[i] = s[j]
      <4>1. \A k, l \in 1 .. n - 1 : t[k] = t[l] => k = l
        BY <1>5
      <4>2. t[s[i]] = t[s[j]]
        BY <2>2, <3>1
      <4>3. QED BY <3>1, <4>1, <4>2
    <3>3. QED BY <1>7, <3>2 DEF IsPermutation
  <2>3. QED BY <1>8, <2>1, <2>2
<1>10. \A j \in 1 .. n : \E i \in 1 .. n : p[i] = j
  <2> SUFFICES ASSUME NEW j \in 1 .. n PROVE \E i \in 1 .. n : p[i] = j
    OBVIOUS
  <2>1. CASE j = q
    BY <1>8, <2>1
  <2>2. CASE j # q
    <3>1. PICK k \in 1 .. n - 1 : t[k] = j
      BY <1>5, <2>2
    <3>2. PICK i \in 1 .. n - 1 : s[i] = k
      BY <1>7 DEF IsPermutation
    <3>3. p[i] = j /\ i \in 1 .. n
      BY <1>8, <3>1, <3>2
    <3>4. QED BY <3>3
  <2>3. QED BY <2>1, <2>2
<1>11. ASSUME NEW i \in 1 .. n, NEW j \in 1 .. n, i < j
       PROVE  ls[p[i]] <= ls[p[j]]
  <2>1. i \in 1 .. n - 1
    BY <1>11
  <2>2. CASE j = n
    <3>1. p[i] \in 1 .. n
      BY <1>8
    <3>2. QED BY <1>4, <1>8, <2>2, <3>1
  <2>3. CASE j \in 1 .. n - 1
    <3>1. rest[s[i]] <= rest[s[j]]
      BY <1>7, <1>11, <2>1, <2>3 DEF Sorts
    <3>2. QED BY <1>6, <1>8, <2>1, <2>3, <3>1
  <2>4. QED BY <1>8, <2>2, <2>3
<1>12. IsPermutation(n, p) /\ Sorts(n, p, ls)
  BY <1>8, <1>9, <1>10, <1>11 DEF IsPermutation, Sorts
<1>13. QED BY <1>12

\* So every list can be sorted.
LEMMA AllSortable == \A n \in Nat : Sortable(n)
<1> DEFINE S == {n \in Nat : ~Sortable(n)}
<1>1. SUFFICES ASSUME S # {} PROVE FALSE
  OBVIOUS
<1>2. PICK n \in S : \A m \in S : n <= m
  BY <1>1, Least
<1>3. Sortable(0)
  <2> SUFFICES ASSUME NEW ls \in [1 .. 0 -> Nat]
               PROVE  \E p : IsPermutation(0, p) /\ Sorts(0, p, ls)
    BY DEF Sortable
  <2> DEFINE p == [i \in 1 .. 0 |-> i]
  <2>1. IsPermutation(0, p) /\ Sorts(0, p, ls)
    BY DEF IsPermutation, Sorts
  <2>2. QED BY <2>1
<1>4. n \in Nat \ {0} /\ n - 1 \in Nat /\ n - 1 \notin S
  BY <1>2, <1>3
<1>5. Sortable(n - 1)
  BY <1>4
<1>6. QED BY <1>2, <1>4, <1>5, OneMore

LEMMA BijectionFacts ==
  ASSUME NEW n \in Nat, NEW p
  PROVE  p \in L!Bijection(1 .. n, 1 .. n) <=> IsPermutation(n, p)
BY DEF L!Bijection, L!Injection, L!Surjection, L!IsInjective, IsPermutation

\* A list that has no other elements.
DrawnFrom(n, s, ls) == \A i \in 1 .. n : \E j \in 1 .. n : s[i] = ls[j]

\* A list that is a rearrangement of another has the same rearrangements.
LEMMA ArrangementFacts ==
  ASSUME NEW n \in Nat, NEW ls, NEW F, ls \in [1 .. n -> F], NEW s \in L!Arrangements(ls)
  PROVE  /\ s \in [1 .. n -> F]
         /\ DrawnFrom(n, s, ls)
         /\ L!Arrangements(s) = L!Arrangements(ls)
<1> DEFINE B == L!Bijection(1 .. n, 1 .. n)
           On(l, q) == [i \in 1 .. n |-> l[q[i]]]
<1>1. /\ L!Arrangements(ls) = {On(ls, q) : q \in B}
      /\ DOMAIN s = 1 .. n => L!Arrangements(s) = {On(s, q) : q \in B}
  BY DEF L!Arrangements
<1>2. PICK p \in B : s = On(ls, p)
  BY <1>1
<1>3. IsPermutation(n, p)
  BY <1>2, BijectionFacts
<1>4. /\ s \in [1 .. n -> F] /\ DOMAIN s = 1 .. n
      /\ \A i \in 1 .. n : s[i] = ls[p[i]] /\ p[i] \in 1 .. n
  BY <1>2, <1>3 DEF IsPermutation
<1>5. ASSUME NEW q \in B PROVE On(s, q) \in L!Arrangements(ls)
  <2> DEFINE r == [i \in 1 .. n |-> p[q[i]]]
  <2>1. IsPermutation(n, q)
    BY BijectionFacts
  <2>2. IsPermutation(n, r)
    <3>1. r \in [1 .. n -> 1 .. n] /\ \A i \in 1 .. n : r[i] = p[q[i]] /\ q[i] \in 1 .. n
      BY <1>3, <2>1 DEF IsPermutation
    <3> HIDE DEF r
    <3>2. ASSUME NEW i \in 1 .. n, NEW j \in 1 .. n, r[i] = r[j] PROVE i = j
      <4>1. p[q[i]] = p[q[j]] /\ q[i] \in 1 .. n /\ q[j] \in 1 .. n
        BY <3>1, <3>2
      <4>2. q[i] = q[j]
        BY <1>3, <4>1 DEF IsPermutation
      <4>3. QED BY <2>1, <4>2 DEF IsPermutation
    <3>3. \A j \in 1 .. n : \E i \in 1 .. n : r[i] = j
      BY <1>3, <2>1, <3>1 DEF IsPermutation
    <3>4. QED BY <3>1, <3>2, <3>3 DEF IsPermutation
  <2>3. On(s, q) = On(ls, r)
    BY <1>4, <2>1 DEF IsPermutation
  <2>4. r \in B
    BY <2>2, BijectionFacts
  <2> HIDE DEF On, r, B
  <2>5. QED BY <1>1, <2>3, <2>4
<1>6. ASSUME NEW q \in B PROVE On(ls, q) \in L!Arrangements(s)
  <2>1. IsPermutation(n, q)
    BY BijectionFacts
  <2> DEFINE r == [i \in 1 .. n |-> CHOOSE j \in 1 .. n : p[j] = q[i]]
  <2>2. \A i \in 1 .. n : r[i] \in 1 .. n /\ p[r[i]] = q[i] /\ q[i] \in 1 .. n
    BY <1>3, <2>1 DEF IsPermutation
  <2>3. r \in [1 .. n -> 1 .. n]
    BY <2>2
  <2>4. On(ls, q) = On(s, r)
    BY <1>4, <2>2
  <2> HIDE DEF r
  <2>5. IsPermutation(n, r)
    <3>1. ASSUME NEW i \in 1 .. n, NEW j \in 1 .. n, r[i] = r[j] PROVE i = j
      <4>1. q[i] = q[j]
        BY <2>2, <3>1
      <4>2. QED BY <2>1, <4>1 DEF IsPermutation
    <3>2. \A j \in 1 .. n : \E i \in 1 .. n : r[i] = j
      <4> SUFFICES ASSUME NEW j \in 1 .. n PROVE \E i \in 1 .. n : r[i] = j
        OBVIOUS
      <4>1. p[j] \in 1 .. n
        BY <1>3 DEF IsPermutation
      <4>2. PICK i \in 1 .. n : q[i] = p[j]
        BY <2>1, <4>1 DEF IsPermutation
      <4>3. r[i] = j
        BY <1>3, <2>2, <4>2 DEF IsPermutation
      <4>4. QED BY <4>3
    <3>3. QED BY <2>3, <3>1, <3>2 DEF IsPermutation
  <2>6. r \in B
    BY <2>5, BijectionFacts
  <2> HIDE DEF On, B
  <2>7. QED BY <1>1, <1>4, <2>4, <2>6
<1> HIDE DEF On, B
<1>7. L!Arrangements(s) = L!Arrangements(ls)
  BY <1>1, <1>4, <1>5, <1>6
<1>8. DrawnFrom(n, s, ls)
  BY <1>4 DEF DrawnFrom
<1>9. QED BY <1>4, <1>7, <1>8

\* A sorted list has the elements of the list, and is sorted to itself.
LEMMA SortedFacts ==
  ASSUME NEW ls \in Seq(Nat)
  PROVE  /\ L!Sorted(ls) \in Seq(Nat) /\ DOMAIN L!Sorted(ls) = DOMAIN ls
         /\ \A i \in DOMAIN ls : \E j \in DOMAIN ls : L!Sorted(ls)[i] = ls[j]
         /\ L!Sorted(L!Sorted(ls)) = L!Sorted(ls)
<1> DEFINE n == Len(ls)
           s == L!Sorted(ls)
           Ascends(x) == \A i, j \in 1 .. n : i < j => x[i] <= x[j]
           First(A) == CHOOSE x \in A : Ascends(x)
<1>1. n \in Nat /\ ls \in [1 .. n -> Nat] /\ DOMAIN ls = 1 .. n
  OBVIOUS
<1> HIDE DEF n
<1>2. s = First(L!Arrangements(ls))
  BY <1>1 DEF L!Sorted
<1>3. \E x \in L!Arrangements(ls) : Ascends(x)
  <2>1. PICK p : IsPermutation(n, p) /\ Sorts(n, p, ls)
    BY <1>1, AllSortable DEF Sortable
  <2> DEFINE x == [i \in 1 .. n |-> ls[p[i]]]
  <2>2. x \in L!Arrangements(ls)
    BY <1>1, <2>1, BijectionFacts DEF L!Arrangements
  <2>3. Ascends(x)
    BY <2>1 DEF Sorts
  <2> HIDE DEF x, Ascends
  <2>4. QED BY <2>2, <2>3
<1>4. s \in L!Arrangements(ls)
  <2> HIDE DEF Ascends, s
  <2>1. QED BY <1>2, <1>3
<1> HIDE DEF s
<1>5. /\ s \in [1 .. n -> Nat] /\ DOMAIN s = 1 .. n
      /\ DrawnFrom(n, s, ls)
      /\ L!Arrangements(s) = L!Arrangements(ls)
  <2>1. s \in [1 .. n -> Nat]
    BY <1>1, <1>4, ArrangementFacts
  <2>2. DrawnFrom(n, s, ls)
    BY <1>1, <1>4, ArrangementFacts
  <2>3. L!Arrangements(s) = L!Arrangements(ls)
    BY <1>1, <1>4, ArrangementFacts
  <2>4. QED BY <2>1, <2>2, <2>3
<1>6. L!Sorted(s) = First(L!Arrangements(s))
  BY <1>5 DEF L!Sorted
<1>7. L!Sorted(s) = s
  <2> HIDE DEF First
  <2>1. QED BY <1>2, <1>5, <1>6
<1>8. s \in Seq(Nat)
  BY <1>1, <1>5
<1>9. QED BY <1>1, <1>5, <1>7, <1>8 DEF s, DrawnFrom

LEMMA InZoneFacts ==
  ASSUME NEW zone
  PROVE  /\ L!InZone(zone) \in Seq(Nat)
         /\ \A i \in DOMAIN L!InZone(zone) :
              L!InZone(zone)[i] \in Known /\ ZoneOf[L!InZone(zone)[i]] = zone
<1> DEFINE S == {l \in Known : ZoneOf[l] = zone}
           ls == L!InZone(zone)
           n == Cardinality(S)
<1>1. IsFiniteSet(S)
  <2>1. IsFiniteSet(Known)
    <3>1. 1 \in Int /\ 4 \in Int
      OBVIOUS
    <3>2. IsFiniteSet(1 .. 4)
      BY <3>1, FS_Interval
    <3>3. QED BY <3>2 DEF Known
  <2>2. QED BY <2>1, FS_Subset
<1>2. n \in Nat /\ ExistsBijection(1 .. n, S)
  BY <1>1, FS_CardinalityType
<1>3. L!Cardinality(S) = n
  BY DEF L!Cardinality, Cardinality
<1>4. \E f \in [1 .. n -> S] : L!IsInjective(f)
  BY <1>2 DEF ExistsBijection, Bijection, Injection, IsInjective, L!IsInjective
<1>5. ls = CHOOSE f \in [1 .. L!Cardinality(S) -> S] : L!IsInjective(f)
  BY DEF L!InZone, L!SetToSeq
<1> HIDE DEF n, ls
<1>6. ls \in [1 .. n -> S]
  <2> HIDE DEF S
  <2>1. QED BY <1>3, <1>4, <1>5
<1>7. ls \in [1 .. n -> Nat] /\ n \in Nat
  BY <1>2, <1>6 DEF Known
<1>8. QED BY <1>6, <1>7 DEF ls

\* LocationsAreStable (Locations), for specs of any length: Reconcile
\* (location.go:30) comes to the same of what it has written itself.
THEOREM LocationsStayTheSame ==
  ASSUME NEW spec \in Seq(Nat)
  PROVE  L!LocationsAreStable(spec)
<1> DEFINE r == L!Reconcile(spec)
           ls == IF spec = <<>> THEN L!InZone(Default) ELSE spec
           zone == IF spec = <<>> THEN Default ELSE ZoneOf[spec[1]]
           s == L!Sorted(ls)
<1> SUFFICES ASSUME ~r.err PROVE L!Reconcile(r.locations) = r
  BY DEF L!LocationsAreStable
<1>1. /\ r = L!Answer(s, zone) /\ ls # <<>>
      /\ \A i \in DOMAIN spec : spec[i] \in Known /\ ZoneOf[spec[i]] = ZoneOf[spec[1]]
  BY DEF L!Reconcile, L!Error, L!Answer
<1>2. /\ ls \in Seq(Nat)
      /\ \A i \in DOMAIN ls : ls[i] \in Known /\ ZoneOf[ls[i]] = zone
  BY <1>1, InZoneFacts
<1> HIDE DEF r, ls, zone
<1>3. /\ s \in Seq(Nat) /\ DOMAIN s = DOMAIN ls /\ L!Sorted(s) = s
      /\ \A i \in DOMAIN ls : \E j \in DOMAIN ls : s[i] = ls[j]
  BY <1>2, SortedFacts
<1> HIDE DEF s
<1>4. \A i \in DOMAIN s : s[i] \in Known /\ ZoneOf[s[i]] = zone
  <2> SUFFICES ASSUME NEW i \in DOMAIN s PROVE s[i] \in Known /\ ZoneOf[s[i]] = zone
    OBVIOUS
  <2>1. PICK j \in DOMAIN ls : s[i] = ls[j]
    BY <1>3
  <2>2. QED BY <1>2, <2>1
<1>5. s # <<>> /\ 1 \in DOMAIN s
  BY <1>1, <1>2, <1>3
<1>6. L!Reconcile(s) = L!Answer(L!Sorted(s), ZoneOf[s[1]])
  BY <1>4, <1>5 DEF L!Reconcile
<1>7. r.locations = s
  BY <1>1 DEF L!Answer
<1>8. QED BY <1>1, <1>3, <1>4, <1>5, <1>6, <1>7

\* The run's specs are no exception (LocationsAreStable of MCOperators).
THEOREM BoundedLocationsStay == Spec => []LocationsAreStable
<1>1. Init => LocationsAreStable
  <2> SUFFICES ASSUME Init, input.for = "location" PROVE L!LocationsAreStable(input.spec)
    BY DEF LocationsAreStable
  <2>1. input \in [for : {"location"}, spec : Specs]
    BY DEF Init
  <2>2. PICK n \in 0 .. 3 : input.spec \in [1 .. n -> 1 .. 5]
    BY <2>1 DEF Specs
  <2>3. input.spec \in Seq(Nat)
    <3>1. n \in Nat /\ input.spec \in [1 .. n -> Nat]
      BY <2>2
    <3>2. QED BY <3>1
  <2>4. QED BY <2>3, LocationsStayTheSame
<1>2. LocationsAreStable /\ [Next]_input => LocationsAreStable'
  BY DEF LocationsAreStable, Next
<1>3. QED BY <1>1, <1>2, PTL DEF Spec
=============================================================================
