------------------------------- MODULE UserData -------------------------------
(***************************************************************************)
(* The user data of a server: a cloud-init document that Cluster API       *)
(* renders and pkg/userdata/userdata.go changes on its way to Hetzner.     *)
(* createServer (server.go) and the bare metal service (baremetal.go) read *)
(* the kubeadm configuration out of it, add settings, and put it back.     *)
(***************************************************************************)
EXTENDS Integers, Sequences

\* A document has a list of files, unless it has no write_files.  Each file has
\* a path; other keys may be missing.
NoDocument == [there |-> FALSE, files |-> <<>>]
Document(files) == [there |-> TRUE, files |-> files]
InitPath == "kubeadm.yaml"
JoinPath == "kubeadm-join-config.yaml"

\* What a file contains: nothing, other text, or kubeadm objects, each with the
\* settings it has.
Nil == [there |-> FALSE, args |-> <<>>]
Object(args) == [there |-> TRUE, args |-> args]
NoObjects == [cluster |-> Nil, init |-> Nil, join |-> Nil]
Content(kind, objects) == [kind |-> kind, of |-> objects]
MissingContent == Content("missing", NoObjects)
Text == Content("text", NoObjects)
Rendered(objects) ==
  IF objects = NoObjects THEN Content("empty", NoObjects) ELSE Content("objects", objects)

File(path, content, owner) == [path |-> path, content |-> content, owner |-> owner]

\* A result, and whether an error came with it.
Ok(x) == [err |-> FALSE, of |-> x]
Failed(x) == [err |-> TRUE, of |-> x]

-----------------------------------------------------------------------------
(* userdata.go.                                                            *)

\* getFile: the first file with the path; 0 if there is none.
GetFile(doc, path) ==
  LET S == {n \in DOMAIN doc.files : doc.files[n].path = path}
  IN IF S = {} THEN 0 ELSE CHOOSE n \in S : \A m \in S : n <= m

\* GetKubeadmConfig: the init file, else the join file; with neither, an empty
\* configuration that counts as init.  Text that is not kubeadm's is an error.
GetKubeadmConfig(doc) ==
  LET i == GetFile(doc, InitPath)
      n == IF i # 0 THEN i ELSE GetFile(doc, JoinPath)
      content == IF n = 0 THEN MissingContent ELSE doc.files[n].content
      k == [isInit |-> i # 0 \/ n = 0, of |-> content.of]
  IN IF ~doc.there \/ content.kind = "text" THEN Failed(k) ELSE Ok(k)

\* Mutant: a file that is there is replaced as a whole.
SetOrReplaceFile(doc, file) ==
  LET n == GetFile(doc, file.path) IN
    IF ~doc.there THEN Failed(doc)
    ELSE IF n = 0 THEN Ok([doc EXCEPT !.files = Append(@, file)])
    ELSE Ok([doc EXCEPT !.files[n] = file])

\* SetOrUpdateFile: a file that is not there is appended; of one that is, the
\* keys that are given are updated, and one that it lacks is an error.
SetOrUpdateFile(doc, file) ==
  LET n == GetFile(doc, file.path)
      old == doc.files[n]
      content == file.content.kind \notin {"missing", "empty"}
      owner == file.owner # "missing"
      lacks == \/ content /\ old.content.kind = "missing"
               \/ owner /\ old.owner = "missing"
      new == File(old.path,
                  IF content /\ old.content.kind # "missing" THEN file.content ELSE old.content,
                  IF owner /\ old.owner # "missing" THEN file.owner ELSE old.owner)
  IN IF ~doc.there THEN Failed(doc)
     ELSE IF n = 0 THEN Ok([doc EXCEPT !.files = Append(@, file)])
     ELSE IF lacks THEN Failed([doc EXCEPT !.files[n] = new])
     ELSE Ok([doc EXCEPT !.files[n] = new])

\* Mutant: the configuration always goes into the init file.
SetInitConfig(doc, k) == SetOrUpdateFile(doc, File(InitPath, Rendered(k.of), "missing"))

SetKubeadmConfig(doc, k) ==
  SetOrUpdateFile(doc,
    File(IF k.isInit THEN InitPath ELSE JoinPath, Rendered(k.of), "missing"))

-----------------------------------------------------------------------------
(* Its callers.                                                            *)

\* What one map has, and of the other what the one does not have.
Over(args, rest) ==
  [key \in DOMAIN args \cup DOMAIN rest |->
     IF key \in DOMAIN args THEN args[key] ELSE rest[key]]

\* Mutant: settings of the user are overwritten.
WithDefaultsForced(object, defaults) ==
  IF object.there THEN Object(Over(defaults, object.args)) ELSE object

\* "set cloud provider external if nothing is set" (server.go:218): what the
\* user has set wins.
WithDefaults(object, defaults) ==
  IF object.there THEN Object(Over(object.args, defaults)) ELSE object

\* createServer: a control plane that runs init gets the settings of the API
\* server and the controller manager.
ConfigureServer(doc, controlPlane, defaults) ==
  LET r == GetKubeadmConfig(doc)
      k == IF controlPlane /\ r.of.isInit
           THEN [r.of EXCEPT !.of.cluster = WithDefaults(@, defaults)] ELSE r.of
  IN IF r.err THEN Failed(doc) ELSE SetKubeadmConfig(doc, k)

\* The bare metal service: a node that joins gets the settings of its kubelet.
ConfigureBareMetal(doc, defaults) ==
  LET r == GetKubeadmConfig(doc)
  IN IF r.err THEN Failed(doc)
     ELSE SetKubeadmConfig(doc, [r.of EXCEPT !.of.join = WithDefaults(@, defaults)])

-----------------------------------------------------------------------------
(* Properties, of a document and the settings to be added.                 *)

\* Cluster API's settings are as it wrote them, and those it left open are added.
Completed(old, new, defaults) ==
  /\ new.there = old.there
  /\ old.there =>
       /\ DOMAIN new.args = DOMAIN old.args \cup DOMAIN defaults
       /\ \A key \in DOMAIN new.args :
            new.args[key] = IF key \in DOMAIN old.args THEN old.args[key] ELSE defaults[key]

\* What kubeadm will read on the server, found the way cloud-init's document was
\* read, is what Cluster API rendered and the settings of createServer or the
\* bare metal service: nothing is lost on the way through the document.
ConfigArrives(doc, controlPlane, defaults) ==
  LET before == GetKubeadmConfig(doc).of
      server == ConfigureServer(doc, controlPlane, defaults)
      metal == ConfigureBareMetal(doc, defaults)
      none == <<>>
  IN /\ ~server.err =>
          LET after == GetKubeadmConfig(server.of).of IN
            /\ after.isInit = before.isInit
            /\ Completed(before.of.cluster, after.of.cluster,
                         IF controlPlane /\ before.isInit THEN defaults ELSE none)
            /\ after.of.join = before.of.join
     /\ ~metal.err =>
          LET after == GetKubeadmConfig(metal.of).of IN
            /\ after.isInit = before.isInit
            /\ Completed(before.of.join, after.of.join, defaults)
            /\ after.of.cluster = before.of.cluster

\* Nothing else changes: certificates and keys stay where they are, the
\* configuration keeps its owner, and a file is added only where there was none.
RestIsKept(doc, controlPlane, defaults) ==
  LET new == ConfigureServer(doc, controlPlane, defaults).of
      Config == {InitPath, JoinPath}
  IN /\ \A n \in DOMAIN doc.files :
          /\ new.files[n].path = doc.files[n].path /\ new.files[n].owner = doc.files[n].owner
          /\ doc.files[n].path \notin Config => new.files[n] = doc.files[n]
     /\ Len(new.files) > Len(doc.files) =>
          \A n \in DOMAIN doc.files : doc.files[n].path \notin Config
=============================================================================
