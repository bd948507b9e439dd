---------------------------- MODULE AvatarStorage ----------------------------
(***************************************************************************)
(* Users upload images and make one their avatar, in AccountService's      *)
(* updateProfile: the file that is replaced is deleted from the storage,   *)
(* and then the row that names it is saved, with nothing around both.      *)
(***************************************************************************)
EXTENDS StorageKeys

CONSTANTS
  Files,    \* names for uploaded files
  Configs,  \* the deployments
  Requests  \* requests in progress at a time

VARIABLES
  config,
  uploaded, \* the keys that upload ever answered with
  files,    \* the keys that are in the storage
  avatar,   \* [Users -> users.avatar_key]
  req,      \* [Requests -> a request]
  serial,   \* whether requests never overlap
  \* History, as long as requests never overlap:
  chosen,   \* [Users -> what avatar has to be]
  torn,     \* users with a request that died after it deleted
  detoured  \* users whose avatar is or was one of Others, or whose file was
            \* behind one

vars == <<config, uploaded, files, avatar, req, serial, chosen, torn, detoured>>

Keys == {UploadKey(u, f) : u \in Users, f \in Files}
KeysOf(u) == {UploadKey(u, f) : f \in Files}
Others(u) ==
  {DetourKey(u, v, f) : v \in Users, f \in Files} \cup {FolderKey(u)}
AvatarKeys == Keys \cup {None} \cup UNION {Others(u) : u \in Users}
Idle == [pc |-> "idle"]

(* previous is the avatar of the entity that was read, next the one to be  *)
(* saved, sets whether the request has an avatar at all.                   *)
Request(pc, u, previous, next, sets) ==
  [pc |-> pc, user |-> u, previous |-> previous, next |-> next, sets |-> sets]

InProgress ==
  [pc: {"exists", "delete", "save"}, user: Users,
   previous: AvatarKeys, next: AvatarKeys, sets: BOOLEAN]

(* Segments that parsing leaves alone, and what is no key and no origin.   *)
ASSUME NamesAssumption ==
  /\ Odd \cap ({"media", "users", "uploads"} \cup Users) = {}
  /\ AmazonS3 # None
  /\ None \notin Keys /\ \A u \in Users : None \notin Others(u)

ASSUME DeploymentAssumption == \A c \in Configs : IsDeployment(c)

Own(u) == KeysOf(u) \cup Others(u) \cup {None}

(* Type invariant: every variable keeps its shape, and what a user has as  *)
(* an avatar, or a request is about to delete or to save, is a key that    *)
(* begins with the user's own directory, whatever text the client sent -   *)
(* which is not to say, with the local driver, that the file behind it is  *)
(* the user's own.                                                         *)
TypeOK ==
  /\ config \in Configs /\ serial \in BOOLEAN
  /\ files \subseteq uploaded /\ uploaded \subseteq Keys
  /\ {avatar, chosen} \subseteq [Users -> AvatarKeys]
  /\ torn \subseteq Users /\ detoured \subseteq Users
  /\ req \in [Requests -> {Idle} \cup InProgress]
  /\ \A r \in Requests : req[r] # Idle =>
       {req[r].previous, req[r].next} \subseteq Own(req[r].user)
  /\ \A u \in Users : {avatar[u], chosen[u]} \subseteq Own(u)

Init ==
  /\ config \in Configs /\ serial \in BOOLEAN
  /\ uploaded = {} /\ files = {}
  /\ avatar = [u \in Users |-> None] /\ chosen = avatar
  /\ req = [r \in Requests |-> Idle]
  /\ torn = {} /\ detoured = {}

Goto(r, pc) == req' = [req EXCEPT ![r].pc = pc]
End(r) == req' = [req EXCEPT ![r] = Idle]

(* MediaService.upload.  One that fails may leave a file too, that nobody  *)
(* has a reference to.                                                     *)
Upload(u, f) ==
  /\ \A k \in uploaded : Last(k) # f
  /\ serial => \A r \in Requests : req[r] = Idle
  /\ uploaded' = uploaded \cup {UploadKey(u, f)}
  /\ files' = files \cup {UploadKey(u, f)}
  /\ UNCHANGED <<config, avatar, req, serial, chosen, torn, detoured>>

-----------------------------------------------------------------------------
(* AccountService.updateProfile                                            *)

Begin(r, request) ==
  /\ req[r] = Idle
  /\ serial => \A x \in Requests : req[x] = Idle
  /\ req' = [req EXCEPT ![r] = request]
  /\ UNCHANGED <<config, uploaded, files, avatar, serial, torn, detoured>>

BeginWith(r, u, value) ==
  LET next == ResolveAvatarKey(config, u, value) IN
  Begin(r, IF next = None THEN Idle
           ELSE Request("exists", u, avatar[u], next, TRUE))

(* It sets the avatar to a reference that upload answered with, the user's *)
(* own or another's.                                                       *)
BeginSetAvatar(r, u) ==
  \E k \in uploaded : \E value \in References(config, k) :
    /\ BeginWith(r, u, value)
    /\ chosen' =
         IF serial /\ k \in files \cap KeysOf(u) /\ Reusable(config, k, value)
         THEN [chosen EXCEPT ![u] = k] ELSE chosen

(* Or to another text: any is taken.  (A ".." in an absolute URL is gone   *)
(* once the URL is parsed.)                                                *)
BeginSetOther(r, u) ==
  /\ \E k \in Others(u) : BeginWith(r, u, Text(None, 0, k))
  /\ UNCHANGED chosen

(* It sets the avatar to the empty string.                                 *)
BeginClearAvatar(r, u) ==
  /\ Begin(r, Request("delete", u, avatar[u], None, TRUE))
  /\ chosen' = IF serial THEN [chosen EXCEPT ![u] = None] ELSE chosen

(* It has no avatar; and so do the other handlers that read a user and     *)
(* save the entity: login, verification, reset, administration.            *)
BeginOther(r, u) ==
  /\ Begin(r, Request("save", u, avatar[u], avatar[u], FALSE))
  /\ UNCHANGED chosen

(* On a disk a directory exists too, and stays when its files are gone.    *)
IsDirectory(key) ==
  /\ config.driver = "local"
  /\ \E u \in Users : key = FolderKey(u) /\ uploaded \cap KeysOf(u) # {}

Exists(r) ==
  /\ req[r].pc = "exists"
  /\ LET next == req[r].next
         path == ResolvePath(config, next) IN
     IF path \in files \/ IsDirectory(next)
     THEN /\ Goto(r, "delete")
          /\ detoured' = detoured \cup
               {u \in Users : /\ serial /\ next \notin Keys
                              /\ u = req[r].user \/ path \in KeysOf(u)}
     ELSE End(r) /\ UNCHANGED detoured
  /\ UNCHANGED <<config, uploaded, files, avatar, serial, chosen, torn>>

Deleted(key) == IF key = None THEN {} ELSE {ResolvePath(config, key)}

(* Mutant: the file is deleted also if it is the next avatar.              *)
DeletePrevious_Always(r) ==
  /\ req[r].pc = "delete"
  /\ files' = files \ Deleted(req[r].previous)
  /\ Goto(r, "save")
  /\ UNCHANGED <<config, uploaded, avatar, serial, chosen, torn, detoured>>

(* unlink of a directory throws: that is left to Abort.                    *)
DeletePrevious(r) ==
  /\ req[r].pc = "delete"
  /\ LET previous == req[r].previous IN
     \/ previous = req[r].next /\ UNCHANGED files
     \/ /\ previous # req[r].next /\ ~ IsDirectory(previous)
        /\ files' = files \ Deleted(previous)
  /\ Goto(r, "save")
  /\ UNCHANGED <<config, uploaded, avatar, serial, chosen, torn, detoured>>

(* userRepository.save of the entity, avatar_key and all.                  *)
Save(r) ==
  /\ req[r].pc = "save"
  /\ LET u == req[r].user IN
       /\ avatar' = [avatar EXCEPT ![u] = req[r].next]
       /\ torn' = IF req[r].sets THEN torn \ {u} ELSE torn
  /\ End(r)
  /\ UNCHANGED <<config, uploaded, files, serial, chosen, detoured>>

(* The storage or the database fails, or the process dies.                 *)
Abort(r) ==
  /\ req[r] # Idle
  /\ LET u == req[r].user IN
       /\ chosen' = IF serial THEN [chosen EXCEPT ![u] = avatar[u]] ELSE chosen
       /\ torn' = IF /\ serial /\ req[r].pc = "save"
                     /\ avatar[u] \notin files \cup {None}
                  THEN torn \cup {u} ELSE torn
  /\ End(r)
  /\ UNCHANGED <<config, uploaded, files, avatar, serial, detoured>>

Next ==
  \/ \E u \in Users, f \in Files : Upload(u, f)
  \/ \E r \in Requests :
       \/ \E u \in Users :
            \/ BeginSetAvatar(r, u) \/ BeginSetOther(r, u)
            \/ BeginClearAvatar(r, u) \/ BeginOther(r, u)
       \/ Exists(r) \/ DeletePrevious(r) \/ Save(r) \/ Abort(r)

Spec == Init /\ [][Next]_vars

-----------------------------------------------------------------------------
(* As long as requests do not overlap, a reference that upload answered    *)
(* with makes the user's own file the avatar if, and only if, it is        *)
(* Reusable; and the avatar of a user is a file that exists.  Except that  *)
(* updateProfile deletes before it saves, and a request that died in       *)
(* between leaves a row that names a deleted file, until an avatar is set  *)
(* again; and except, with the local driver, for users who made an avatar  *)
(* of a directory or of a key with "..", and those to whose file it leads, *)
(* because that file is deleted when another avatar takes its place.       *)
AvatarsAreAsChosen ==
  serial =>
    \A u \in Users \ (torn \cup detoured) :
      (\A r \in Requests : req[r] = Idle) =>
        avatar[u] = chosen[u] /\ avatar[u] \in files \cup {None}

(* media.controller.ts says of upload's answer: "receive a storage key and *)
(* URL that can be reused in other APIs"; the only one that takes them is  *)
(* updateProfile, and looks for the key at the start of the path, where    *)
(* S3StorageDriver puts a bucket, a prefix, or the path of publicBaseUrl.  *)
UploadsAreReusable ==
  \A u \in Users : \A k \in uploaded \cap KeysOf(u) :
    \A value \in References(config, k) : ResolveAvatarKey(config, u, value) = k
=============================================================================
