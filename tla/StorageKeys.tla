----------------------------- MODULE StorageKeys -----------------------------
(***************************************************************************)
(* Keys of stored files, the URLs that the two storage drivers give them,  *)
(* and how AccountService gets from what a client sends back to a key.     *)
(*                                                                         *)
(* A text is an origin (None: it is no absolute URL), leading slashes, and *)
(* the segments between slashes.  Names in Odd (an extension with a space, *)
(* say) change when a URL is parsed: the text is then escaped.             *)
(***************************************************************************)
EXTENDS Naturals, Sequences, SequencesExt

CONSTANTS
  Users, None,
  Odd,     \* names of files
  Names,   \* the segments that prefixes and base URLs are made of
  Bucket, AmazonS3 \* the bucket, and the origin it has on its own

Text(origin, slashes, path) ==
  [origin |-> origin, slashes |-> slashes, path |-> path, escaped |-> FALSE]

IsText(t) ==
  /\ t = Text(t.origin, t.slashes, t.path)
  /\ t.slashes \in Nat /\ t.path \in Seq(Names)

-----------------------------------------------------------------------------
(* storage.config.ts: driver, local.baseUrl (a text), and of s3 the prefix *)
(* (segments), endpoint and publicBaseUrl (None, or a text).               *)
(* Trailing slashes are dropped where they are used, so "/" is no segments *)
(* and one slash; the values below have no others.                         *)

Local(baseUrl) == [driver |-> "local", baseUrl |-> baseUrl]

S3(prefix, endpoint, publicBaseUrl) ==
  [driver |-> "s3", prefix |-> prefix, endpoint |-> endpoint,
   publicBaseUrl |-> publicBaseUrl,
   baseUrl |-> Text(None, 1, <<"storage", "local">>)]

(* base + "/" + path                                                       *)
Join(base, path) ==
  [base EXCEPT !.slashes = IF base.path = <<>> THEN @ + 1 ELSE @,
               !.path = @ \o path]

(* LocalStorageDriver                                                      *)

NormalizeBaseUrl(baseUrl) ==
  IF baseUrl.slashes > 0 /\ baseUrl.path # <<>> THEN baseUrl
  ELSE [baseUrl EXCEPT !.slashes = 1]

LocalUrl(config, key) == Join(NormalizeBaseUrl(config.baseUrl), key)

(* S3StorageDriver                                                         *)

ResolveObjectKey(config, key) == config.prefix \o key

S3Url(config, key) ==
  LET objectKey == ResolveObjectKey(config, key) IN
  IF config.publicBaseUrl # None THEN Join(config.publicBaseUrl, objectKey)
  ELSE IF config.endpoint # None
       THEN Join(config.endpoint, <<Bucket>> \o objectKey)
  ELSE Text(AmazonS3, 1, objectKey)

(* StorageService.url, of the driver that the module provides.             *)
Url(config, key) ==
  IF config.driver = "local" THEN LocalUrl(config, key) ELSE S3Url(config, key)

(* What the path of the URL has before the key.                            *)
Before(config) ==
  IF config.driver = "local" THEN config.baseUrl.path
  ELSE IF config.publicBaseUrl # None
       THEN config.publicBaseUrl.path \o config.prefix
  ELSE IF config.endpoint # None
       THEN config.endpoint.path \o <<Bucket>> \o config.prefix
  ELSE config.prefix

(* A deployment as the code expects it: a path as the local base URL, and  *)
(* absolute URLs of S3.  Nothing before a key looks like one (or, with S3, *)
(* like the local base URL).                                               *)
IsLocal(config) ==
  /\ config = Local(config.baseUrl)
  /\ IsText(config.baseUrl) /\ config.baseUrl.origin = None
  /\ config.baseUrl.slashes = 0 => ~ IsPrefix(<<"media">>, config.baseUrl.path)

IsS3(config) ==
  /\ config = S3(config.prefix, config.endpoint, config.publicBaseUrl)
  /\ config.prefix \in Seq(Names)
  /\ \A t \in {config.endpoint, config.publicBaseUrl} \ {None} :
       IsText(t) /\ t.origin # None
  /\ ~ IsPrefix(<<"storage", "local">>, Before(config))

IsDeployment(config) ==
  /\ IF config.driver = "local" THEN IsLocal(config) ELSE IsS3(config)
  /\ ~ IsPrefix(<<"media", "users">>, Before(config))

-----------------------------------------------------------------------------
(* MediaService.upload: no two files have a name in common.                *)
UploadKey(u, file) == <<"media", "users", u, "uploads", file>>

(* Other keys that begin with the directory of user u: to the file of a    *)
(* user v the long way round, and the directory of u's uploads.            *)
DetourKey(u, v, file) == <<"media", "users", u, "..", v, "uploads", file>>
FolderKey(u) == <<"media", "users", u, "uploads">>

(* Where a driver looks for a key: resolve() of LocalStorageDriver takes   *)
(* away a ".." and the name before it, S3 knows objects by their names.    *)
ResolvePath(config, key) ==
  IF config.driver = "local" /\ Len(key) > 4 /\ key[4] = ".."
  THEN SubSeq(key, 1, 2) \o SubSeq(key, 5, Len(key)) ELSE key

(* StorageFile, as upload answers it: a key and a URL.                     *)
References(config, key) == {Text(None, 0, key), Url(config, key)}

(* AccountService                                                          *)

ExtractPathname(value) ==
  IF value.origin = None THEN value
  ELSE [value EXCEPT
          !.origin = None,
          !.escaped = \E i \in DOMAIN value.path : value.path[i] \in Odd]

(* Without the trailing slashes, "/" is empty.                             *)
LocalBaseUrl(config) ==
  IF config.baseUrl.path = <<>> THEN [config.baseUrl EXCEPT !.slashes = 0]
  ELSE config.baseUrl

StartsWith(text, base) ==
  IF base.path = <<>> THEN text.slashes > 0
  ELSE text.slashes = base.slashes /\ IsStrictPrefix(base.path, text.path)

(* What follows base + "/" in a text that starts with it.                  *)
Slice(text, base) ==
  IF base.path = <<>> THEN [text EXCEPT !.slashes = @ - 1]
  ELSE [text EXCEPT !.slashes = 0,
                    !.path = SubSeq(@, Len(base.path) + 1, Len(@))]

NormalizeStorageKey(config, value) ==
  LET candidate == ExtractPathname(value)
      base == LocalBaseUrl(config) IN
  IF StartsWith(candidate, base) THEN Slice(candidate, base)
  ELSE [candidate EXCEPT !.slashes = 0]

(* Mutant: any uploaded file will do.                                      *)
ResolveAvatarKey_AnyOwner(config, u, value) ==
  LET resolved == NormalizeStorageKey(config, value) IN
  IF resolved.slashes = 0 /\ ~ resolved.escaped
       /\ IsStrictPrefix(<<"media", "users">>, resolved.path)
  THEN resolved.path ELSE None

(* Of user u: None if the reference is refused.  No key is escaped, so an  *)
(* escaped one is the key of no file.                                      *)
ResolveAvatarKey(config, u, value) ==
  LET resolved == NormalizeStorageKey(config, value) IN
  IF resolved.slashes = 0 /\ ~ resolved.escaped
       /\ IsStrictPrefix(<<"media", "users", u>>, resolved.path)
  THEN resolved.path ELSE None

(* Whether updateProfile finds key in a reference to it: in the key, but   *)
(* in its URL only if that has nothing before the key, or the local base   *)
(* URL, and no name changes in it.                                         *)
Reusable(config, key, value) ==
  \/ value = Text(None, 0, key)
  \/ /\ config.driver = "local"
     /\ config.baseUrl.slashes > 0 /\ config.baseUrl.path # <<>>
  \/ /\ config.driver = "s3" /\ config.prefix = <<>> /\ Last(key) \notin Odd
     /\ IF config.publicBaseUrl # None THEN config.publicBaseUrl.path = <<>>
        ELSE config.endpoint = None
=============================================================================
