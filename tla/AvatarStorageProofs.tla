------------------------ MODULE AvatarStorageProofs ------------------------
(***************************************************************************)
(* Proofs about AvatarStorage, for any users, files, requests and          *)
(* deployments as IsDeployment describes them; the last theorem is about   *)
(* behaviours whose requests do not overlap.                               *)
(***************************************************************************)
EXTENDS AvatarStorage, SequenceTheorems, TLAPS

-----------------------------------------------------------------------------
(* Keys and references to them.                                            *)

Segments ==
  {"media", "users", "uploads", "..", "storage", "local", Bucket}
    \cup Users \cup Files \cup Names

LEMMA KeyShape ==
  ASSUME NEW k \in Keys
  PROVE  /\ k \in Seq(Segments) /\ Len(k) = 5 /\ k # None
         /\ k[1] = "media" /\ k[2] = "users" /\ k[4] = "uploads"
         /\ k[3] \in Users /\ k[5] \in Files
         /\ \A u \in Users : k \in KeysOf(u) <=> k[3] = u
<1>1. PICK v \in Users, f \in Files : k = <<"media", "users", v, "uploads", f>>
  BY DEF Keys, UploadKey
<1>2. k \in Seq(Segments)
  BY <1>1 DEF Segments
<1>3. k # None
  BY NamesAssumption
<1>4. ASSUME NEW u \in Users PROVE k \in KeysOf(u) <=> k[3] = u
  BY <1>1 DEF KeysOf, UploadKey
<1> QED
  BY <1>1, <1>2, <1>3, <1>4

LEMMA OtherShape ==
  ASSUME NEW u \in Users, NEW k \in Others(u)
  PROVE  /\ k \in Seq(Segments) /\ Len(k) \in Nat \ {0, 5} /\ k[1] = "media"
         /\ k # None /\ k \notin Keys
<1>1. /\ k \in Seq(Segments) /\ k[1] = "media" /\ Len(k) \in Nat \ {0, 5}
  <2>1. CASE k = FolderKey(u)
    BY <2>1 DEF FolderKey, Segments
  <2>2. ASSUME NEW v \in Users, NEW f \in Files, k = DetourKey(u, v, f)
        PROVE  /\ k \in Seq(Segments) /\ k[1] = "media"
               /\ Len(k) \in Nat \ {0, 5}
    BY <2>2 DEF DetourKey, Segments
  <2> QED
    BY <2>1, <2>2 DEF Others
<1>2. k \notin Keys
  BY <1>1, KeyShape
<1> QED
  BY <1>1, <1>2, NamesAssumption

(* Nobody owns the file of another user.                                   *)
LEMMA KeysApart ==
  ASSUME NEW u \in Users, NEW v \in Users, NEW k \in KeysOf(u), k \in KeysOf(v)
  PROVE  u = v
<1>1. k \in Keys
  BY DEF Keys, KeysOf
<1> QED
  BY <1>1, KeyShape

LEMMA PrefixElements ==
  ASSUME NEW s \in Seq(Segments), NEW t \in Seq(Segments)
  PROVE  IsPrefix(s, t) <=>
           Len(s) <= Len(t) /\ \A i \in 1 .. Len(s) : s[i] = t[i]
<1>1. ASSUME Len(s) <= Len(t), SubSeq(s, 1, Len(s)) = SubSeq(t, 1, Len(s)),
             NEW i \in 1 .. Len(s)
      PROVE  s[i] = t[i]
  BY <1>1
<1>2. ASSUME Len(s) <= Len(t), \A i \in 1 .. Len(s) : s[i] = t[i]
      PROVE  SubSeq(s, 1, Len(s)) = SubSeq(t, 1, Len(s))
  BY <1>2
<1> QED
  BY <1>1, <1>2 DEF IsPrefix

LEMMA ConcatElements ==
  ASSUME NEW s \in Seq(Segments), NEW t \in Seq(Segments)
  PROVE  /\ s \o t \in Seq(Segments)
         /\ Len(s) \in Nat /\ Len(t) \in Nat /\ Len(s \o t) = Len(s) + Len(t)
         /\ \A i \in 1 .. Len(s) + Len(t) :
              (s \o t)[i] = IF i <= Len(s) THEN s[i] ELSE t[i - Len(s)]
BY ConcatProperties, LenProperties

LEMMA ConcatOfSegments ==
  ASSUME NEW s \in Seq(Segments), NEW t \in Seq(Segments)
  PROVE  /\ s \o t = <<>> <=> s = <<>> /\ t = <<>>
         /\ \A u \in Seq(Segments) : s \o (t \o u) = (s \o t) \o u
<1>1. s \o t = <<>> <=> s = <<>> /\ t = <<>>
  BY ConcatEqualIffEmpty
<1>2. ASSUME NEW u \in Seq(Segments) PROVE s \o (t \o u) = (s \o t) \o u
  BY ConcatAssociative
<1> QED
  BY <1>1, <1>2, Zenon

LEMMA ConcatOfThree ==
  \A s, t, u \in Seq(Segments) : s \o (t \o u) = (s \o t) \o u
BY ConcatOfSegments

LEMMA PartsOfConcat ==
  ASSUME NEW s \in Seq(Segments), NEW t \in Seq(Segments)
  PROVE  /\ SubSeq(s \o t, 1, Len(s)) = s
         /\ SubSeq(s \o t, Len(s) + 1, Len(s \o t)) = t
OBVIOUS

LEMMA OwnPrefix ==
  ASSUME NEW u \in Users, NEW k \in Keys
  PROVE  IsStrictPrefix(<<"media", "users", u>>, k) <=> k \in KeysOf(u)
<1> DEFINE p == <<"media", "users", u>>
<1>1. /\ p \in Seq(Segments) /\ Len(p) = 3
      /\ p[1] = "media" /\ p[2] = "users" /\ p[3] = u
  BY DEF Segments
<1>2. p # k
  BY <1>1, KeyShape
<1> HIDE DEF p
<1>3. /\ k \in Seq(Segments) /\ Len(k) = 5 /\ k[1] = "media" /\ k[2] = "users"
      /\ k \in KeysOf(u) <=> k[3] = u
  BY KeyShape
<1>4. IsPrefix(p, k) <=> Len(p) <= Len(k) /\ \A i \in 1 .. Len(p) : p[i] = k[i]
  BY <1>1, <1>3, PrefixElements, Zenon
<1>5. (Len(p) <= Len(k) /\ \A i \in 1 .. Len(p) : p[i] = k[i]) <=> k[3] = u
  BY <1>1, <1>3
<1>6. IsStrictPrefix(p, k) <=> k[3] = u
  BY <1>2, <1>4, <1>5 DEF IsStrictPrefix
<1> QED
  BY <1>3, <1>6 DEF p

LEMMA PrefixOfTwo ==
  ASSUME NEW a \in Segments, NEW b \in Segments, NEW t \in Seq(Segments)
  PROVE  IsPrefix(<<a, b>>, t) <=> Len(t) >= 2 /\ t[1] = a /\ t[2] = b
<1> DEFINE s == <<a, b>>
<1>1. s \in Seq(Segments) /\ Len(s) = 2 /\ s[1] = a /\ s[2] = b
  OBVIOUS
<1> HIDE DEF s
<1>2. IsPrefix(s, t) <=> Len(s) <= Len(t) /\ \A i \in 1 .. Len(s) : s[i] = t[i]
  BY <1>1, PrefixElements, Zenon
<1>3. (\A i \in 1 .. Len(s) : s[i] = t[i]) <=> t[1] = a /\ t[2] = b
  BY <1>1
<1> QED
  BY <1>1, <1>2, <1>3, LenProperties DEF s

(* What two names that do not start what is before a key do not start.     *)
LEMMA PairNotAtStart ==
  ASSUME NEW a \in Segments, NEW b \in Segments, b # "media", NEW k \in Keys,
         NEW p \in Seq(Segments), ~ IsPrefix(<<a, b>>, p),
         p # <<>> \/ a # "media"
  PROVE  ~ IsPrefix(<<a, b>>, p \o k)
<1> DEFINE t == p \o k
<1>1. k \in Seq(Segments) /\ Len(k) = 5 /\ k[1] = "media"
  BY KeyShape
<1>2. /\ t \in Seq(Segments) /\ Len(p) \in Nat /\ Len(t) = Len(p) + Len(k)
      /\ \A i \in 1 .. Len(p) + Len(k) :
           t[i] = IF i <= Len(p) THEN p[i] ELSE k[i - Len(p)]
  BY <1>1, ConcatElements
<1> HIDE DEF t
<1>3. ASSUME Len(p) = 0 PROVE t[1] # a
  <2>1. p = <<>> /\ t[1] = "media"
    BY <1>1, <1>2, <1>3, EmptySeq
  <2> QED
    BY <2>1
<1>4. ASSUME Len(p) = 1 PROVE t[2] # b
  BY <1>1, <1>2, <1>4
<1>5. ASSUME Len(p) >= 2, t[1] = a, t[2] = b PROVE FALSE
  <2>1. p[1] = a /\ p[2] = b
    BY <1>1, <1>2, <1>5
  <2> QED
    BY <1>5, <2>1, PrefixOfTwo
<1>6. Len(p) = 0 \/ Len(p) = 1 \/ Len(p) >= 2
  <2>1. \A n \in Nat : n = 0 \/ n = 1 \/ n >= 2
    OBVIOUS
  <2> QED
    BY <1>2, <2>1, Zenon
<1>7. ~ (t[1] = a /\ t[2] = b)
  BY <1>3, <1>4, <1>5, <1>6, Zenon
<1>8. ~ IsPrefix(<<a, b>>, t)
  BY <1>2, <1>7, PrefixOfTwo, Zenon
<1> QED
  BY <1>8 DEF t

(* A key that something stands before is not found in a text.              *)
LEMMA NotAtStart ==
  ASSUME NEW u \in Users, NEW k \in Keys, NEW p \in Seq(Segments), p # <<>>,
         ~ IsPrefix(<<"media", "users">>, p)
  PROVE  ~ IsStrictPrefix(<<"media", "users", u>>, p \o k)
<1> DEFINE own == <<"media", "users", u>>
           t == p \o k
<1>1. /\ own \in Seq(Segments) /\ Len(own) = 3
      /\ own[1] = "media" /\ own[2] = "users"
  BY DEF Segments
<1>2. t \in Seq(Segments) /\ Len(t) \in Nat
  BY KeyShape, ConcatElements, LenProperties
<1>3. "media" \in Segments /\ "users" \in Segments
  BY DEF Segments
<1>4. ~ IsPrefix(<<"media", "users">>, t)
  BY <1>3, PairNotAtStart
<1> HIDE DEF own, t
<1> SUFFICES ASSUME IsPrefix(own, t) PROVE FALSE
  BY DEF IsStrictPrefix, own, t
<1>5. Len(own) <= Len(t) /\ \A i \in 1 .. Len(own) : own[i] = t[i]
  BY <1>1, <1>2, PrefixElements, Zenon
<1>6. Len(t) >= 2 /\ t[1] = "media" /\ t[2] = "users"
  BY <1>1, <1>2, <1>5
<1> QED
  BY <1>2, <1>3, <1>4, <1>6, PrefixOfTwo

-----------------------------------------------------------------------------
(* Texts by their fields.                                                  *)

HasFields(t) == DOMAIN t = {"origin", "slashes", "path", "escaped"}

LEMMA TextFields ==
  ASSUME NEW origin, NEW slashes, NEW path
  PROVE  LET t == Text(origin, slashes, path) IN
         /\ HasFields(t) /\ ~ t.escaped
         /\ t.origin = origin /\ t.slashes = slashes /\ t.path = path
BY DEF Text, HasFields

LEMMA JoinFields ==
  ASSUME NEW t, HasFields(t), NEW path
  PROVE  LET j == Join(t, path) IN
         /\ HasFields(j) /\ (j.escaped <=> t.escaped)
         /\ j.origin = t.origin /\ j.path = t.path \o path
         /\ j.slashes = IF t.path = <<>> THEN t.slashes + 1 ELSE t.slashes
BY DEF HasFields, Join

LEMMA PathnameFields ==
  ASSUME NEW t, HasFields(t), t.origin # None
  PROVE  LET p == ExtractPathname(t) IN
         /\ HasFields(p) /\ p.slashes = t.slashes /\ p.path = t.path
         /\ p.escaped <=> \E i \in DOMAIN t.path : t.path[i] \in Odd
BY DEF HasFields, ExtractPathname

(* The three ways of normalizeStorageKey, by what the local base URL is.   *)
LEMMA WithoutBase ==
  ASSUME NEW c, NEW t, HasFields(ExtractPathname(t)),
         ~ StartsWith(ExtractPathname(t), LocalBaseUrl(c))
  PROVE  LET n == NormalizeStorageKey(c, t)
             p == ExtractPathname(t) IN
         n.slashes = 0 /\ n.path = p.path /\ (n.escaped <=> p.escaped)
BY DEF HasFields, NormalizeStorageKey

LEMMA WithBase ==
  ASSUME NEW c, NEW t, HasFields(ExtractPathname(t)),
         StartsWith(ExtractPathname(t), LocalBaseUrl(c)),
         LocalBaseUrl(c).path # <<>>
  PROVE  LET n == NormalizeStorageKey(c, t)
             p == ExtractPathname(t) IN
         /\ n.slashes = 0 /\ (n.escaped <=> p.escaped)
         /\ n.path = SubSeq(p.path, Len(LocalBaseUrl(c).path) + 1, Len(p.path))
BY DEF HasFields, NormalizeStorageKey, Slice

LEMMA WithRoot ==
  ASSUME NEW c, NEW t, HasFields(ExtractPathname(t)),
         StartsWith(ExtractPathname(t), LocalBaseUrl(c)),
         LocalBaseUrl(c).path = <<>>
  PROVE  NormalizeStorageKey(c, t).slashes = ExtractPathname(t).slashes - 1
BY DEF HasFields, NormalizeStorageKey, Slice

LEMMA LocalBase ==
  ASSUME NEW c
  PROVE  /\ LocalBaseUrl(c).path = c.baseUrl.path
         /\ c.baseUrl.path # <<>> => LocalBaseUrl(c) = c.baseUrl
BY DEF LocalBaseUrl

(* The key itself: no base URL can be taken for the start of it.           *)
LEMMA KeyResolves ==
  ASSUME NEW c \in Configs, NEW k \in Seq(Segments), Len(k) \in Nat \ {0},
         k[1] = "media"
  PROVE  LET n == NormalizeStorageKey(c, Text(None, 0, k)) IN
         n.slashes = 0 /\ n.path = k /\ ~ n.escaped
<1> DEFINE value == Text(None, 0, k)
           base == LocalBaseUrl(c)
<1>1. /\ HasFields(value) /\ ~ value.escaped
      /\ value.origin = None /\ value.slashes = 0 /\ value.path = k
  BY TextFields
<1>2. base.path = c.baseUrl.path /\ (base.path # <<>> => base = c.baseUrl)
  BY LocalBase
<1>3. ASSUME base.path # <<>>, base.slashes = 0
      PROVE  ~ IsStrictPrefix(base.path, k)
  <2>1. base = c.baseUrl
    BY <1>2, <1>3
  <2>2. c.driver = "local" /\ IsLocal(c)
    <3>1. c.driver # "local" => c.baseUrl.slashes = 1
      BY DeploymentAssumption DEF IsDeployment, IsS3, S3, Text
    <3> QED
      BY <1>3, <2>1, <3>1, DeploymentAssumption DEF IsDeployment
  <2>3. base.path \in Seq(Names) /\ ~ IsPrefix(<<"media">>, base.path)
    BY <1>3, <2>1, <2>2 DEF IsLocal, IsText
  <2>4. base.path \in Seq(Segments) /\ <<"media">> \in Seq(Segments)
    BY <2>3, SeqMonotonic DEF Segments
  <2>5. Len(base.path) \in Nat \ {0} /\ base.path[1] # "media"
    <3> DEFINE media == <<"media">>
    <3>1. Len(base.path) \in Nat \ {0}
      BY <1>3, <2>4, EmptySeq
    <3>2. Len(media) = 1 /\ media[1] = "media" /\ media \in Seq(Segments)
      BY <2>4
    <3>3. ~ IsPrefix(media, base.path)
      BY <2>3
    <3> HIDE DEF media
    <3>4. ~ \A i \in 1 .. 1 : media[i] = base.path[i]
      BY <2>4, <3>1, <3>2, <3>3, PrefixElements
    <3> QED
      BY <3>1, <3>2, <3>4
  <2> QED
    BY <2>4, <2>5, PrefixElements DEF IsStrictPrefix
<1>4. ~ StartsWith(value, base)
  BY <1>1, <1>3 DEF StartsWith
<1>5. ExtractPathname(value) = value
  BY <1>1 DEF ExtractPathname
<1> HIDE DEF value, base
<1>6. LET n == NormalizeStorageKey(c, value) IN
      n.slashes = 0 /\ n.path = k /\ ~ n.escaped
  BY <1>1, <1>4, <1>5, WithoutBase DEF base
<1> QED
  BY <1>6 DEF value

(* What IsDeployment says of a deployment, over Segments.                  *)
LEMMA LocalDeployment ==
  ASSUME NEW c \in Configs, c.driver = "local"
  PROVE  /\ HasFields(c.baseUrl) /\ ~ c.baseUrl.escaped
         /\ c.baseUrl.origin = None /\ c.baseUrl.slashes \in Nat
         /\ c.baseUrl.path \in Seq(Segments) /\ Before(c) = c.baseUrl.path
         /\ ~ IsPrefix(<<"media", "users">>, Before(c))
<1> DEFINE base == c.baseUrl
<1>1. IsText(base) /\ base.origin = None
  BY DeploymentAssumption DEF IsDeployment, IsLocal
<1>2. HasFields(base) /\ ~ base.escaped
  BY <1>1, TextFields DEF IsText
<1>3. base.path \in Seq(Segments)
  BY <1>1, SeqMonotonic DEF IsText, Segments
<1> QED
  BY <1>1, <1>2, <1>3, DeploymentAssumption DEF IsDeployment, IsText, Before

(* What an absolute base URL gives: a key is at the end of the path.       *)
LEMMA JoinUrl ==
  ASSUME NEW t, HasFields(t), ~ t.escaped, t.origin # None,
         t.path \in Seq(Segments), NEW before \in Seq(Segments), NEW k \in Keys
  PROVE  LET url == Join(t, before \o k) IN
         /\ HasFields(url) /\ ~ url.escaped /\ url.origin # None
         /\ url.path = (t.path \o before) \o k
<1> DEFINE path == before \o k
           joined == t.path \o path
           url == Join(t, path)
<1>1. k \in Seq(Segments)
  BY KeyShape
<1>2. PICK base \in Seq(Segments) : t.path = base
  OBVIOUS
<1>3. base \o path = (base \o before) \o k
  BY <1>1, ConcatOfThree, Zenon
<1>4. joined = (t.path \o before) \o k
  BY <1>2, <1>3
<1> HIDE DEF path
<1>5. /\ HasFields(url) /\ (url.escaped <=> t.escaped)
      /\ url.origin = t.origin /\ url.path = joined
  BY JoinFields
<1> HIDE DEF url, joined
<1>6. /\ HasFields(url) /\ ~ url.escaped /\ url.origin # None
      /\ url.path = (t.path \o before) \o k
  BY <1>4, <1>5
<1> QED
  BY <1>6 DEF url, path

(* A URL of S3: what is before the key, and whether that is nothing.       *)
NothingBefore(c) ==
  /\ c.prefix = <<>>
  /\ IF c.publicBaseUrl # None THEN c.publicBaseUrl.path = <<>>
     ELSE c.endpoint = None

LEMMA S3Deployment ==
  ASSUME NEW c \in Configs, c.driver # "local", NEW k \in Keys
  PROVE  /\ c.driver = "s3"
         /\ c.baseUrl.slashes = 1 /\ c.baseUrl.path = <<"storage", "local">>
         /\ LET url == S3Url(c, k) IN
            /\ HasFields(url) /\ ~ url.escaped /\ url.origin # None
            /\ \E p \in Seq(Segments) :
                 /\ url.path = p \o k /\ (p = <<>> <=> NothingBefore(c))
                 /\ ~ IsPrefix(<<"media", "users">>, p)
                 /\ ~ IsPrefix(<<"storage", "local">>, p)
<1>1. IsS3(c) /\ ~ IsPrefix(<<"media", "users">>, Before(c))
  BY DeploymentAssumption DEF IsDeployment
<1>2. /\ c.driver = "s3" /\ c.baseUrl = Text(None, 1, <<"storage", "local">>)
      /\ c.baseUrl.slashes = 1 /\ c.baseUrl.path = <<"storage", "local">>
  <2>1. c = S3(c.prefix, c.endpoint, c.publicBaseUrl)
    BY <1>1 DEF IsS3
  <2>2. c.driver = "s3" /\ c.baseUrl = Text(None, 1, <<"storage", "local">>)
    BY <2>1 DEF S3
  <2> QED
    BY <2>2, TextFields
<1>3. PICK prefix \in Seq(Segments) : c.prefix = prefix
  BY <1>1, SeqMonotonic DEF IsS3, Segments
<1>4. ASSUME NEW t \in {c.endpoint, c.publicBaseUrl}, t # None
      PROVE  /\ HasFields(t) /\ ~ t.escaped /\ t.origin # None
             /\ \E base \in Seq(Segments) : t.path = base
  <2>1. IsText(t) /\ t.origin # None
    BY <1>1, <1>4 DEF IsS3
  <2>2. HasFields(t) /\ ~ t.escaped
    BY <2>1, TextFields DEF IsText
  <2>3. t.path \in Seq(Segments)
    BY <2>1, SeqMonotonic DEF IsText, Segments
  <2> QED
    BY <2>1, <2>2, <2>3
<1>5. ~ IsPrefix(<<"storage", "local">>, Before(c))
  BY <1>1 DEF IsS3
<1> DEFINE url == S3Url(c, k)
           Ends(p, nothing) ==
             /\ HasFields(url) /\ ~ url.escaped /\ url.origin # None
             /\ p = Before(c) /\ url.path = p \o k /\ (p = <<>> <=> nothing)
           Goal == \E p \in Seq(Segments) : Ends(p, NothingBefore(c))
<1> HIDE DEF url, Ends
<1>6. ASSUME NEW t, t \in {c.publicBaseUrl, c.endpoint}, t # None,
             NEW base \in Seq(Segments), t.path = base,
             NEW before \in Seq(Segments), url = Join(t, before \o k),
             base \o before = Before(c)
      PROVE  \E p \in Seq(Segments) : Ends(p, base = <<>> /\ before = <<>>)
  <2> DEFINE p == base \o before
  <2>1. HasFields(t) /\ ~ t.escaped /\ t.origin # None /\ t.path = base
    BY <1>4, <1>6
  <2> DEFINE j == Join(t, before \o k)
  <2>2. /\ HasFields(j) /\ ~ j.escaped /\ j.origin # None
        /\ j.path = (t.path \o before) \o k
    BY <2>1, JoinUrl
  <2>3. url = j
    BY <1>6
  <2> HIDE DEF j
  <2>4. /\ HasFields(url) /\ ~ url.escaped /\ url.origin # None
        /\ url.path = (base \o before) \o k
    BY <2>1, <2>2, <2>3
  <2>5. p \in Seq(Segments) /\ (p = <<>> <=> base = <<>> /\ before = <<>>)
    BY ConcatElements, ConcatOfSegments
  <2>6. Ends(p, base = <<>> /\ before = <<>>)
    BY <1>6, <2>4, <2>5, Zenon DEF Ends
  <2> QED
    BY <2>6, <2>5, Zenon
<1>7. ASSUME c.publicBaseUrl # None PROVE Goal
  <2>1. PICK base \in Seq(Segments) : c.publicBaseUrl.path = base
    BY <1>4, <1>7
  <2>2. url = Join(c.publicBaseUrl, prefix \o k)
    BY <1>2, <1>3, <1>7 DEF url, S3Url, ResolveObjectKey
  <2>3. base \o prefix = Before(c)
    BY <1>2, <1>3, <1>7, <2>1 DEF Before
  <2>4. PICK p \in Seq(Segments) : Ends(p, base = <<>> /\ prefix = <<>>)
    BY <1>6, <1>7, <2>1, <2>2, <2>3
  <2>5. base = <<>> /\ prefix = <<>> <=> NothingBefore(c)
    BY <1>3, <1>7, <2>1 DEF NothingBefore
  <2> QED
    BY <2>4, <2>5, Zenon DEF Ends
<1>8. ASSUME c.publicBaseUrl = None /\ c.endpoint # None PROVE Goal
  <2> DEFINE bucket == <<Bucket>>
             object == bucket \o prefix
             path == object \o k
  <2>1. PICK base \in Seq(Segments) : c.endpoint.path = base
    BY <1>4, <1>8
  <2>2. bucket \in Seq(Segments) /\ bucket # <<>>
    BY DEF Segments
  <2>3. url = Join(c.endpoint, bucket \o (prefix \o k))
    BY <1>2, <1>3, <1>8 DEF url, S3Url, ResolveObjectKey
  <2>4. Before(c) = base \o bucket \o prefix
    BY <1>2, <1>3, <1>8, <2>1 DEF Before
  <2> HIDE DEF bucket
  <2>5. object \in Seq(Segments) /\ object # <<>>
    BY <2>2, ConcatElements, ConcatOfSegments
  <2>6. k \in Seq(Segments)
    BY KeyShape
  <2>7. bucket \o (prefix \o k) = path
    BY <2>2, <2>6, ConcatOfSegments
  <2>8. base \o object = Before(c)
    BY <2>2, <2>4, ConcatOfSegments
  <2>9. url = Join(c.endpoint, path)
    BY <2>3, <2>7
  <2> HIDE DEF object
  <2>10. PICK p \in Seq(Segments) : Ends(p, base = <<>> /\ object = <<>>)
    BY <1>6, <1>8, <2>1, <2>5, <2>8, <2>9
  <2>11. ~ NothingBefore(c)
    BY <1>8 DEF NothingBefore
  <2> QED
    BY <2>5, <2>10, <2>11, Zenon DEF Ends
<1>9. ASSUME c.publicBaseUrl = None /\ c.endpoint = None PROVE Goal
  <2> DEFINE path == prefix \o k
  <2>1. url = Text(AmazonS3, 1, path) /\ Before(c) = prefix
    BY <1>2, <1>3, <1>9 DEF url, S3Url, ResolveObjectKey, Before
  <2>2. NothingBefore(c) <=> prefix = <<>>
    BY <1>3, <1>9 DEF NothingBefore
  <2>3. path = prefix \o k
    OBVIOUS
  <2> HIDE DEF path
  <2>4. /\ HasFields(url) /\ ~ url.escaped /\ url.origin # None
        /\ url.path = path
    BY <2>1, TextFields, NamesAssumption
  <2>5. Ends(prefix, NothingBefore(c))
    BY <2>1, <2>2, <2>3, <2>4 DEF Ends
  <2> QED
    BY <2>5
<1>10. PICK p \in Seq(Segments) : Ends(p, NothingBefore(c))
  BY <1>7, <1>8, <1>9
<1>11. /\ HasFields(url) /\ ~ url.escaped /\ url.origin # None
       /\ p = Before(c) /\ url.path = p \o k
       /\ p = <<>> <=> NothingBefore(c)
  BY <1>10 DEF Ends
<1>12. /\ ~ IsPrefix(<<"media", "users">>, p)
       /\ ~ IsPrefix(<<"storage", "local">>, p)
  BY <1>1, <1>5, <1>11, Zenon
<1> QED
  BY <1>2, <1>11, <1>12 DEF url

-----------------------------------------------------------------------------
(* What ResolveAvatarKey answers, for every deployment and reference.      *)

LEMMA Verdict ==
  ASSUME NEW c, NEW u, NEW value, NEW path, NEW found \in BOOLEAN,
         LET n == NormalizeStorageKey(c, value) IN
         /\ n.path = path
         /\ found <=> /\ n.slashes = 0 /\ ~ n.escaped
                      /\ IsStrictPrefix(<<"media", "users", u>>, path)
  PROVE  ResolveAvatarKey(c, u, value) = IF found THEN path ELSE None
BY DEF ResolveAvatarKey

LEMMA OddKey ==
  ASSUME NEW k \in Keys
  PROVE  (\E i \in DOMAIN k : k[i] \in Odd) <=> Last(k) \in Odd
<1>1. /\ DOMAIN k = 1 .. 5 /\ Last(k) = k[5]
      /\ k[1] = "media" /\ k[2] = "users" /\ k[4] = "uploads" /\ k[3] \in Users
  BY KeyShape DEF Last
<1>2. \A i \in 1 .. 4 : k[i] \notin Odd
  BY <1>1, NamesAssumption
<1> QED
  BY <1>1, <1>2

Answer(c, u, k, value) ==
  IF k \in KeysOf(u) /\ Reusable(c, k, value) THEN k ELSE None

LEMMA ResolveKey ==
  ASSUME NEW c \in Configs, NEW u \in Users, NEW k \in Keys
  PROVE  LET value == Text(None, 0, k) IN
         ResolveAvatarKey(c, u, value) = Answer(c, u, k, value)
<1> DEFINE value == Text(None, 0, k)
<1>1. LET n == NormalizeStorageKey(c, value) IN
      n.slashes = 0 /\ n.path = k /\ ~ n.escaped
  BY KeyShape, KeyResolves
<1>2. IsStrictPrefix(<<"media", "users", u>>, k) <=> k \in KeysOf(u)
  BY OwnPrefix
<1>3. Reusable(c, k, value)
  BY DEF Reusable
<1> HIDE DEF value
<1>4. ResolveAvatarKey(c, u, value) = IF k \in KeysOf(u) THEN k ELSE None
  BY <1>1, <1>2, Verdict
<1> QED
  BY <1>3, <1>4 DEF Answer, value

(* Of the local driver, by the three ways to configure its base URL: "/",  *)
(* a path that starts with a slash, and one that does not.                 *)
LEMMA ResolveLocal ==
  ASSUME NEW c \in Configs, NEW u \in Users, NEW k \in Keys, c.driver = "local"
  PROVE  LET value == Url(c, k) IN
         ResolveAvatarKey(c, u, value) = Answer(c, u, k, value)
<1> DEFINE value == Url(c, k)
           base == c.baseUrl
<1>1. /\ HasFields(base) /\ ~ base.escaped /\ base.origin = None
      /\ base.slashes \in Nat /\ ~ IsPrefix(<<"media", "users">>, base.path)
  BY LocalDeployment, Zenon
<1>2. PICK path \in Seq(Segments) : base.path = path
  BY LocalDeployment
<1>3. k \in Seq(Segments) /\ k # None
  BY KeyShape
<1> DEFINE whole == path \o k
           normal == NormalizeBaseUrl(base)
<1>4. /\ HasFields(normal) /\ ~ normal.escaped /\ normal.origin = None
      /\ normal.path = path
      /\ normal.slashes = IF base.slashes > 0 /\ path # <<>> THEN base.slashes
                          ELSE 1
  BY <1>1, <1>2 DEF NormalizeBaseUrl, HasFields
<1>5. value = Join(normal, k)
  BY DEF Url, LocalUrl
<1> DEFINE joined == normal.path \o k
           slashes == IF normal.path = <<>> THEN normal.slashes + 1
                      ELSE normal.slashes
<1> HIDE DEF value, normal
<1>6. /\ HasFields(value) /\ (value.escaped <=> normal.escaped)
      /\ value.origin = normal.origin /\ value.path = joined
      /\ value.slashes = slashes
  BY <1>4, <1>5, JoinFields
<1>7. joined = whole /\ slashes = IF path = <<>> THEN 2
                         ELSE IF base.slashes > 0 THEN base.slashes ELSE 1
  BY <1>4
<1> HIDE DEF joined, slashes, whole
<1>8. /\ HasFields(value) /\ ~ value.escaped /\ value.origin = None
      /\ value.path = whole
      /\ value.slashes = IF path = <<>> THEN 2
                         ELSE IF base.slashes > 0 THEN base.slashes ELSE 1
  BY <1>4, <1>6, <1>7
<1>9. ExtractPathname(value) = value
  BY <1>8 DEF ExtractPathname
<1>10. value # Text(None, 0, k)
  BY <1>1, <1>8, TextFields
<1>11. Reusable(c, k, value) <=> base.slashes > 0 /\ path # <<>>
  BY <1>2, <1>10 DEF Reusable
<1> DEFINE local == LocalBaseUrl(c)
<1>12. local.path = path /\ (path # <<>> => local.slashes = base.slashes)
  BY <1>2, LocalBase
<1> DEFINE n == NormalizeStorageKey(c, value)
<1>13. CASE path = <<>>
  <2>1. StartsWith(value, local)
    BY <1>8, <1>12, <1>13 DEF StartsWith
  <2>2. n.slashes = 1
    BY <1>8, <1>9, <1>12, <1>13, <2>1, WithRoot
  <2>3. ResolveAvatarKey(c, u, value) = None
    BY <2>2 DEF ResolveAvatarKey
  <2> QED
    BY <1>11, <1>13, <2>3 DEF Answer, value
<1>14. CASE path # <<>> /\ base.slashes > 0
  <2>1. /\ Len(path) \in Nat /\ Len(whole) = Len(path) + Len(k) /\ Len(k) = 5
    BY <1>3, KeyShape, ConcatElements DEF whole
  <2>2. /\ SubSeq(whole, 1, Len(path)) = path
        /\ SubSeq(whole, Len(path) + 1, Len(whole)) = k
    BY <1>3, PartsOfConcat DEF whole
  <2>3. /\ SubSeq(path, 1, Len(path)) = path
        /\ Len(path) <= Len(whole) /\ whole # path
    BY <2>1
  <2>4. StartsWith(value, local)
    BY <1>8, <1>12, <1>14, <2>2, <2>3 DEF StartsWith, IsStrictPrefix, IsPrefix
  <2>5. n.slashes = 0 /\ ~ n.escaped /\ n.path = k
    BY <1>8, <1>9, <1>12, <1>14, <2>2, <2>4, WithBase
  <2>6. IsStrictPrefix(<<"media", "users", u>>, k) <=> k \in KeysOf(u)
    BY OwnPrefix
  <2>7. ResolveAvatarKey(c, u, value) = IF k \in KeysOf(u) THEN k ELSE None
    BY <2>5, <2>6, Verdict
  <2> QED
    BY <1>11, <1>14, <2>7 DEF Answer, value
<1>15. CASE path # <<>> /\ base.slashes = 0
  <2>1. ~ StartsWith(value, local)
    BY <1>8, <1>12, <1>15 DEF StartsWith
  <2>2. n.path = whole
    BY <1>8, <1>9, <2>1, WithoutBase
  <2>3. ~ IsStrictPrefix(<<"media", "users", u>>, whole)
    BY <1>1, <1>2, <1>15, NotAtStart DEF whole
  <2>4. ResolveAvatarKey(c, u, value) = None
    BY <2>2, <2>3 DEF ResolveAvatarKey
  <2> QED
    BY <1>11, <1>15, <2>4 DEF Answer, value
<1> QED
  BY <1>1, <1>13, <1>14, <1>15

(* Of S3: the local base URL is not at the start of the path, so the key   *)
(* has to be.                                                              *)
LEMMA ResolveS3 ==
  ASSUME NEW c \in Configs, NEW u \in Users, NEW k \in Keys, c.driver # "local"
  PROVE  LET value == Url(c, k) IN
         ResolveAvatarKey(c, u, value) = Answer(c, u, k, value)
<1> DEFINE value == Url(c, k)
           n == NormalizeStorageKey(c, value)
           local == LocalBaseUrl(c)
<1>1. /\ c.driver = "s3"
      /\ c.baseUrl.slashes = 1 /\ c.baseUrl.path = <<"storage", "local">>
      /\ HasFields(value) /\ ~ value.escaped /\ value.origin # None
  BY S3Deployment DEF Url
<1>2. PICK p \in Seq(Segments) :
        /\ value.path = p \o k /\ (p = <<>> <=> NothingBefore(c))
        /\ ~ IsPrefix(<<"media", "users">>, p)
        /\ ~ IsPrefix(<<"storage", "local">>, p)
  BY S3Deployment DEF Url
<1> DEFINE whole == p \o k
           pathname == ExtractPathname(value)
           odd == \E i \in DOMAIN whole : whole[i] \in Odd
<1> HIDE DEF value
<1>3. ~ IsStrictPrefix(<<"storage", "local">>, whole)
  <2>1. "storage" \in Segments /\ "local" \in Segments
    BY DEF Segments
  <2> QED
    BY <1>2, <2>1, PairNotAtStart DEF IsStrictPrefix
<1>4. HasFields(pathname) /\ pathname.path = whole /\ (pathname.escaped <=> odd)
  BY <1>1, <1>2, PathnameFields
<1> HIDE DEF odd, pathname, whole
<1>5. local.path = <<"storage", "local">>
  BY <1>1, LocalBase
<1>6. ~ StartsWith(pathname, local)
  BY <1>3, <1>4, <1>5 DEF StartsWith
<1>7. n.slashes = 0 /\ n.path = whole /\ (n.escaped <=> odd)
  BY <1>4, <1>6, WithoutBase DEF pathname
<1>8. value # Text(None, 0, k)
  BY <1>1, TextFields
<1>9. Reusable(c, k, value) <=> p = <<>> /\ Last(k) \notin Odd
  BY <1>1, <1>2, <1>8 DEF Reusable, NothingBefore
<1>10. CASE p = <<>>
  <2>1. whole = k
    BY <1>10, KeyShape, ConcatEmptySeq DEF whole
  <2>2. odd <=> Last(k) \in Odd
    BY <2>1, OddKey DEF odd
  <2>3. IsStrictPrefix(<<"media", "users", u>>, whole) <=> k \in KeysOf(u)
    BY <2>1, OwnPrefix
  <2>4. ResolveAvatarKey(c, u, value) =
          IF k \in KeysOf(u) /\ Last(k) \notin Odd THEN k ELSE None
    BY <1>7, <2>1, <2>2, <2>3, Verdict
  <2> QED
    BY <1>9, <1>10, <2>4 DEF Answer, value
<1>11. CASE p # <<>>
  <2>1. ~ IsStrictPrefix(<<"media", "users", u>>, whole)
    BY <1>2, <1>11, NotAtStart DEF whole
  <2>2. ResolveAvatarKey(c, u, value) = None
    BY <1>7, <2>1 DEF ResolveAvatarKey
  <2> QED
    BY <1>9, <1>11, <2>2 DEF Answer, value
<1> QED
  BY <1>10, <1>11

(* updateProfile takes from a reference that upload answered with exactly  *)
(* the key that it is a reference to, if the user owns that file and it is *)
(* Reusable, and refuses every other (resolveAvatarKey, with both drivers).*)
THEOREM ResolvesOwnKeys ==
  ASSUME NEW c \in Configs, NEW u \in Users, NEW k \in Keys,
         NEW value \in References(c, k)
  PROVE  ResolveAvatarKey(c, u, value) =
           IF k \in KeysOf(u) /\ Reusable(c, k, value) THEN k ELSE None
<1>1. ResolveAvatarKey(c, u, value) = Answer(c, u, k, value)
  BY ResolveKey, ResolveLocal, ResolveS3 DEF References
<1> QED
  BY <1>1 DEF Answer

-----------------------------------------------------------------------------
(* Type correctness.                                                       *)

LEMMA ResolveType ==
  ASSUME NEW c \in Configs, NEW u \in Users, NEW k \in Keys,
         NEW value \in References(c, k)
  PROVE  ResolveAvatarKey(c, u, value) \in Own(u)
BY ResolvesOwnKeys DEF Own

LEMMA ResolveOther ==
  ASSUME NEW c \in Configs, NEW u \in Users, NEW k \in Others(u)
  PROVE  ResolveAvatarKey(c, u, Text(None, 0, k)) \in {k, None}
<1> DEFINE value == Text(None, 0, k)
<1>1. NormalizeStorageKey(c, value).path = k
  BY OtherShape, KeyResolves
<1> HIDE DEF value
<1>2. ResolveAvatarKey(c, u, value) \in {k, None}
  BY <1>1 DEF ResolveAvatarKey
<1> QED
  BY <1>2 DEF value

(* What a request in progress holds.                                       *)
Sound(q) ==
  \/ q = Idle
  \/ q \in InProgress /\ {q.previous, q.next} \subseteq Own(q.user)

LEMMA OwnKeys ==
  /\ None \in AvatarKeys
  /\ \A u \in Users : Own(u) \subseteq AvatarKeys /\ None \in Own(u)
BY DEF Own, AvatarKeys, Keys, KeysOf

LEMMA AllSound == TypeOK => \A r \in Requests : Sound(req[r])
BY DEF TypeOK, Sound

LEMMA TypeInit == Init => TypeOK
BY OwnKeys DEF Init, TypeOK

(* A step of a request, by what it makes of the request.                   *)
RequestStep(r) ==
  \/ \E u \in Users :
       \/ BeginSetAvatar(r, u) \/ BeginSetOther(r, u)
       \/ BeginClearAvatar(r, u) \/ BeginOther(r, u)
  \/ Exists(r) \/ DeletePrevious(r) \/ Save(r) \/ Abort(r)

LEMMA RequestEffect ==
  ASSUME TypeOK, NEW r \in Requests, RequestStep(r)
  PROVE  \E q : Sound(q) /\ req' = [req EXCEPT ![r] = q]
<1>1. Sound(Idle)
  BY DEF Sound
<1>2. ASSUME NEW pc \in {"exists", "delete", "save"}, NEW u \in Users,
             NEW next \in Own(u), NEW sets \in BOOLEAN
      PROVE  Sound(Request(pc, u, avatar[u], next, sets))
  <2> DEFINE q == Request(pc, u, avatar[u], next, sets)
  <2>1. avatar[u] \in Own(u)
    BY DEF TypeOK
  <2>2. Own(u) \subseteq AvatarKeys
    BY OwnKeys
  <2>3. q \in InProgress
    BY <2>1, <2>2 DEF Request, InProgress
  <2>4. q.user = u /\ q.previous = avatar[u] /\ q.next = next
    BY DEF Request
  <2> QED
    BY <2>1, <2>3, <2>4 DEF Sound
<1>3. ASSUME NEW u \in Users, BeginSetAvatar(r, u)
      PROVE  \E q : Sound(q) /\ req' = [req EXCEPT ![r] = q]
  <2>1. PICK k \in uploaded : \E value \in References(config, k) :
          LET next == ResolveAvatarKey(config, u, value) IN
          Begin(r, IF next = None THEN Idle
                   ELSE Request("exists", u, avatar[u], next, TRUE))
    BY <1>3 DEF BeginSetAvatar, BeginWith
  <2>2. PICK next \in Own(u) :
          Begin(r, IF next = None THEN Idle
                   ELSE Request("exists", u, avatar[u], next, TRUE))
    BY <2>1, ResolveType DEF TypeOK
  <2> QED
    BY <1>1, <1>2, <2>2 DEF Begin
<1>8. ASSUME NEW u \in Users, BeginSetOther(r, u)
      PROVE  \E q : Sound(q) /\ req' = [req EXCEPT ![r] = q]
  <2>1. PICK k \in Others(u) :
          LET next == ResolveAvatarKey(config, u, Text(None, 0, k)) IN
          Begin(r, IF next = None THEN Idle
                   ELSE Request("exists", u, avatar[u], next, TRUE))
    BY <1>8 DEF BeginSetOther, BeginWith
  <2>2. k \in Own(u)
    BY DEF Own
  <2>3. Begin(r, Idle) \/ Begin(r, Request("exists", u, avatar[u], k, TRUE))
    BY <2>1, ResolveOther DEF TypeOK
  <2> QED
    BY <1>1, <1>2, <2>2, <2>3 DEF Begin
<1>4. ASSUME NEW u \in Users, BeginClearAvatar(r, u) \/ BeginOther(r, u)
      PROVE  \E q : Sound(q) /\ req' = [req EXCEPT ![r] = q]
  <2>1. None \in Own(u) /\ avatar[u] \in Own(u)
    BY OwnKeys DEF TypeOK
  <2> QED
    BY <1>2, <1>4, <2>1 DEF BeginClearAvatar, BeginOther, Begin
<1>5. ASSUME NEW pc \in {"delete", "save"}, req[r].pc \in {"exists", "delete"},
             Goto(r, pc)
      PROVE  \E q : Sound(q) /\ req' = [req EXCEPT ![r] = q]
  <2> DEFINE q == [req[r] EXCEPT !.pc = pc]
  <2>1. /\ req[r] \in InProgress
        /\ {req[r].previous, req[r].next} \subseteq Own(req[r].user)
    BY <1>5, AllSound DEF Sound, Idle
  <2>2. /\ q \in InProgress /\ q.previous = req[r].previous
        /\ q.next = req[r].next /\ q.user = req[r].user
    BY <2>1 DEF InProgress
  <2>3. req' = [req EXCEPT ![r] = q]
    BY <1>5 DEF Goto
  <2> QED
    BY <2>1, <2>2, <2>3 DEF Sound
<1>6. CASE Exists(r) \/ DeletePrevious(r)
  BY <1>1, <1>5, <1>6 DEF Exists, DeletePrevious, End
<1>7. CASE Save(r) \/ Abort(r)
  BY <1>1, <1>7 DEF Save, Abort, End
<1> QED
  BY <1>3, <1>4, <1>6, <1>7, <1>8 DEF RequestStep

LEMMA TypeStep == TypeOK /\ [Next]_vars => TypeOK'
<1> SUFFICES ASSUME TypeOK, [Next]_vars PROVE TypeOK'
  OBVIOUS
<1>1. \A u \in Users : KeysOf(u) \subseteq Keys /\ None \in Own(u)
  BY OwnKeys DEF KeysOf, Keys
<1>2. ASSUME NEW u \in Users, NEW f \in Files, Upload(u, f) PROVE TypeOK'
  BY <1>2, <1>1 DEF Upload, TypeOK, KeysOf
<1>3. ASSUME NEW r \in Requests, RequestStep(r) PROVE TypeOK'
  <2>1. /\ req' \in [Requests -> {Idle} \cup InProgress]
        /\ \A x \in Requests : req'[x] # Idle =>
             {req'[x].previous, req'[x].next} \subseteq Own(req'[x].user)
    <3>1. PICK q : Sound(q) /\ req' = [req EXCEPT ![r] = q]
      BY <1>3, RequestEffect
    <3>2. \A x \in Requests : req'[x] = IF x = r THEN q ELSE req[x]
      BY <3>1 DEF TypeOK
    <3>3. \A x \in Requests : Sound(req'[x])
      BY <3>1, <3>2, AllSound
    <3> QED
      BY <3>1, <3>3 DEF TypeOK, Sound
  <2>2. config' = config /\ serial' = serial /\ uploaded' = uploaded
    BY <1>3 DEF RequestStep, BeginSetAvatar, BeginSetOther, BeginWith,
       BeginClearAvatar, BeginOther, Begin, Exists, DeletePrevious, Save, Abort
  <2>3. files' \subseteq files
    BY <1>3 DEF RequestStep, BeginSetAvatar, BeginSetOther, BeginWith,
       BeginClearAvatar, BeginOther, Begin, Exists, DeletePrevious, Save, Abort
  <2>4. \/ avatar' = avatar
        \/ \E u \in Users : \E k \in Own(u) : avatar' = [avatar EXCEPT ![u] = k]
    <3>1. CASE Save(r)
      <4>1. req[r] # Idle
        BY <3>1 DEF Save, Idle
      <4>2. req[r].user \in Users /\ req[r].next \in Own(req[r].user)
        BY <4>1 DEF TypeOK, InProgress
      <4> QED
        BY <3>1, <4>2 DEF Save
    <3> QED
      BY <1>3, <3>1 DEF RequestStep, BeginSetAvatar, BeginSetOther, BeginWith,
         BeginClearAvatar, BeginOther, Begin, Exists, DeletePrevious, Abort
  <2>5. \/ chosen' = chosen
        \/ \E u \in Users : \E k \in Own(u) : chosen' = [chosen EXCEPT ![u] = k]
    <3>1. CASE Abort(r)
      <4>1. req[r].user \in Users /\ avatar[req[r].user] \in Own(req[r].user)
        BY <3>1 DEF Abort, TypeOK, InProgress
      <4> QED
        BY <3>1, <4>1 DEF Abort
    <3>2. ASSUME NEW u \in Users, BeginSetAvatar(r, u)
          PROVE  \/ chosen' = chosen
                 \/ \E k \in Own(u) : chosen' = [chosen EXCEPT ![u] = k]
      BY <3>2 DEF BeginSetAvatar, Own
    <3> QED
      BY <1>1, <1>3, <3>1, <3>2 DEF RequestStep, BeginSetOther,
         BeginClearAvatar, BeginOther, Exists, DeletePrevious, Save
  <2>6. torn' \subseteq Users
    <3>1. CASE Abort(r)
      <4>1. req[r].user \in Users /\ torn' \subseteq torn \cup {req[r].user}
        BY <3>1 DEF Abort, TypeOK, InProgress
      <4> QED
        BY <4>1 DEF TypeOK
    <3>2. CASE ~ Abort(r)
      <4>1. torn' \subseteq torn
        BY <1>3, <3>2 DEF RequestStep, BeginSetAvatar, BeginSetOther,
           BeginWith, BeginClearAvatar, BeginOther, Begin, Exists,
           DeletePrevious, Save
      <4> QED
        BY <4>1 DEF TypeOK
    <3> QED
      BY <3>1, <3>2
  <2>9. detoured' \subseteq Users
    BY <1>3 DEF RequestStep, BeginSetAvatar, BeginSetOther, BeginWith,
       BeginClearAvatar, BeginOther, Begin, Exists, DeletePrevious, Save, Abort,
       TypeOK
  <2>7. ASSUME NEW m, m \in [Users -> AvatarKeys],
               \A u \in Users : m[u] \in Own(u), NEW m1,
               \/ m1 = m
               \/ \E u \in Users : \E k \in Own(u) : m1 = [m EXCEPT ![u] = k]
        PROVE  /\ m1 \in [Users -> AvatarKeys]
               /\ \A u \in Users : m1[u] \in Own(u)
    BY OwnKeys, <2>7
  <2>8. /\ {avatar', chosen'} \subseteq [Users -> AvatarKeys]
        /\ \A u \in Users : {avatar'[u], chosen'[u]} \subseteq Own(u)
    BY <2>4, <2>5, <2>7 DEF TypeOK
  <2> QED
    BY <2>1, <2>2, <2>3, <2>6, <2>8, <2>9 DEF TypeOK
<1>4. CASE UNCHANGED vars
  BY <1>4 DEF vars, TypeOK
<1> QED
  BY <1>2, <1>3, <1>4 DEF Next, RequestStep

(* Every variable keeps its shape, and whether clients send references     *)
(* that upload answered with or other keys, the avatar of a user, and what *)
(* a request is about to delete or save, is a key in the user's own        *)
(* directory or none (resolveAvatarKey, updateProfile).                    *)
THEOREM TypeCorrect == Spec => []TypeOK
BY TypeInit, TypeStep, PTL DEF Spec

-----------------------------------------------------------------------------
(* Requests that do not overlap.                                           *)

Alone == \A r, x \in Requests : req[r] # Idle /\ req[x] # Idle => r = x

Settled(u) ==
  u \notin torn \cup detoured =>
    avatar[u] = chosen[u] /\ avatar[u] \in files \cup {None}

(* A key that is behind no file but the user's own, or of which the        *)
(* history knows what it leads to.                                         *)
Known(u, key) ==
  \/ key \in KeysOf(u) \cup {None}
  \/ /\ u \in detoured
     /\ \A v \in Users : ResolvePath(config, key) \in KeysOf(v) => v \in detoured

LEMMA KeyPath == ASSUME NEW k \in Keys PROVE ResolvePath(config, k) = k
BY KeyShape DEF ResolvePath

(* A known key leads to no file of a user of whom the history knows of no  *)
(* detour, except to the user's own.                                       *)
LEMMA KnownPath ==
  ASSUME NEW u \in Users, NEW key, Known(u, key),
         NEW v \in Users \ detoured, NEW k \in KeysOf(v), k \in Deleted(key)
  PROVE  u = v /\ k = key
<1>1. key # None /\ k = ResolvePath(config, key)
  BY DEF Deleted
<1>2. CASE key \in KeysOf(u)
  <2>1. key \in Keys
    BY <1>2 DEF Keys, KeysOf
  <2>2. k = key
    BY <1>1, <2>1, KeyPath
  <2> QED
    BY <1>2, <2>2, KeysApart
<1>3. CASE key \notin KeysOf(u)
  BY <1>1, <1>3 DEF Known
<1> QED
  BY <1>2, <1>3

(* What a request in progress knows of its user: what it read is still so, *)
(* and, past the check, what it is about to save is what has been chosen,  *)
(* and exists.                                                             *)
Fits(q) ==
  LET u == q.user IN
  /\ q.previous = avatar[u]
  /\ q.pc \in {"exists", "delete"} =>
       /\ q.sets
       /\ u \notin torn \cup detoured => avatar[u] \in files \cup {None}
  /\ q.pc = "exists" =>
       /\ q.next # None
       /\ IF q.next \in files THEN chosen[u] = q.next
          ELSE u \notin torn \cup detoured => chosen[u] = avatar[u]
  /\ q.pc = "delete" \/ (q.pc = "save" /\ q.sets) =>
       /\ Known(u, q.next)
       /\ u \notin detoured => chosen[u] = q.next /\ q.next \in files \cup {None}
  /\ q.pc = "save" /\ ~ q.sets => q.next = avatar[u] /\ Settled(u)

Busy(u) == \E r \in Requests : req[r] # Idle /\ req[r].user = u

SerialInv ==
  /\ Alone
  /\ \A u \in Users : Known(u, avatar[u]) /\ (Settled(u) \/ Busy(u))
  /\ \A r \in Requests : req[r] # Idle => Fits(req[r])

(* A request that begins finds every user settled.                         *)
LEMMA BeginAlone ==
  ASSUME TypeOK, SerialInv, serial, NEW r \in Requests, NEW q, Begin(r, q)
  PROVE  /\ \A u \in Users : Settled(u) /\ Known(u, avatar[u])'
         /\ req'[r] = q /\ \A x \in Requests : x # r => req'[x] = Idle
         /\ UNCHANGED <<config, avatar, files, torn, detoured>>
<1>1. \A x \in Requests : req[x] = Idle
  BY DEF Begin
<1>2. UNCHANGED <<config, avatar, files, torn, detoured>>
  BY DEF Begin
<1>3. \A u \in Users : Known(u, avatar[u])'
  BY <1>2 DEF SerialInv, Known
<1> QED
  BY <1>1, <1>2, <1>3 DEF Begin, SerialInv, Busy, TypeOK

(* It is enough to look at the request of the step, and at the users that  *)
(* it is not about.                                                        *)
LEMMA OneRequest ==
  ASSUME NEW r \in Requests, \A x \in Requests : x # r => req'[x] = Idle,
         \A u \in Users :
           /\ Known(u, avatar[u])'
           /\ Settled(u)' \/ (req'[r] # Idle /\ req'[r].user = u),
         req'[r] # Idle => Fits(req[r])'
  PROVE  SerialInv'
BY DEF SerialInv, Alone, Busy

LEMMA SetAvatarSerial ==
  ASSUME TypeOK, SerialInv, serial, NEW r \in Requests, NEW u \in Users,
         BeginSetAvatar(r, u)
  PROVE  SerialInv'
<1>1. PICK k \in uploaded : \E value \in References(config, k) :
        LET next == ResolveAvatarKey(config, u, value) IN
        /\ Begin(r, IF next = None THEN Idle
                    ELSE Request("exists", u, avatar[u], next, TRUE))
        /\ chosen' = IF k \in files \cap KeysOf(u) /\ Reusable(config, k, value)
                     THEN [chosen EXCEPT ![u] = k] ELSE chosen
  BY DEF BeginSetAvatar, BeginWith
<1>2. k \in Keys /\ k # None
  BY KeyShape DEF TypeOK
<1> DEFINE request == Request("exists", u, avatar[u], k, TRUE)
<1>3. PICK mine \in BOOLEAN :
        /\ Begin(r, IF mine THEN request ELSE Idle)
        /\ chosen' = IF mine /\ k \in files THEN [chosen EXCEPT ![u] = k]
                     ELSE chosen
  <2>1. PICK value \in References(config, k) :
          LET next == ResolveAvatarKey(config, u, value) IN
          /\ Begin(r, IF next = None THEN Idle
                      ELSE Request("exists", u, avatar[u], next, TRUE))
          /\ chosen' =
               IF k \in files \cap KeysOf(u) /\ Reusable(config, k, value)
               THEN [chosen EXCEPT ![u] = k] ELSE chosen
    BY <1>1
  <2> DEFINE mine == k \in KeysOf(u) /\ Reusable(config, k, value)
  <2>2. ResolveAvatarKey(config, u, value) = IF mine THEN k ELSE None
    BY <1>2, <2>1, ResolvesOwnKeys DEF TypeOK
  <2>3. /\ Begin(r, IF mine THEN request ELSE Idle)
        /\ chosen' = IF mine /\ k \in files THEN [chosen EXCEPT ![u] = k]
                     ELSE chosen
    BY <1>2, <2>1, <2>2
  <2> QED
    BY <2>3
<1>4. /\ \A v \in Users : Settled(v) /\ Known(v, avatar[v])'
      /\ req'[r] = IF mine THEN request ELSE Idle
      /\ \A x \in Requests : x # r => req'[x] = Idle
      /\ UNCHANGED <<avatar, files, torn, detoured>>
  BY <1>3, BeginAlone
<1>5. \A v \in Users : v # u \/ ~ mine => Settled(v)'
  BY <1>3, <1>4 DEF Settled, TypeOK
<1>6. CASE ~ mine
  BY <1>4, <1>5, <1>6, OneRequest
<1>7. CASE mine
  <2> DEFINE q == request
  <2>1. /\ q # Idle /\ q.pc = "exists" /\ q.user = u /\ q.previous = avatar[u]
        /\ q.next = k /\ q.sets
    BY DEF Request, Idle
  <2>2. req'[r] = q
    BY <1>4, <1>7
  <2> HIDE DEF q
  <2>3. IF k \in files THEN chosen'[u] = k ELSE chosen' = chosen
    BY <1>3, <1>7 DEF TypeOK
  <2>4. Fits(req[r])'
    BY <1>2, <1>4, <2>1, <2>2, <2>3 DEF Fits, Settled
  <2> QED
    BY <1>4, <1>5, <2>1, <2>2, <2>4, OneRequest
<1> QED
  BY <1>6, <1>7

LEMMA SetOtherSerial ==
  ASSUME TypeOK, SerialInv, serial, NEW r \in Requests, NEW u \in Users,
         BeginSetOther(r, u)
  PROVE  SerialInv'
<1>1. PICK k \in Others(u) :
        LET next == ResolveAvatarKey(config, u, Text(None, 0, k)) IN
        Begin(r, IF next = None THEN Idle
                 ELSE Request("exists", u, avatar[u], next, TRUE))
  BY DEF BeginSetOther, BeginWith
<1> DEFINE q == Request("exists", u, avatar[u], k, TRUE)
<1>2. k # None /\ k \notin Keys
  BY OtherShape
<1>3. PICK request \in {Idle, q} : Begin(r, request)
  BY <1>1, ResolveOther DEF TypeOK
<1>4. chosen' = chosen
  BY DEF BeginSetOther
<1>5. /\ q # Idle /\ q.pc = "exists" /\ q.user = u /\ q.previous = avatar[u]
      /\ q.next = k /\ q.sets
  BY DEF Request, Idle
<1> HIDE DEF q
<1>6. /\ \A v \in Users : Settled(v) /\ Known(v, avatar[v])'
      /\ req'[r] = request /\ \A x \in Requests : x # r => req'[x] = Idle
      /\ UNCHANGED <<avatar, files, torn, detoured>>
  BY <1>3, BeginAlone
<1>7. \A v \in Users : Settled(v)'
  BY <1>4, <1>6 DEF Settled
<1>8. k \notin files
  BY <1>2 DEF TypeOK
<1>9. request = q => Fits(req[r])'
  BY <1>2, <1>4, <1>5, <1>6, <1>7, <1>8 DEF Fits, Settled
<1> QED
  BY <1>3, <1>6, <1>7, <1>9, OneRequest

LEMMA OtherBeginsSerial ==
  ASSUME TypeOK, SerialInv, serial, NEW r \in Requests, NEW u \in Users,
         BeginClearAvatar(r, u) \/ BeginOther(r, u)
  PROVE  SerialInv'
<1>1. CASE BeginClearAvatar(r, u)
  <2> DEFINE q == Request("delete", u, avatar[u], None, TRUE)
  <2>1. /\ q # Idle /\ q.pc = "delete" /\ q.user = u /\ q.previous = avatar[u]
        /\ q.next = None /\ q.sets
    BY DEF Request, Idle
  <2>2. Begin(r, q) /\ chosen' = [chosen EXCEPT ![u] = None]
    BY <1>1 DEF BeginClearAvatar
  <2> HIDE DEF q
  <2>3. /\ \A v \in Users : Settled(v) /\ Known(v, avatar[v])'
        /\ req'[r] = q /\ \A x \in Requests : x # r => req'[x] = Idle
        /\ UNCHANGED <<avatar, files, torn, detoured>>
    BY <2>2, BeginAlone
  <2>4. chosen'[u] = None /\ \A v \in Users : v # u => Settled(v)'
    BY <2>2, <2>3 DEF Settled, TypeOK
  <2>5. Fits(req[r])'
    BY <2>1, <2>3, <2>4 DEF Fits, Settled, Known
  <2> QED
    BY <2>1, <2>3, <2>4, <2>5, OneRequest
<1>2. CASE BeginOther(r, u)
  <2> DEFINE q == Request("save", u, avatar[u], avatar[u], FALSE)
  <2>1. /\ q # Idle /\ q.pc = "save" /\ q.user = u /\ q.previous = avatar[u]
        /\ q.next = avatar[u] /\ ~ q.sets
    BY DEF Request, Idle
  <2>2. Begin(r, q) /\ chosen' = chosen
    BY <1>2 DEF BeginOther
  <2> HIDE DEF q
  <2>3. /\ \A v \in Users : Settled(v) /\ Known(v, avatar[v])'
        /\ req'[r] = q /\ \A x \in Requests : x # r => req'[x] = Idle
        /\ UNCHANGED <<avatar, files, torn, detoured>>
    BY <2>2, BeginAlone
  <2>4. \A v \in Users : Settled(v)'
    BY <2>2, <2>3 DEF Settled
  <2>5. Fits(req[r])'
    BY <2>1, <2>3, <2>4 DEF Fits
  <2> QED
    BY <2>3, <2>4, <2>5, OneRequest
<1> QED
  BY <1>1, <1>2

(* A request in progress is alone, and every user but its own is settled.  *)
LEMMA GoesOn ==
  ASSUME TypeOK, SerialInv, NEW r \in Requests, req[r] # Idle
  PROVE  /\ req[r] \in InProgress /\ req[r].user \in Users /\ Fits(req[r])
         /\ \A x \in Requests : x # r => req[x] = Idle
         /\ \A v \in Users : Known(v, avatar[v])
         /\ \A v \in Users : v # req[r].user => Settled(v)
BY DEF TypeOK, SerialInv, Alone, Busy, InProgress

LEMMA GotoFields ==
  ASSUME TypeOK, NEW r \in Requests, req[r] \in InProgress,
         NEW pc \in {"delete", "save"}, Goto(r, pc)
  PROVE  /\ req'[r] # Idle /\ req'[r].pc = pc /\ req'[r].user = req[r].user
         /\ req'[r].previous = req[r].previous /\ req'[r].next = req[r].next
         /\ req'[r].sets = req[r].sets
         /\ \A x \in Requests : x # r => req'[x] = req[x]
<1> DEFINE q == [req[r] EXCEPT !.pc = pc]
<1>1. /\ q.pc = pc /\ q.user = req[r].user /\ q.previous = req[r].previous
      /\ q.next = req[r].next /\ q.sets = req[r].sets
  BY DEF InProgress
<1>2. req' = [req EXCEPT ![r] = q]
  BY DEF Goto
<1>3. Idle.pc = "idle"
  BY DEF Idle
<1> HIDE DEF q
<1>4. req'[r] = q /\ \A x \in Requests : x # r => req'[x] = req[x]
  BY <1>2 DEF TypeOK
<1>5. q # Idle
  BY <1>1, <1>3
<1> QED
  BY <1>1, <1>4, <1>5

LEMMA EndFields ==
  ASSUME TypeOK, NEW r \in Requests, End(r)
  PROVE  req'[r] = Idle /\ \A x \in Requests : x # r => req'[x] = req[x]
BY DEF TypeOK, End

(* What exists finds: with a key of an upload, that file; with another, it *)
(* makes the history know what that leads to.                              *)
LEMMA ExistsFinds ==
  ASSUME TypeOK, SerialInv, serial, NEW r \in Requests, Exists(r),
         NEW u, u = req[r].user, NEW next, next = req[r].next
  PROVE  \/ End(r) /\ detoured' = detoured /\ next \notin files
         \/ /\ Goto(r, "delete") /\ detoured \subseteq detoured'
            /\ Known(u, next)' /\ (u \notin detoured' => next \in files)
<1> DEFINE path == ResolvePath(config, next)
<1>1. req[r] # Idle /\ req[r].pc = "exists"
  BY DEF Exists, Idle
<1>2. u \in Users /\ next \in Own(u) /\ next # None
  BY <1>1, GoesOn DEF TypeOK, Fits
<1>3. config' = config /\ files \subseteq Keys
  BY DEF Exists, TypeOK
<1>4. CASE next \in Keys
  <2>1. path = next /\ next \in KeysOf(u)
    BY <1>2, <1>4, KeyPath, OtherShape DEF Own
  <2>2. ~ IsDirectory(next)
    BY <1>4, OtherShape DEF IsDirectory, Others
  <2>3. detoured' = detoured
    BY <1>4 DEF Exists
  <2>4. Known(u, next)'
    BY <2>1 DEF Known, KeysOf
  <2> QED
    BY <2>1, <2>2, <2>3, <2>4 DEF Exists
<1>5. CASE next \notin Keys
  <2>1. next \notin files
    BY <1>3, <1>5
  <2>2. CASE path \in files \/ IsDirectory(next)
    <3>1. Goto(r, "delete")
      BY <2>2 DEF Exists
    <3>2. /\ detoured \subseteq detoured' /\ u \in detoured'
          /\ \A v \in Users : path \in KeysOf(v) => v \in detoured'
      BY <1>2, <1>5, <2>2 DEF Exists
    <3>3. Known(u, next)'
      BY <1>3, <3>2 DEF Known, KeysOf
    <3> QED
      BY <3>1, <3>2, <3>3
  <2>3. CASE ~ (path \in files \/ IsDirectory(next))
    BY <2>1, <2>3 DEF Exists
  <2> QED
    BY <2>2, <2>3
<1> QED
  BY <1>4, <1>5

LEMMA ExistsSerial ==
  ASSUME TypeOK, SerialInv, serial, NEW r \in Requests, Exists(r)
  PROVE  SerialInv'
<1> PICK u, next : u = req[r].user /\ next = req[r].next
  OBVIOUS
<1>1. req[r] # Idle /\ req[r].pc = "exists"
  BY DEF Exists, Idle
<1>2. /\ req[r] \in InProgress /\ u \in Users /\ Fits(req[r])
      /\ \A x \in Requests : x # r => req[x] = Idle
      /\ \A v \in Users : Known(v, avatar[v]) /\ (v # u => Settled(v))
  BY <1>1, GoesOn
<1>3. UNCHANGED <<config, avatar, files, chosen, torn>>
  BY DEF Exists
<1>4. detoured \subseteq detoured'
  BY ExistsFinds
<1>5. \A v \in Users : Known(v, avatar[v])' /\ (Settled(v) => Settled(v)')
  BY <1>2, <1>3, <1>4 DEF Known, Settled
<1>6. CASE /\ Goto(r, "delete") /\ Known(u, next)'
           /\ u \notin detoured' => next \in files
  <2>1. /\ req'[r] # Idle /\ req'[r].pc = "delete" /\ req'[r].user = u
        /\ req'[r].previous = req[r].previous /\ req'[r].next = next
        /\ req'[r].sets = req[r].sets
        /\ \A x \in Requests : x # r => req'[x] = req[x]
    BY <1>2, <1>6, GotoFields
  <2>2. u \notin detoured' => chosen[u] = next /\ next \in files
    BY <1>1, <1>2, <1>6 DEF Fits
  <2>3. Fits(req[r])'
    BY <1>1, <1>2, <1>3, <1>4, <1>6, <2>1, <2>2 DEF Fits
  <2> QED
    BY <1>2, <1>5, <2>1, <2>3, OneRequest
<1>7. CASE End(r) /\ next \notin files
  <2>1. req'[r] = Idle /\ \A x \in Requests : x # r => req'[x] = req[x]
    BY <1>7, EndFields
  <2>2. Settled(u)
    BY <1>1, <1>2, <1>7 DEF Fits, Settled
  <2> QED
    BY <1>2, <1>5, <2>1, <2>2, OneRequest
<1> QED
  BY <1>6, <1>7, ExistsFinds

LEMMA DeleteSerial ==
  ASSUME TypeOK, SerialInv, NEW r \in Requests, DeletePrevious(r)
  PROVE  SerialInv'
<1> PICK u, next : u = req[r].user /\ next = req[r].next
  OBVIOUS
<1>1. req[r] # Idle /\ req[r].pc = "delete"
  BY DEF DeletePrevious, Idle
<1>2. /\ req[r] \in InProgress /\ u \in Users /\ Fits(req[r])
      /\ \A x \in Requests : x # r => req[x] = Idle
      /\ \A v \in Users : Known(v, avatar[v]) /\ (v # u => Settled(v))
  BY <1>1, GoesOn
<1>3. req[r].previous = avatar[u]
  BY <1>2 DEF Fits
<1>4. /\ UNCHANGED <<config, avatar, chosen, torn, detoured>>
      /\ \/ avatar[u] = next /\ files' = files
         \/ avatar[u] # next /\ files' = files \ Deleted(avatar[u])
  BY <1>3 DEF DeletePrevious
<1>5. /\ req'[r] # Idle /\ req'[r].pc = "save" /\ req'[r].user = u
      /\ req'[r].previous = req[r].previous /\ req'[r].next = next
      /\ req'[r].sets = req[r].sets
      /\ \A x \in Requests : x # r => req'[x] = req[x]
  BY <1>2, GotoFields DEF DeletePrevious
<1>6. /\ Known(u, next) /\ req[r].sets
      /\ u \notin detoured => chosen[u] = next /\ next \in files \cup {None}
  BY <1>1, <1>2 DEF Fits
<1>7. ASSUME NEW v \in Users \ detoured, NEW k \in KeysOf(v), k \in files,
             v # u \/ k = next
      PROVE  k \in files'
  <2>1. k \in Deleted(avatar[u]) => u = v /\ k = avatar[u]
    BY <1>2, <1>7, KnownPath
  <2> QED
    BY <1>4, <1>7, <2>1
<1>8. \A v \in Users : Known(v, avatar[v])' /\ Known(u, next)'
  BY <1>2, <1>4, <1>6 DEF Known
<1>9. ASSUME u \notin detoured PROVE next \in files' \cup {None}
  <2>1. next \in KeysOf(u) \cup {None}
    BY <1>6, <1>9 DEF Known
  <2> QED
    BY <1>2, <1>6, <1>7, <1>9, <2>1
<1>10. Fits(req[r])'
  BY <1>2, <1>3, <1>4, <1>5, <1>6, <1>8, <1>9 DEF Fits
<1>11. ASSUME NEW v \in Users, v # u PROVE Settled(v)'
  <2>1. v \notin torn \cup detoured => avatar[v] \in KeysOf(v) \cup {None}
    BY <1>2 DEF Known
  <2>2. Settled(v)
    BY <1>2, <1>11
  <2> QED
    BY <1>4, <1>7, <1>11, <2>1, <2>2 DEF Settled
<1> QED
  BY <1>2, <1>5, <1>8, <1>10, <1>11, OneRequest

LEMMA SaveSerial ==
  ASSUME TypeOK, SerialInv, NEW r \in Requests, Save(r)
  PROVE  SerialInv'
<1>1. req[r] # Idle /\ req[r].pc = "save"
  BY DEF Save, Idle
<1>2. PICK u \in Users : req[r].user = u
  BY <1>1, GoesOn
<1>3. /\ req[r] \in InProgress /\ Fits(req[r])
      /\ \A x \in Requests : x # r => req[x] = Idle
      /\ \A v \in Users : Known(v, avatar[v]) /\ (v # u => Settled(v))
  BY <1>1, <1>2, GoesOn
<1>4. /\ UNCHANGED <<config, files, chosen, detoured>>
      /\ avatar' = [avatar EXCEPT ![u] = req[r].next]
      /\ torn' = IF req[r].sets THEN torn \ {u} ELSE torn
  BY <1>2 DEF Save
<1>5. /\ avatar'[u] = req[r].next
      /\ \A v \in Users : v # u =>
           avatar'[v] = avatar[v] /\ (v \in torn' <=> v \in torn)
  BY <1>2, <1>3, <1>4 DEF TypeOK
<1>6. Settled(u)'
  BY <1>1, <1>2, <1>3, <1>4, <1>5 DEF Fits, Settled
<1>7. \A v \in Users : v # u => Settled(v)'
  BY <1>2, <1>3, <1>4, <1>5 DEF Settled
<1>8. req'[r] = Idle /\ \A x \in Requests : x # r => req'[x] = req[x]
  BY EndFields DEF Save
<1>9. Known(u, req[r].next)
  BY <1>1, <1>2, <1>3 DEF Fits
<1>10. \A v \in Users : Known(v, avatar[v])'
  BY <1>3, <1>4, <1>5, <1>9 DEF Known
<1> QED
  BY <1>3, <1>6, <1>7, <1>8, <1>10, OneRequest

LEMMA AbortSerial ==
  ASSUME TypeOK, SerialInv, serial, NEW r \in Requests, Abort(r)
  PROVE  SerialInv'
<1>1. req[r] # Idle
  BY DEF Abort
<1>2. PICK u \in Users : req[r].user = u
  BY <1>1, GoesOn
<1>3. /\ req[r] \in InProgress /\ Fits(req[r])
      /\ \A x \in Requests : x # r => req[x] = Idle
      /\ \A v \in Users : Known(v, avatar[v]) /\ (v # u => Settled(v))
  BY <1>1, <1>2, GoesOn
<1>4. /\ UNCHANGED <<config, files, avatar, detoured>>
      /\ chosen' = [chosen EXCEPT ![u] = avatar[u]]
      /\ torn' = IF req[r].pc = "save" /\ avatar[u] \notin files \cup {None}
                 THEN torn \cup {u} ELSE torn
  BY <1>2 DEF Abort
<1>5. /\ chosen'[u] = avatar[u]
      /\ \A v \in Users : v # u =>
           chosen'[v] = chosen[v] /\ (v \in torn' <=> v \in torn)
  BY <1>2, <1>3, <1>4 DEF TypeOK
<1>6. Settled(u)'
  <2>1. req[r].pc \in {"exists", "delete", "save"}
    BY <1>3 DEF InProgress
  <2> QED
    BY <1>2, <1>3, <1>4, <1>5, <2>1 DEF Fits, Settled
<1>7. \A v \in Users : v # u => Settled(v)'
  BY <1>2, <1>3, <1>4, <1>5 DEF Settled
<1>8. req'[r] = Idle /\ \A x \in Requests : x # r => req'[x] = req[x]
  BY EndFields DEF Abort
<1>9. \A v \in Users : Known(v, avatar[v])'
  BY <1>3, <1>4 DEF Known
<1> QED
  BY <1>3, <1>6, <1>7, <1>8, <1>9, OneRequest

LEMMA SerialStep ==
  TypeOK /\ (serial => SerialInv) /\ [Next]_vars => (serial => SerialInv)'
<1> SUFFICES ASSUME TypeOK, serial => SerialInv, [Next]_vars, serial'
             PROVE  SerialInv'
  OBVIOUS
<1>1. serial
  <2>1. ASSUME NEW u \in Users, NEW f \in Files, Upload(u, f) PROVE serial
    BY <2>1 DEF Upload
  <2>2. ASSUME NEW r \in Requests, RequestStep(r) PROVE serial
    BY <2>2 DEF RequestStep, BeginSetAvatar, BeginSetOther, BeginWith,
       BeginClearAvatar, BeginOther, Begin, Exists, DeletePrevious, Save, Abort
  <2> QED
    BY <2>1, <2>2 DEF Next, RequestStep, vars
<1>2. ASSUME NEW u \in Users, NEW f \in Files, Upload(u, f) PROVE SerialInv'
  <2>1. /\ UNCHANGED <<config, avatar, req, chosen, torn, detoured>>
        /\ files \subseteq files' /\ \A r \in Requests : req[r] = Idle
    BY <1>1, <1>2 DEF Upload
  <2>2. \A v \in Users : Settled(v)' /\ Known(v, avatar[v])'
    BY <1>1, <2>1 DEF SerialInv, Busy, Settled, Known
  <2> QED
    BY <2>1, <2>2 DEF SerialInv, Alone
<1>3. ASSUME NEW r \in Requests, RequestStep(r) PROVE SerialInv'
  BY <1>1, <1>3, SetAvatarSerial, SetOtherSerial, OtherBeginsSerial,
     ExistsSerial, DeleteSerial, SaveSerial, AbortSerial DEF RequestStep
<1>4. CASE UNCHANGED vars
  <2>1. UNCHANGED <<config, files, avatar, req, chosen, torn, detoured>>
    BY <1>4 DEF vars
  <2>2. /\ Alone' /\ \A u \in Users : Busy(u) <=> Busy(u)'
    BY <1>1, <2>1 DEF SerialInv, Alone, Busy
  <2>3. /\ \A u \in Users : Settled(u) => Settled(u)'
        /\ \A u \in Users : Known(u, avatar[u]) => Known(u, avatar[u])'
        /\ \A r \in Requests : Fits(req[r]) => Fits(req[r])'
    BY <2>1 DEF Fits, Settled, Known
  <2> QED
    BY <1>1, <2>1, <2>2, <2>3 DEF SerialInv
<1> QED
  BY <1>2, <1>3, <1>4 DEF Next, RequestStep

(* As long as requests do not overlap, the avatar of a user is the last    *)
(* one that was chosen and accepted, and its file exists, but for a user   *)
(* whose request died between the delete and the save of updateProfile,    *)
(* and for those who made an avatar of another key than upload's, or to    *)
(* whose file that led.                                                    *)
THEOREM SerialAvatars == Spec => []AvatarsAreAsChosen
<1>1. Init => (serial => SerialInv)
  BY DEF Init, SerialInv, Alone, Settled, Known
<1>2. (serial => SerialInv) => AvatarsAreAsChosen
  BY DEF SerialInv, Busy, Settled, AvatarsAreAsChosen
<1>3. TypeOK /\ (serial => SerialInv) /\ [Next]_vars => (serial => SerialInv)'
  BY SerialStep
<1> QED
  BY <1>1, <1>2, <1>3, TypeCorrect, PTL DEF Spec
=============================================================================
