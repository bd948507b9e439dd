--------------------------- MODULE MCAvatarStorage ---------------------------
EXTENDS AvatarStorage, TLC

DefaultBaseUrl == Text(None, 1, <<"storage", "local">>)
Endpoint == Text("http://minio:9000", 0, <<>>)
PublicBaseUrls ==
  {Text("https://cdn", 0, <<>>), Text("https://cdn", 1, <<"crm">>)}

MCConfigs ==
  {Local(DefaultBaseUrl)}
    \cup {S3(prefix, None, None) : prefix \in {<<>>, <<"crm">>}}
    \cup {S3(<<>>, Endpoint, None)}
    \cup {S3(<<>>, Endpoint, publicBaseUrl) : publicBaseUrl \in PublicBaseUrls}

(* A storage with the S3 protocol elsewhere than at Amazon.                *)
EndpointConfigs == {S3(<<>>, Endpoint, None)}

Symmetry == Permutations(Users) \cup Permutations(Requests)
=============================================================================
