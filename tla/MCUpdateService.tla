--------------------------- MODULE MCUpdateService ---------------------------
(* Version 1.0.0 is installed; releases 2 and 3 are published one after the   *)
(* other.  The publisher signs with the key "new"; "old" is retired, and      *)
(* "foreign" is another maintainer's key that was given the same id.          *)
EXTENDS UpdateService, Sequences

Entry(id, key, retired) == [keyId |-> id, key |-> key, public |-> TRUE, retired |-> retired]
Good == <<Entry("cw-old", "old", TRUE), Entry("cw", "new", FALSE)>>
MCKeyFiles ==
  {Good, Append(Good, Entry("cw", "foreign", FALSE)), <<>>,
   Append(Good, [Entry("cw-next", "next", FALSE) EXCEPT !.public = FALSE])}

Metadata == 0  \* latest.yml; an installer is named after its release

Manifest(r) ==
  [keyId |-> "cw", manifestFormatVersion |-> 1, minimumUpdateProtocolVersion |-> 1,
   target |-> "windows", channel |-> "stable", releaseVersion |-> r, tag |-> r, releaseSequence |-> r,
   readableDbSchemaMin |-> 1, readableDbSchemaMax |-> 2, updaterMetadataFileName |-> Metadata,
   artifacts |-> {[fileName |-> r, digest |-> r]},
   minimumSupportedAppVersion |-> <<0, 9, 0, 0>>, requiredIntermediateVersion |-> {}]

\* One manifest that is accepted, one that is not for this build, and one that
\* may not be installed directly; one signature by each key, and no signature.
MCServed ==
  [r \in Releases |->
     {Manifest(r),
      [Manifest(r) EXCEPT !.target = "linux", !.readableDbSchemaMin = 2],
      [Manifest(r) EXCEPT !.requiredIntermediateVersion = {<<1, 0, 1, 0>>}]}]

MCSignatures ==
  {[decodes |-> k # NoId, wellFormed |-> TRUE, signer |-> k] : k \in {"new", "old", "foreign", NoId}}

MCListings == [r \in Releases |-> {{r, Metadata}, {r}}]

MCBuild ==
  [target |-> "windows", acceptedChannels |-> {"stable"}, writableDbSchema |-> 1,
   version |-> <<1, 0, 0, 0>>, publisher |-> "new"]
=============================================================================
