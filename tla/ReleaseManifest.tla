---------------------------- MODULE ReleaseManifest ----------------------------
(* The signed manifest of a release (src/shared/release-manifest.ts): which    *)
(* keys a build trusts, which manifests it accepts, and what it may install.   *)
(* Bytes, digests and Ed25519 are abstract: a file is its digest, and a        *)
(* signature is the key that made it.  Which gate refused first is only logged. *)
LOCAL INSTANCE Naturals

NoId == ""
FormatVersion == 1    \* MANIFEST_FORMAT_VERSION
UpdateProtocol == 1   \* UPDATE_PROTOCOL_VERSION
Release == 0          \* no prerelease tag

-----------------------------------------------------------------------------
(* The key file: a sequence of [keyId, key, public, retired], where `public` says *)
(* that the text of the key is a public key and nothing else.                     *)

Usable(entry) == entry.keyId # NoId /\ entry.public

\* Kept: the first usable entry of its id.  Every other entry is a problem.
Kept(entries, i) ==
  /\ Usable(entries[i])
  /\ \A j \in 1..(i - 1) : Usable(entries[j]) => entries[j].keyId # entries[i].keyId

\* parseTrustedKeys(), and startUpdates(), which trusts no key of a file with a problem.
TrustedKeys(entries) ==
  IF \A i \in DOMAIN entries : Kept(entries, i)
    THEN {entries[i] : i \in DOMAIN entries}
    ELSE {}

-----------------------------------------------------------------------------
(* A manifest is accepted: s is [manifest, wellFormed, decodes, signer], c the *)
(* VerificationContext.                                                        *)

\* The id only selects the keys to try; retired ones are not tried.
SignatureHolds(s, keys) ==
  /\ s.decodes
  /\ \E k \in keys : k.keyId = s.manifest.keyId /\ ~k.retired /\ k.key = s.signer

Understood(m) ==
  m.manifestFormatVersion = FormatVersion /\ m.minimumUpdateProtocolVersion <= UpdateProtocol

\* The target is the application, the platform and the architecture.
IntendedHere(m, c) == m.target = c.target /\ m.channel \in c.acceptedChannels

IsCandidate(m, c) == m.releaseVersion = c.candidate /\ m.tag = c.candidate

\* Mutant of Newer: off by one, the sequence accepted last passes again.
NewerOrSame(m, c) == m.releaseSequence >= c.highestAcceptedSequence
Newer(m, c) == m.releaseSequence > c.highestAcceptedSequence

CanRead(m, c) == c.writableDbSchema \in m.readableDbSchemaMin..m.readableDbSchemaMax

\* The metadata file and every artifact are in the release.
Complete(m, c) ==
  {a.fileName : a \in m.artifacts} \cup {m.updaterMetadataFileName} \subseteq c.availableArtifactNames

VerifyManifest(s, c) ==
  /\ SignatureHolds(s, c.trustedKeys)
  /\ s.wellFormed
  /\ Understood(s.manifest) /\ IntendedHere(s.manifest, c) /\ IsCandidate(s.manifest, c)
  /\ Newer(s.manifest, c) /\ CanRead(s.manifest, c) /\ Complete(s.manifest, c)

-----------------------------------------------------------------------------
\* The file is one the manifest names, with the digest it names.
VerifyArtifactBytes(fileName, digest, m) ==
  \E a \in m.artifacts : a.fileName = fileName /\ a.digest = digest

\* compareSemver() < 0.  A version is <<major, minor, patch, prerelease>>.
Older(a, b) ==
  \/ \E i \in 1..3 : a[i] < b[i] /\ \A j \in 1..(i - 1) : a[j] = b[j]
  \/ /\ \A i \in 1..3 : a[i] = b[i]
     /\ a[4] # Release /\ (b[4] = Release \/ a[4] < b[4])

\* requiredIntermediateVersion is the set of the version required, if one is.
IsDirectUpgradePermitted(m, installed) ==
  \A v \in {m.minimumSupportedAppVersion} \cup m.requiredIntermediateVersion : ~Older(installed, v)
=============================================================================
