----------------------------- MODULE LockRules -----------------------------
(***************************************************************************)
(* The checks of scripts/artifacts.py on lock inputs and locks.  A string  *)
(* is a value about which the constants say what its pattern would; a size *)
(* and a SHA-256 are the content they fit, or Malformed; so is an epoch.   *)
(* A document is Garbage when it is no JSON object with exactly the        *)
(* required fields, types, schema and bundle version.                      *)
(***************************************************************************)
EXTENDS Naturals, Sequences, Functions

CONSTANTS Rank,       \* the position of a NEVRA or a filename in string order
          SafeNames,  \* filenames that FILENAME_RE matches
          RpmNames,   \* ... that end in .rpm
          SrpmNames,  \* ... that end in .src.rpm
          PgNames,    \* package names that begin with postgresql18
          PgSrpms,    \* source filenames that begin with postgresql18-
          Fingerprints, Malformed, Garbage, Absent

ASSUME RulesAssumption ==
  {"postgresql18", "postgresql18-libs", "postgresql18-server"} \subseteq PgNames

Archs == {"amd64", "arm64"}
RpmArch == [amd64 |-> "x86_64", arm64 |-> "aarch64"]
Roles == {"builder", "runtime"}
PgHost == "download.postgresql.org"
PgSourceHost == "dnf-srpms.postgresql.org"
UbiHost == "cdn-ubi.redhat.com"
Hosts == {PgHost, PgSourceHost, UbiHost, "security.access.redhat.com"}
Required == {"postgresql18", "postgresql18-libs", "postgresql18-server"}

(* A URL is its host and its last path component; one that validate_url    *)
(* refuses for any reason has the host "other".                            *)
ApprovedUrl(u) == u.host \in Hosts

(* A base reference: whose prefix it has, and the digest after the "@".    *)
ApprovedBase(reference, role) ==
  reference.role = role /\ reference.digest # Malformed

(* No two items of a sequence agree in this field; they are sorted by it.  *)
Distinct(s, field) == \A i, j \in DOMAIN s : s[i][field] = s[j][field] => i = j
Sorted(s, field) ==
  \A i, j \in DOMAIN s : i < j => Rank[s[i][field]] <= Rank[s[j][field]]

(* The input form of a key has no filename; both documents may use either. *)
KeyFile(k) == IF k.filename = Absent THEN k.url.file ELSE k.filename

(* Mutant: two keys may have one filename.                                 *)
ValidKeysSharedName(keys) ==
  /\ keys # <<>>
  /\ \A k \in Range(keys) :
       /\ KeyFile(k) \in SafeNames /\ ApprovedUrl(k.url)
       /\ k.digest # Malformed /\ k.fingerprint \in Fingerprints
  /\ Distinct(keys, "id") /\ Distinct(keys, "fingerprint")

ValidKeys(keys) ==
  /\ keys # <<>>
  /\ \A k \in Range(keys) :
       /\ KeyFile(k) \in SafeNames /\ ApprovedUrl(k.url)
       /\ k.digest # Malformed /\ k.fingerprint \in Fingerprints
  /\ Distinct(keys, "id") /\ Distinct(keys, "fingerprint")
  /\ \A i, j \in DOMAIN keys : KeyFile(keys[i]) = KeyFile(keys[j]) => i = j

ValidInputs(d) ==
  /\ d # Garbage
  /\ \A role \in Roles : ApprovedBase(d.bases[role], role)
  /\ \A a \in Archs :
       /\ Len(d.seeds[a]) = 3
       /\ \A s \in Range(d.seeds[a]) : ApprovedUrl(s.url) /\ s.digest # Malformed
  /\ ValidKeys(d.keys)

Nevra(p) == <<p.name, p.epoch, p.version, p.release, p.architecture>>

ValidPackage(p, l) ==
  /\ p.epoch # Malformed /\ p.architecture \in {RpmArch[l.architecture], "noarch"}
  /\ p.nevra = Nevra(p)
  /\ p.filename \in RpmNames /\ ApprovedUrl(p.url) /\ p.digest # Malformed
  /\ \E k \in Range(l.keys) : k.fingerprint = p.fingerprint
  /\ p.source \in SrpmNames
  /\ IF p.name \in PgNames
       THEN /\ p.version = l.postgresql /\ <<p.version, p.release>> = l.rpm
            /\ p.repository = "pgdg-18" /\ p.url.host = PgHost
       ELSE p.repository = "ubi" /\ p.url.host = UbiHost

ValidSource(s) ==
  /\ s.filename \in SrpmNames /\ ApprovedUrl(s.url) /\ s.digest # Malformed
  /\ IF s.filename \in PgSrpms
       THEN s.repository = "pgdg-18-source" /\ s.url.host = PgSourceHost
       ELSE s.repository = "ubi-source" /\ s.url.host = UbiHost

(* Mutant: one PostgreSQL package is enough.                               *)
ContentsAnyPostgres(l) ==
  /\ l.packages # <<>> /\ l.sources # <<>>
  /\ {p.source : p \in Range(l.packages)} \subseteq {s.filename : s \in Range(l.sources)}
  /\ Required \cap {p.name : p \in Range(l.packages)} # {}

(* Every source of a package is there, and the three packages.             *)
Contents(l) ==
  /\ l.packages # <<>> /\ l.sources # <<>>
  /\ {p.source : p \in Range(l.packages)} \subseteq {s.filename : s \in Range(l.sources)}
  /\ Required \subseteq {p.name : p \in Range(l.packages)}

ValidLock(l) ==
  /\ l # Garbage
  /\ l.architecture \in Archs
  /\ \A role \in Roles :
       /\ ApprovedBase(l.bases[role].reference, role)
       /\ l.bases[role].digest = l.bases[role].reference.digest
       /\ l.bases[role].platform = l.architecture
  /\ ValidKeys(l.keys)
  /\ \A p \in Range(l.packages) : ValidPackage(p, l)
  /\ Distinct(l.packages, "filename") /\ Distinct(l.packages, "nevra")
  /\ Sorted(l.packages, "nevra")
  /\ \A s \in Range(l.sources) : ValidSource(s)
  /\ Distinct(l.sources, "filename") /\ Sorted(l.sources, "filename")
  /\ Contents(l)

(* lock_files with sources: where a bundle keeps a file, and its content.  *)
Listing(dir, s) == {[path |-> <<dir, x.filename>>, content |-> x.digest] : x \in Range(s)}
LockFiles(l) == Listing("keys", l.keys) \cup Listing("rpms", l.packages)
                  \cup Listing("srpms", l.sources)

=============================================================================
