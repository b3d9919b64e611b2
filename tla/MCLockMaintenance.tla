------------------------- MODULE MCLockMaintenance -------------------------
(***************************************************************************)
(* An instance of LockMaintenance.  A content is named after what it is:   *)
(* <<name, version, architecture>>.  The repositories move from tzdata 1   *)
(* to tzdata 2 while jobs run.                                             *)
(***************************************************************************)
EXTENDS LockMaintenance, TLC

Order == <<"postgresql18", "postgresql18-libs",
           "postgresql18-server", "tzdata", "1", "2", "18.6", "18.7">>
Position(x) == CHOOSE i \in DOMAIN Order : Order[i] = x

RpmOf(n, v, a) == <<n, v, a>>
MCRpms == {RpmOf(n, v, RpmArch[a]) : n \in Required, v \in {"18.6", "18.7"}, a \in Archs}
            \cup {RpmOf("tzdata", v, "noarch") : v \in {"1", "2"}}
SourceOf(r) == <<IF r[1] = "tzdata" THEN "tzdata" ELSE "postgresql18", r[2], "src">>
MCMeta == [r \in MCRpms |->
  [name |-> r[1], epoch |-> "0", version |-> r[2], release |-> "1", architecture |-> r[3],
   filename |-> r, source |-> SourceOf(r),
   signer |-> IF r[1] = "tzdata" THEN <<"R">> ELSE <<"P">>,
   keyId |-> IF r[1] = "tzdata" THEN "r" ELSE "p"]]

MCSrpmNames == {SourceOf(r) : r \in MCRpms}
MCPgSrpms == {f \in MCSrpmNames : f[1] # "tzdata"}
MCRpmNames == MCRpms \cup MCSrpmNames
MCSafeNames == MCRpmNames \cup {<<"kp">>, <<"kr">>, <<"kt">>, <<"ku">>}
KeyIds == <<<<"pgdg">>, <<"redhat">>, <<"twin">>, <<"unused">>>>
Place(name, version) == 100 * Position(name) + Position(version)
MCRank ==
  [x \in MCRpmNames \cup {Nevra(MCMeta[r]) : r \in MCRpms} \cup Range(KeyIds) |->
     CASE x \in Range(KeyIds) -> CHOOSE i \in DOMAIN KeyIds : KeyIds[i] = x
       [] x \in MCRpmNames -> Place(x[1], x[2])
       [] OTHER -> Place(x[1], x[3])]
MCFingerprints == {<<"P">>, <<"R">>, <<"T">>, <<"U">>}
MCKeyId == [f \in MCFingerprints |->
              CASE f = <<"R">> -> "r" [] f = <<"U">> -> "u" [] OTHER -> "p"]

MCClosure == [n \in 1 .. LastState |-> [a \in Archs |->
                {RpmOf("tzdata", IF n = 1 THEN "1" ELSE "2", "noarch")}]]
MCListed == [n \in 1 .. LastState |->
  UNION {{Nevra(MCMeta[r]), SourceOf(r)} : r \in {q \in MCRpms : q[1] = "tzdata" /\ q \in MCClosure[n]["amd64"]}}]

Key(id, file, fingerprint) ==
  [id |-> id, filename |-> Absent, url |-> [host |-> PgHost, file |-> file],
   digest |-> fingerprint, fingerprint |-> fingerprint]
Pgdg == Key(KeyIds[1], <<"kp">>, <<"P">>)
Redhat == Key(KeyIds[2], <<"kr">>, <<"R">>)

Seeds(v) == [a \in Archs |->
  LET Seed(n) == LET r == RpmOf(n, v, RpmArch[a])
                 IN  [url |-> [host |-> PgHost, file |-> r], digest |-> r]
  IN  <<Seed("postgresql18"), Seed("postgresql18-libs"), Seed("postgresql18-server")>>]

Selection(v) ==
  [postgresql |-> v, rpm |-> <<v, "1">>, seeds |-> Seeds(v), keys |-> <<Pgdg, Redhat>>,
   bases |-> [role \in Roles |-> [role |-> role, digest |-> "d"]]]

(* Two seeds with one name; a key ID that two keys have; and a third key   *)
(* with a filename, but downloaded to the name of another key.             *)
OneName == [Selection("18.6") EXCEPT !.seeds["amd64"][1].url = Selection("18.6").seeds["amd64"][3].url]
Twins == [Selection("18.6") EXCEPT !.keys = <<Pgdg, Redhat, Key(KeyIds[3], <<"kt">>, <<"T">>)>>]
Unused == [id |-> KeyIds[4], filename |-> <<"ku">>, url |-> Pgdg.url,
           digest |-> <<"U">>, fingerprint |-> <<"U">>]
Replaced == [Selection("18.6") EXCEPT !.keys = <<Unused, Pgdg, Redhat>>]
MCInputDrafts == {Selection("18.6"), Selection("18.7"), OneName, Twins, Replaced}

LockOf(a, i) ==
  LET rows == {Row(File(r, r), i.keys) : r \in {s.digest : s \in Range(i.seeds[a])} \cup MCClosure[1][a]}
  IN  Rendered(a, i, CHOOSE s \in Arranged(rows, "nevra") : TRUE,
               CHOOSE s \in Arranged({SourceRow(p.source) : p \in rows}, "filename") : TRUE,
               <<RenderedKey(Pgdg), RenderedKey(Redhat)>>)
Base == LockOf("amd64", Selection("18.6"))

(* A lock edited by hand: a key without filename.                          *)
MCLockDrafts == {Garbage, [Base EXCEPT !.keys = <<Pgdg, RenderedKey(Redhat)>>]}

=============================================================================
