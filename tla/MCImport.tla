------------------------------ MODULE MCImport ------------------------------
(***************************************************************************)
(* EvidenceImport for TLC: two lanes, a manifest of the root and one of a  *)
(* lane, a key file, a file with an extension the lane does not take, an   *)
(* entry for a slot that no release freezes; more files than a lane may    *)
(* import and more findings than a report may hold.                        *)
(***************************************************************************)
EXTENDS EvidenceImport

SomeLanes ==
  << [id |-> "SCHEME-PROFILE", extensions |-> {"json", "txt"}],
     [id |-> "REPORT", extensions |-> {"json"}] >>

File(of, name, extension, id, slot) ==
  [lane |-> of, name |-> name, extension |-> extension, flaw |-> "none",
   private |-> FALSE, manifest |-> FALSE, id |-> id, slot |-> slot, field |-> {}]
Manifest(of, id, slot) ==
  [File(of, "manifest", "json", id, slot) EXCEPT !.manifest = TRUE]
Scheme == {"SCHEME-PROFILE"}
Report == {"REPORT"}

SomeFiles ==
  << Manifest({}, "", {}),
     File(Report, "trace", "json", "report.trace", {"trace_pack_hash"}),
     [File(Report, "trace.key", "key", "", {}) EXCEPT !.private = TRUE],
     Manifest(Scheme, "scheme.manifest", {"scheme_profile_hash"}),
     File(Scheme, "profile", "json", "scheme.profile", {"scheme_profile_hash"}),
     [File(Scheme, "q.private", "pem", "", {}) EXCEPT !.private = TRUE],
     File(Scheme, "r", "txt", "scheme.r", {"scheme_profile_hash"}) >>

Data(digest)     == [digest |-> digest, large |-> FALSE, entries |-> {}]
Texts(digest, m) == [digest |-> digest, large |-> FALSE, entries |-> {m}]
EntryOf(name, adapter, id, slot, expected, metadata) ==
  [name |-> name, directory |-> {}, adapter |-> adapter, id |-> id, slot |-> slot,
   field |-> {}, expected |-> expected, metadata |-> metadata]

Profile(expected) ==
  EntryOf("profile", Scheme, "approved", {"scheme_profile_hash"}, expected, TRUE)
Trace(id, expected) == EntryOf("trace", Report, id, {"trace_pack_hash"}, expected, FALSE)
Unbound   == [Trace("approved", {"d1"}) EXCEPT !.slot = {}]
Elsewhere == EntryOf("trace", {"LAB-TRACE"}, "lab", {}, {}, TRUE)
Undated == [Profile({"d2"}) EXCEPT !.metadata = FALSE, !.slot = {"profile_hash"}]
Moved == [Profile({"d1"}) EXCEPT !.adapter = Report, !.directory = Scheme]

SomeTargets == {"scheme_profile_hash", "trace_pack_hash", "config_bundle_hash"}

SomeContents ==
  << {Texts("m1", <<Profile({"d1"}), Trace("approved", {})>>), Texts("m2", <<Elsewhere>>),
      Texts("m3", <<Unbound>>), Data("m6")},
     {Data("d1"), Data("d2")},
     {Data("d1")},
     {Texts("m4", <<Undated>>), Texts("m5", <<Moved>>)},
     {Data("d1"), Data("d2"), [Data("d3") EXCEPT !.large = TRUE]},
     {Data("d1")},
     {Data("d2")} >>
=============================================================================
