---------------------------- MODULE MCExtraction -----------------------------
(* Sources and requests for TLC: up to three members, of every kind, with      *)
(* sizes below, at and above the limits, colliding names and unsafe ones.      *)
EXTENDS Extraction

M(path, kind, size) ==
  [path |-> path, safe |-> TRUE, exact |-> TRUE, sealed |-> FALSE, kind |-> kind, size |-> size, ver |-> "old"]

\* Directories have one entry of a name.
Trees == {<<M(1, "file", a), M(2, k, 1)>> : a \in 0..3, k \in {"file", "directory", "symlink"}}
         \cup {<<M(1, "file", 2), M(2, "file", 2)>>}
Linked == {<<M(1, "file", 1), M(2, "linked", n)>> : n \in {1, 3}}

Archives == Trees \cup {
  <<M(1, "file", 1), [M(2, "file", 1) EXCEPT !.exact = FALSE]>>,
  <<M(1, "file", 1), [M(2, "file", 1) EXCEPT !.sealed = TRUE]>>,
  <<M(1, "file", 1), [M(2, "file", 1) EXCEPT !.safe = FALSE]>>,
  <<M(1, "file", 1), M(2, "file", 1), M(1, "file", 1)>>,
  <<M(1, "file", 1), M(2, "file", 1), M(1, "directory", 0)>>,
  <<M(1, "file", 1), M(2, "file", 2)>>}

W(path) == [path |-> path, safe |-> TRUE]
Requests == {<<W(1), W(2)>>, <<W(2), W(1)>>, <<W(1), W(3)>>, <<W(1), W(1)>>, <<[path |-> 2, safe |-> FALSE], W(1)>>}

S(adapter, form, members, wanted, valid) ==
  [adapter |-> adapter, form |-> form, members |-> members, wanted |-> wanted, valid |-> valid]

MCScenario ==
  {S(a, "directory", ms, w, TRUE) : a \in {"uac", "velociraptor"}, ms \in Trees \cup Linked, w \in Requests}
  \cup {S(a, "zip", ms, w, v) : a \in {"uac", "velociraptor"}, ms \in Archives, w \in Requests, v \in BOOLEAN}
  \cup {S("uac", "tar", ms, w, v) : ms \in {ms \in Archives : ~ms[2].sealed}, w \in Requests, v \in BOOLEAN}
  \cup {S("disk", "file", <<M(1, "file", n)>>, w, TRUE) : n \in 0..3, w \in Requests}

MCPath == 1..3
MCSize == {1, 3}
=============================================================================
