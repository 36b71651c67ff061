--------------------------- MODULE MCLayerResolver ---------------------------
(***************************************************************************)
(* Small instances of LayerResolver for TLC.                               *)
(***************************************************************************)
EXTENDS LayerResolver, TLC

CONSTANTS n1, n2, n3, k1, k2

\* n1 and n2 are two spellings ("sha256:x" and "x") of one digest.
MCKey == (n1 :> k1) @@ (n2 :> k1) @@ (n3 :> k2)

Entry(kind, path, data) == [kind |-> kind, path |-> path, data |-> data]

\* k1 names an archive with a path that occurs twice and a device; k2 names
\* one with a symlink; the third was damaged in the bucket.
MCArchives ==
    {[hash |-> k1, entries |-> <<Entry("reg", "f", "old"), Entry("device", "d", ""),
                                 Entry("reg", "f", "new")>>],
     [hash |-> k2, entries |-> <<Entry("reg", "f", "x"), Entry("symlink", "l", "")>>],
     [hash |-> "damaged", entries |-> <<Entry("reg", "g", "x")>>]}

Layer(n)  == [digest |-> n, host |-> ""]
OnHost(h) == [digest |-> None, host |-> h]

MCMountLists ==
    {<<Layer(n1)>>, <<Layer(n3), Layer(n1)>>, <<OnHost("there"), Layer(n1), Layer(n2)>>,
     <<OnHost("gone")>>}

AllFaults == FaultKinds
=============================================================================
