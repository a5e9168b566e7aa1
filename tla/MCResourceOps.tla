--------------------------- MODULE MCResourceOps ---------------------------
(* ResourceOps on a small instance: a namespaced kind of the configured    *)
(* group and a namespaced core kind; manifests with and without namespace  *)
(* and apiVersion, one without a name; batches that mix good, bad and      *)
(* dry-run items; deletes with and without a namespace.                    *)
EXTENDS ResourceOps

MCNamespaced == [k \in { <<"eob.io", "Sink">>, <<"", "ConfigMap">> } |-> TRUE]

Manifest(group, api, kind, ns, name) ==
  [parses |-> TRUE, group |-> group, hasApiVersion |-> api, kind |-> kind, ns |-> ns,
   name |-> name]

Sink == Manifest("eob.io", TRUE, "Sink", "", "a")
BareSink == Manifest("", FALSE, "Sink", "", "a")
ConfigMap == Manifest("", TRUE, "ConfigMap", "shop", "a")
Nameless == Manifest("eob.io", TRUE, "Sink", "", "")

BatchItem(manifest, dryRun) == [manifest |-> manifest, dryRun |-> dryRun]
Batch(items, dryRun) == [items |-> items, dryRun |-> dryRun]

MCBatches ==
  { Batch(<< BatchItem(Sink, FALSE) >>, FALSE),
    Batch(<< BatchItem(Nameless, FALSE), BatchItem(BareSink, FALSE) >>, FALSE),
    Batch(<< BatchItem(ConfigMap, FALSE), BatchItem(Sink, FALSE) >>, TRUE) }

DeleteReq(group, kind, ns) == [group |-> group, kind |-> kind, ns |-> ns, name |-> "a"]
MCDeletes ==
  { DeleteReq("", "Sink", "default"), DeleteReq("", "Sink", ""), DeleteReq("", "ConfigMap", "shop") }
=============================================================================
