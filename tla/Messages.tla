------------------------------- MODULE Messages -------------------------------
(***************************************************************************)
(* The messages of RSIM's memory system (src/incl/MemSys/req.h): one REQ   *)
(* record travels from a cache to the home directory, to another cache and *)
(* back, its type and req_type rewritten on the way.                       *)
(***************************************************************************)
EXTENDS FiniteSets

CONSTANTS
  Nodes,     \* the nodes of the machine; each has one cache hierarchy
  Lines,     \* the memory lines (tags) whose home is the directory
  MSI,       \* TRUE when CCProtocol = MSI, FALSE for MESI
  NULL       \* the null pointer, and node number -1

ASSUME NodesAssumption == IsFiniteSet(Nodes) /\ IsFiniteSet(Lines)
ASSUME NullAssumption == NULL \notin Nodes /\ NULL \notin Lines
ASSUME ProtocolAssumption == MSI \in BOOLEAN

ReqTypes  == {"READ_SH", "READ_OWN", "UPGRADE"}
DataTypes == {"REPLY_SH", "REPLY_EXCL", "REPLY_UPGRADE", "REPLY_EXCLDY"}
CoheTypes == {"COPYBACK", "COPYBACK_INVL", "INVL"}
WrbTypes  == {"WRB", "REPL"}

(* A REQ.  node is the cache at the other end of the transaction: the      *)
(* source of a REQUEST or COHE_REPLY, the target of a REPLY or COHE (the   *)
(* directory's own node is the other one of src_node and dest_node).       *)
(* isreq tells a processor's own REQ object from the objects that the      *)
(* directory and the caches allocate for coherence and acknowledgments.    *)
REQ == [type         : {"REQUEST", "REPLY", "COHE", "COHE_REPLY"},
        req_type     : ReqTypes \cup DataTypes \cup CoheTypes \cup WrbTypes,
        reply        : {"REPLY", "RAR", "NACK", "NACK_PEND"},
        nack_st      : {"NACK_OK", "NACK_NOK"},
        node         : Nodes,
        tag          : Lines,
        forward_to   : Nodes \cup {NULL},
        preprocessed : BOOLEAN,
        isreq        : BOOLEAN]
=============================================================================
