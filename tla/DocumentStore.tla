---------------------------- MODULE DocumentStore ----------------------------
(***************************************************************************)
(* The document store as Harbor's services see it: platform's `Store` over *)
(* MongoDB behind the generic `Service` trait.                             *)
(*                                                                         *)
(* A collection is the sequence of its documents in insertion order, and a *)
(* document's position stands for its `id`: Service::insert gives every    *)
(* document a fresh Uuid, and nothing removes a document from any of the   *)
(* collections the command line tasks write.  There are no transactions,   *)
(* no unique indexes and no locks: one operator below is one atomic step   *)
(* of the server, and whatever a caller does between two of them can       *)
(* interleave with another process.                                        *)
(***************************************************************************)
EXTENDS Naturals, Sequences

\* The empty string every entity carries in `id` until it has been inserted.
NoId == 0

\* Store::query: the ids of the documents whose fields equal every field of the
\* filter.  A filter names top-level document fields as they are stored, and a
\* document that lacks a named field does not match.
Query(coll, filter) ==
  {i \in DOMAIN coll :
     \A f \in DOMAIN filter : f \in DOMAIN coll[i] /\ coll[i][f] = filter[f]}

\* What a query returns: the matching documents together with their ids.
Documents(coll, filter) ==
  {[id |-> i, doc |-> coll[i]] : i \in Query(coll, filter)}

\* Service::insert refuses a document that already carries an id.
InsertAccepts(id) == id = NoId

\* Service::insert and Store::insert: the document appears under a fresh id.
Insert(coll, doc) == Append(coll, doc)

\* Service::update finds the document by id and refuses when there is none.
UpdateAccepts(coll, id) == id \in DOMAIN coll

\* Store::update: $set of every field of the entity, so whatever the document held
\* before is overwritten by what the caller brings.  That includes the fields that are
\* None: the entities name skip_serializing_none below their derive(Serialize), where
\* it comes too late, and None is written as null.
Update(coll, id, doc) == [coll EXCEPT ![id] = doc]
==============================================================================
