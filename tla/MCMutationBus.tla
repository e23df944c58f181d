---------------------------- MODULE MCMutationBus ----------------------------
(* Small instance of MutationBus: a group of an event and a versioned       *)
(* upsert for a task, a batch that submits that event and that key again    *)
(* and one more event, and an event of the EventWriteBuffer.                *)
EXTENDS MutationBus

CONSTANTS group, batch, buffer, k, e, f, t

Intent(op, key, claimed, flush, task) ==
    [op |-> op, key |-> key, claimed |-> claimed, flush |-> flush, task |-> task]

MCProgram == [c \in Callers |->
    CASE c = group  -> <<Intent("event", e, 0, FALSE, t),
                         Intent("upsert", k, 1, FALSE, t)>>
      [] c = batch  -> <<Intent("event", e, 0, FALSE, NoTask),
                         Intent("upsert", k, 1, FALSE, NoTask),
                         Intent("event", f, 0, FALSE, NoTask)>>
      [] c = buffer -> <<Intent("emit", e, 0, TRUE, NoTask)>>]
=============================================================================
