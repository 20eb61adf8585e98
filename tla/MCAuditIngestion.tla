-------------------------- MODULE MCAuditIngestion --------------------------
(***************************************************************************)
(* AuditIngestion for TLC.  A digest is the previous digest followed by    *)
(* what identifies the event, so equal hashes mean equal histories.        *)
(***************************************************************************)
EXTENDS AuditIngestion, TLC

CONSTANTS d1, d2, t1, t2, p1, r1

MCNoHash == << >>

MCDevices == {d1, d2}

MCDigest(c) ==
  Append(c.previous, <<c.uuid, c.sequence, c.code, c.policy, c.revision, c.metadata>>)

Event(uuid, sequence, previous, code, policy, revision, metadata) ==
  LET content == [uuid |-> uuid, sequence |-> sequence, code |-> code, policy |-> policy,
                  revision |-> revision, metadata |-> metadata, previous |-> previous]
  IN  content @@ [hash |-> MCDigest(content)]

Boot(uuid, sequence, previous) ==
  Event(uuid, sequence, previous, "boot_observed", NoIdentity, NoIdentity, {})

Blocked(uuid, sequence, previous, metadata) ==
  Event(uuid, sequence, previous, "web_filter_blocked", p1, r1, metadata)

\* What a client that keeps the contract makes of its events.
Batch(uuid, device, events) ==
  LET n == Len(events) IN
  [uuid |-> uuid, device |-> device, signer |-> device, events |-> events,
   first |-> events[1].sequence, last |-> events[n].sequence,
   prev |-> events[1].previous, final |-> events[n].hash]

a == Boot("a", 1, << >>)
b == Blocked("b", 2, a.hash, {"domain_hash"})
c == Boot("c", 3, b.hash)

\* An event that names a policy but no revision of it.
Unpaired == Event("x", 2, a.hash, "boot_observed", p1, NoIdentity, {})

\* d1 has recorded a, b, c.  u1 and u2 are its regular uploads; u3 is the same
\* evidence cut differently after the client lost its outbox; the second u1
\* reuses a UUID; u4 starts a new chain after the application data was cleared;
\* u7 holds one event UUID twice; u6, a first batch of d2, claims the UUID of an
\* event that d1 has recorded.  The rest is refused whatever is stored: u8 skips
\* a number, u9 ends elsewhere than it claims, u10 names the domain, u11 pairs no
\* revision with its policy, and d2 signed u12 for d1.
MCPayloads ==
  { Batch("u1", d1, <<a>>),
    Batch("u2", d1, <<b, c>>),
    Batch("u3", d1, <<a, b>>),
    Batch("u4", d1, <<Boot("r", 1, << >>)>>),
    Batch("u1", d1, <<b>>),
    Batch("u7", d1, <<b, Boot("b", 3, b.hash)>>),
    Batch("u6", d2, <<Boot("a", 1, << >>)>>),
    Batch("u8", d1, <<a, c>>),
    [Batch("u9", d1, <<a, b>>) EXCEPT !.last = 3],
    Batch("u10", d1, <<a, Blocked("x", 2, a.hash, {"domain"})>>),
    Batch("u11", d1, <<a, Unpaired>>),
    [Batch("u12", d1, <<a>>) EXCEPT !.signer = d2] }

=============================================================================
