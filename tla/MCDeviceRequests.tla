--------------------------- MODULE MCDeviceRequests ---------------------------
\* Two threads, a registered device with a credential and one that is not
\* registered.  Each workload puts requests together that meet in the code.
EXTENDS DeviceRequests

CONSTANTS d1, d2, c1, c2, p1, p2, r1, r2, r3, r4

MCDevices == {d1, d2}
MCRows == {"device", "check_in", "acknowledgement", "sync_chain", "monday"} \X MCDevices
MCOwnerOf == [c \in {c1, c2} |-> d1]
MCPolicyOf == [r \in {r1, r2, r3, r4} |-> IF r \in {r3, r4} THEN p2 ELSE p1]
MCVersionOf == [r \in {r1, r2, r3, r4} |-> IF r \in {r2, r4} THEN 2 ELSE 1]

Signed(kind, credential, body) ==
  [kind |-> kind, device |-> d1, credential |-> credential, nonce |-> FreshNonce,
   stamp |-> 0, body |-> body]

CheckIn(uuid, observed, outcome, policy) ==
  Signed("check_in", c1,
         [uuid |-> uuid, observed |-> observed, policy |-> policy,
          outcome |-> outcome, error |-> NoError, known |-> TRUE,
          sameAndroid |-> TRUE])

Acknowledgement(uuid, observed, outcome, policy, error) ==
  Signed("acknowledgement", c1,
         [uuid |-> uuid, observed |-> observed, policy |-> policy,
          outcome |-> outcome, error |-> error, known |-> policy # r3,
          sameAndroid |-> TRUE])

Usage(minutes, policy) ==
  Signed("usage", c1, [day |-> "monday", minutes |-> minutes, policy |-> policy])

WebEvent(uuid) == Signed("web_filter", c1, [uuid |-> uuid])

Order(kind) ==
  [kind |-> kind, device |-> d1, credential |-> NoCredential, nonce |-> FreshNonce,
   stamp |-> 0, body |-> kind]

Sync(d, revision, version) ==
  [kind |-> "sync", device |-> d, credential |-> NoCredential,
   nonce |-> FreshNonce, stamp |-> 0,
   body |-> [revision |-> revision, version |-> version]]

Once(nonce, stamp, credential) ==
  [Signed("web_filter", credential, [uuid |-> "u1"]) EXCEPT !.nonce = nonce, !.stamp = stamp]

Workload(requests, events, administered) ==
  [requests |-> requests, horizon |-> 0, events |-> events,
   administered |-> administered]

MCWorkloads ==
  { \* check-ins: out of order, one UUID with two contents, an invalid one
    Workload({CheckIn("u1", 1, "none", NoPolicy), CheckIn("u2", 2, "applied", r1),
              CheckIn("u2", 1, "stale", r1), CheckIn("u3", 3, "none", NoPolicy),
              CheckIn("u4", 2, "none", r1)},
             1, {"devices"}),
    \* acknowledgements: equal times, an unknown revision, with a block order
    Workload({Acknowledgement("u1", 1, "applied", r1, NoError),
              Acknowledgement("u2", 2, "failed", r2, "code"),
              Acknowledgement("u3", 2, "cleared", NoPolicy, NoError),
              Acknowledgement("u4", 2, "applied", r3, NoError), Order("block")},
             1, {}),
    \* usage of one day and a web event against block orders
    Workload({Usage(10, r1), Usage(20, r1), Usage(20, r2), Usage(1441, r1),
              WebEvent("u1"), Order("block"), Order("clear")}, 2, {}),
    \* synchronization of the registered device, administered meanwhile
    Workload({Sync(d1, NoRevision, 0), Sync(d1, r2, 2), Sync(d1, r3, 1)},
             1, {"assignments"}),
    Workload({Sync(d1, NoRevision, 0)}, 1, {"assignments", "lifecycles"}),
    \* a suspended device, and one that is not registered
    Workload({Sync(d1, NoRevision, NoVersion)}, 1, {"devices"}),
    Workload({Sync(d2, NoRevision, 0), Sync(d2, r1, NoVersion), Order("block"),
              Sync(d1, r3, NoVersion)}, 2, {}),
    \* one signed request that is sent again and again, while time passes
    [Workload({Once("n1", 1, c1)}, 1, {}) EXCEPT !.horizon = 3] }

\* The periodic and the immediate worker of one device synchronize together.
OverlappingSyncs ==
  { [Workload({Sync(d1, NoRevision, 0), Sync(d1, r1, 1)}, 1, {}) EXCEPT !.horizon = 1] }
===============================================================================
