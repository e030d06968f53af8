CONSTANT Key = {k1, k2, k3}
SPECIFICATION Spec
INVARIANTS QueueInv
PROPERTIES KeepsRequests RequestHandled
