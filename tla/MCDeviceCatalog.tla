--------------------------- MODULE MCDeviceCatalog ---------------------------
(* DeviceCatalog on a small instance: two devices, two commands.             *)
EXTENDS DeviceCatalog, TLC

CONSTANTS d1, d2, k1, k2, h1, h2

MCDevices  == {d1, d2}
MCKeys     == {k1, k2}
MCHandlers == {h1, h2}
OneHandler == {h1}

\* The platform of d1's category is set up before button's.
MCPrimaries   == {d1, d2}
MCPrimaryLast == {d2}

\* A device that knows one command, and no other device.
MCInitialStores ==
  {[d \in MCDevices |->
      IF d = d1 THEN [f \in Fields |-> IF f = k2 THEN None ELSE 0] ELSE None]}

\* A rename, and the learn dialog's merge of one command.
MCEdits == {{Name}, {k2}}

\* Handlers are interchangeable.
MCSymmetry == Permutations(Handlers)

===============================================================================
