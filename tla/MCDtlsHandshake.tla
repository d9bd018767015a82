-------------------------- MODULE MCDtlsHandshake --------------------------
(* The DTLS handshake on small instances. *)
EXTENDS DtlsHandshake

MCSuites == <<"rsa128", "ecdsa128">>

Config(skip, auth, store, ems, cert, data, f) ==
  [skip |-> skip, auth |-> auth, store |-> store, ems |-> ems, cert |-> cert, data |-> data,
   faults |-> f]

Faults(loss, dup, delay, early, close) ==
  [loss |-> loss, dup |-> dup, delay |-> delay, early |-> early, close |-> close]

MCConfigs ==
  {\* the program's own setup, with flights of one datagram
   Config(TRUE, "mutual", "none", TRUE, 4, 0, Faults(1, 1, 1, 1, 0)),
   Config(TRUE, "mutual", "none", TRUE, 4, 1, Faults(1, 1, 0, 0, 0)),
   Config(TRUE, "mutual", "none", TRUE, 4, 0, Faults(2, 0, 0, 0, 0)),
   Config(TRUE, "mutual", "none", TRUE, 4, 1, Faults(0, 1, 1, 0, 1)),
   \* with the hello verified
   Config(FALSE, "mutual", "none", TRUE, 4, 0, Faults(1, 1, 0, 0, 0)),
   Config(FALSE, "mutual", "none", TRUE, 4, 0, Faults(1, 0, 0, 1, 0)),
   \* flights of two datagrams, and certificates of two fragments
   Config(TRUE, "mutual", "none", TRUE, 7, 0, Faults(0, 1, 2, 0, 0)),
   Config(TRUE, "mutual", "none", TRUE, 7, 0, Faults(0, 0, 0, 1, 0)),
   Config(TRUE, "mutual", "none", TRUE, 7, 0, Faults(1, 0, 0, 0, 0)),
   Config(FALSE, "mutual", "none", TRUE, 12, 0, Faults(0, 0, 1, 0, 0)),
   \* no client certificate and no extended master secret, a shared key
   Config(TRUE, "server", "none", FALSE, 4, 0, Faults(1, 1, 1, 0, 0)),
   Config(TRUE, "psk", "none", TRUE, 4, 0, Faults(1, 1, 1, 0, 0)),
   \* session stores
   Config(FALSE, "mutual", "both", TRUE, 4, 1, Faults(0, 1, 1, 0, 0)),
   Config(TRUE, "mutual", "client", TRUE, 4, 0, Faults(1, 1, 1, 0, 0))}

\* A resumed session whose datagrams may be lost.
MCResumed == {Config(TRUE, "mutual", "both", TRUE, 4, 0, Faults(1, 0, 0, 0, 0))}
=============================================================================
