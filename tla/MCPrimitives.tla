---------------------------- MODULE MCPrimitives ----------------------------
(***************************************************************************)
(* The modules that have no state of their own between two calls, each on  *)
(* the inputs below; a behaviour uses one of them.                         *)
(***************************************************************************)
EXTENDS Crc, BootProtocol, Sha256, Aes128Gcm, EcdsaP256, X25519

VARIABLE unit           \* the module this behaviour is about

MCFields == {<<0, 0>>, <<258, 772>>, <<65535, 65280>>}
MCPattern(n) == [i \in 1 .. n |-> (7 * i) % 256]
MCHashes == {MCPattern(32)}
MCSignatures == {MCPattern(64)}
MCChunks == {MCPattern(n) : n \in {1, 200, 201}}
MCReports ==
  UNION {{[report |-> 128, command |-> 16, state |-> 1, result |-> 2, active |-> 3,
           confirmed |-> 4, trial |-> 5, update_state |-> 6,
           received |-> a, expected |-> b, version |-> c],
          [state |-> 1, result |-> 2, result1 |-> 3, valid1 |-> 4, result2 |-> 5,
           valid2 |-> 6, size1 |-> a, version1 |-> b, size2 |-> c, version2 |-> a,
           minimum |-> b, target |-> 7]} : a \in MCFields, b \in MCFields, c \in MCFields}
MCSlack == {-1, 0, 1}

MCPieces == {MCPattern(n) : n \in {0, 1, 9, 54, 55, 56, 63, 64, 65, 119}}

MCKey == Zeros(16)
\* With this one the counter after J0 carries through its 32 bits.
WrapIv == <<188, 120, 162, 85, 94, 34, 136, 137, 248, 131, 179, 68, 14, 131, 189, 66>>
MCIvs == {Zeros(12), << >>, <<7>>, [i \in 1 .. 17 |-> i], WrapIv}

\* What the generator returns, call by call.  100 * G and 129 * G have x = 0,
\* so that r = 0 and signing tries again; the x of 31 * G is past the order.
MCStreams == {<<0, 229, 255, 1>>, <<0, 0, 0, 0, 31>>, <<228>>, <<129, 100, 31, 228>>,
              <<7, 100>>, <<31, 7>>, <<0, 0, 0>>}
\* Signing 218 with d = 1 and 31 gives s = 0.
MCDigests == {0, 218, 229, 255}
MCOffsets == {<<0, 0, 0, 0>>, <<1, 0, 0, 0>>, <<0, 1, 0, 0>>, <<0, 0, 1, 0>>, <<0, 0, 0, 1>>}

Init ==
  /\ unit \in {"crc", "boot", "sha256", "gcm", "ecdsa", "x25519"}
  /\ CrcInit /\ BootInit /\ ShaInit /\ GcmInit /\ EcdsaInit /\ X25519Init

UseCrc == unit = "crc" /\ CrcNext
          /\ UNCHANGED <<unit, bootVars, shaVars, gcmVars, ecdsaVars, x25519Vars>>
UseBoot == unit = "boot" /\ BootNext
           /\ UNCHANGED <<unit, crcVars, shaVars, gcmVars, ecdsaVars, x25519Vars>>
UseSha == unit = "sha256" /\ ShaNext
          /\ UNCHANGED <<unit, crcVars, bootVars, gcmVars, ecdsaVars, x25519Vars>>
UseGcm == unit = "gcm" /\ GcmNext
          /\ UNCHANGED <<unit, crcVars, bootVars, shaVars, ecdsaVars, x25519Vars>>
UseEcdsa == unit = "ecdsa" /\ EcdsaNext
            /\ UNCHANGED <<unit, crcVars, bootVars, shaVars, gcmVars, x25519Vars>>
UseX25519 == unit = "x25519" /\ X25519Next
             /\ UNCHANGED <<unit, crcVars, bootVars, shaVars, gcmVars, ecdsaVars>>

Next == UseCrc \/ UseBoot \/ UseSha \/ UseGcm \/ UseEcdsa \/ UseX25519
=============================================================================
