-------------------------- MODULE MC_SuperRelayTA --------------------------
(* Model-checking instance of SuperRelayTA.                                *)
EXTENDS SuperRelayTA, TLC

\* keypairs are interchangeable: no property names one
MCSymmetry == Permutations(KeyPairs)

\* every key_id buffer: any bytes, any size up to SR_MAX_KEY_ID_SIZE
MCAllIdArgs ==
    [mem : [1..MaxKeyIdSize -> IdBytes \cup {NUL}], size : 0..MaxKeyIdSize]

\* the buffers of a client that passes strlen(id) + 1 as the size: the
\* terminating NUL lies inside the buffer
MCTerminatedIdArgs ==
    {a \in MCAllIdArgs : \E j \in 1..a.size : a.mem[j] = NUL}

\* the buffers of a client that zero-fills a buffer and passes the id's
\* strlen + 1 as its size: the empty id and the one-byte ids
MCPaddedIdArgs ==
    {a \in MCTerminatedIdArgs :
        a.size = 2 /\ \A j \in 2..MaxKeyIdSize : a.mem[j] = NUL}

=============================================================================
