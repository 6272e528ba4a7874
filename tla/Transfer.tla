------------------------------ MODULE Transfer ------------------------------
(***************************************************************************)
(* A client that reads what an echo server returns, in pieces of any size, *)
(* and keeps a checksum of them with update_crc_16(): the loop with which  *)
(* the repository's tests compare the data received with the data sent.    *)
(***************************************************************************)
EXTENDS Client, Crc16

CONSTANT Data   \* the bytes sent, which the server echoes

ASSUME TransferAssumption == Data \in Seq(Byte)

VARIABLES clientCrc2, total_bytes_received

crcVars == <<clientCrc2, total_bytes_received>>

TransferInit ==
    /\ ClientInit
    /\ clientCrc2 = CRC_START_16
    /\ total_bytes_received = 0

\* Mutant: the checksum goes on from the last transfer.
TransferConnect_NoReset ==
    /\ UnixConnect \/ TcpConnect
    /\ UNCHANGED clientCrc2
    /\ total_bytes_received' = 0

\* a new connection, a new transfer
TransferConnect ==
    /\ UnixConnect \/ TcpConnect
    /\ clientCrc2' = CRC_START_16
    /\ total_bytes_received' = 0

\* the buffer that read() returns when the kernel has given n bytes
Received(n) == SubSeq(Data, total_bytes_received + 1, total_bytes_received + n)

TransferRead ==
    /\ ClientReadSyscall
    /\ total_bytes_received + Bytes(retval') <= Len(Data)
    /\ total_bytes_received' = total_bytes_received + Bytes(retval')
    /\ clientCrc2' = update_crc_16(clientCrc2, Received(Bytes(retval')))

TransferNext ==
    \/ TransferConnect \/ TransferRead
    \/ /\ \/ Next /\ size' = 0 /\ UNCHANGED socketVars
          \/ Close \/ PeerCloses
          \/ \E n \in 0 .. MaxSize : ClientWrite(n)
          \/ SetBlockingFails \/ SetBlocking \/ WriteInvalid \/ ClientWriteSyscall
          \/ SetNonBlockingFails \/ SetNonBlocking \/ ClientRead
       /\ UNCHANGED crcVars

TransferVars == <<vars, clientVars, crcVars>>

TransferSpec == TransferInit /\ [][TransferNext]_TransferVars

-----------------------------------------------------------------------------
(* Properties *)

\* However the stream is cut into buffers, by short reads, EAGAIN, errors and
\* calls in between, the running checksum is the one-pass crc_16() of the bytes
\* received, and that is the CRC of its definition.  crc_modbus() of them is the
\* CRC that starts from 0xFFFF.
ChunkedChecksum ==
    LET received == SubSeq(Data, 1, total_bytes_received)
    IN  /\ clientCrc2 = crc_16(received)
        /\ clientCrc2 = Checksum(CRC_START_16, received)
        /\ crc_modbus(received) = Checksum(CRC_START_MODBUS, received)

\* Whichever byte comes next, update_crc_16() of one character takes the running
\* checksum to the CRC of the longer stream.  Both are affine in the byte, so
\* zero and the bytes of one bit stand for all 256.
NextByteChecksum ==
    LET received == SubSeq(Data, 1, total_bytes_received)
    IN  \A b \in {{}} \cup {{k} : k \in 0 .. 7} :
            update_crc_16_byte(clientCrc2, b) = Checksum(CRC_START_16, Append(received, b))

=============================================================================
