------------------------------ MODULE IoLoops ------------------------------
(***************************************************************************)
(* The system call loops of IGenericServer::write, read, read_one_buffer   *)
(* and read_one_buffer_t, against a kernel that takes or gives any number  *)
(* of bytes, would block, fails, or reports end of file.                   *)
(*                                                                         *)
(* One call at a time, one system call a step; `moved' counts, as history, *)
(* the bytes the kernel really took or gave during the call.               *)
(***************************************************************************)
EXTENDS Integers, Sequences, Functions

CONSTANTS
    MaxSize,        \* bound: bytes in one write()
    BufferSize,     \* buffer_size of a read: bytes, or elements
    SizeofN,        \* sizeof(N) of read_one_buffer_t
    MaxReads        \* bound: buffers one read() fills

ASSUME IoLoopsAssumption ==
    /\ MaxSize \in Nat /\ MaxReads \in Nat
    /\ BufferSize \in Nat \ {0} /\ SizeofN \in Nat \ {0}

VARIABLES
    op,         \* the function being called, "none" between calls
    pcount,     \* p - data in write()
    data_size,  \* data_size in write(), lowered as data is written
    result,     \* sizes of the buffers read so far
    retval,     \* of the last call: a count, or -1
    errno,      \* of the last system call: OK, EAGAIN, ERR
    moved

vars == <<op, pcount, data_size, result, retval, errno, moved>>

\* labels: the ones of the functions another module adds
IoTypeOK(labels) ==
    /\ op \in {"none", "write", "read", "read_one_buffer", "read_one_buffer_t"} \cup labels
    /\ pcount \in Nat /\ data_size \in 0 .. MaxSize /\ moved \in Nat
    /\ result \in Seq(0 .. BufferSize)
    /\ retval \in Int
    /\ errno \in {"OK", "EAGAIN", "ERR"}

Init ==
    /\ op = "none" /\ pcount = 0 /\ data_size = 0 /\ result = <<>>
    /\ retval = 0 /\ errno = "OK" /\ moved = 0

\* What ::write or ::read of up to n bytes returns: a count, or -1 with errno.
Syscall(n, low) ==
    {[c |-> k, errno |-> "OK"] : k \in low .. n}
        \cup {[c |-> -1, errno |-> e] : e \in {"EAGAIN", "ERR"}}
Bytes(c) == IF c = -1 THEN 0 ELSE c

\* f is called, to write n bytes or to read; its locals are new.
Call(f, n) ==
    /\ op = "none"
    /\ op' = f
    /\ pcount' = 0 /\ data_size' = n /\ result' = <<>>
    /\ retval' = 0 /\ errno' = "OK" /\ moved' = 0

-----------------------------------------------------------------------------
(* IGenericServer::write *)

Write(n) == Call("write", n)

\* Mutant: -1 at EAGAIN, also after a part has been written.
WriteResult_Eagain(c, err, p) == IF c = -1 THEN -1 ELSE p

\* the value after the loop ended with c
WriteResult(c, err, p) ==
    IF c = -1 THEN (IF err = "EAGAIN" /\ p > 0 THEN p ELSE -1) ELSE p

\* c > 0 && c < data_size: go on with the rest; otherwise return.  A ::write of
\* a positive count never returns 0.  A call with fd == -1, which returns -1 at
\* once, is one whose first ::write fails.
WriteSyscall ==
    /\ op = "write"
    /\ \E r \in Syscall(data_size, IF data_size = 0 THEN 0 ELSE 1) :
         LET again == r.c > 0 /\ r.c < data_size
             p == pcount + Bytes(r.c)
         IN  /\ pcount' = p
             /\ data_size' = IF again THEN data_size - r.c ELSE data_size
             /\ op' = IF again THEN "write" ELSE "none"
             /\ retval' = IF again THEN retval ELSE WriteResult(r.c, r.errno, p)
             /\ errno' = r.errno
             /\ moved' = moved + Bytes(r.c)
    /\ UNCHANGED result

-----------------------------------------------------------------------------
(* IGenericServer::read: emplace_back a buffer, read into it, keep it or not *)

Read(f) == Call(f, 0)

\* Mutant: the buffer is not popped at EAGAIN.
BufferKept_Eagain(r) ==
    IF r.c > 0 THEN <<r.c>> ELSE IF r.c = -1 THEN <<BufferSize>> ELSE <<>>

\* data: resize to c and go on; EAGAIN and end of file: pop_back; another error
\* leaves the buffer, at its full size
BufferKept(r) ==
    IF r.c > 0 THEN <<r.c>> ELSE IF r.errno = "ERR" THEN <<BufferSize>> ELSE <<>>

ReadSyscall ==
    /\ op = "read"
    /\ \E r \in Syscall(BufferSize, 0) :
         /\ r.c > 0 => Len(result) < MaxReads
         /\ result' = result \o BufferKept(r)
         /\ op' = IF r.c > 0 THEN "read" ELSE "none"
         /\ retval' = IF r.c > 0 THEN retval ELSE Len(result')
         /\ errno' = r.errno
         /\ moved' = moved + Bytes(r.c)
    /\ UNCHANGED <<pcount, data_size>>

\* one ::read, and a buffer of exactly what it returned, empty on any error
ReadOneBuffer ==
    /\ op = "read_one_buffer"
    /\ op' = "none"
    /\ \E r \in Syscall(BufferSize, 0) :
         /\ result' = <<Bytes(r.c)>>
         /\ retval' = r.c
         /\ errno' = r.errno
         /\ moved' = Bytes(r.c)
    /\ UNCHANGED <<pcount, data_size>>

\* the same with elements of SizeofN bytes; result counts elements, retval is
\* *bytes_read_p
ReadOneBufferT ==
    /\ op = "read_one_buffer_t"
    /\ op' = "none"
    /\ \E r \in Syscall(BufferSize * SizeofN, 0) :
         /\ result' = <<Bytes(r.c) \div SizeofN>>
         /\ retval' = r.c
         /\ errno' = r.errno
         /\ moved' = Bytes(r.c)
    /\ UNCHANGED <<pcount, data_size>>

-----------------------------------------------------------------------------

Next ==
    \/ \E n \in 0 .. MaxSize : Write(n)
    \/ \E f \in {"read", "read_one_buffer", "read_one_buffer_t"} : Read(f)
    \/ WriteSyscall \/ ReadSyscall \/ ReadOneBuffer \/ ReadOneBufferT

Spec == Init /\ [][Next]_vars

-----------------------------------------------------------------------------
(* Properties of a call, stated of the step with which it returns *)

Returns(f) == op = f /\ op' = "none"

\* the sums of the first 0, 1, 2, ... sizes
Sums(sizes) ==
    LET sum[i \in 0 .. Len(sizes)] == IF i = 0 THEN 0 ELSE sum[i - 1] + sizes[i]
    IN  sum

Total(sizes) == Sums(sizes)[Len(sizes)]

\* write() returns exactly the bytes the kernel took, over all its ::write
\* calls, unless one failed; -1 at EAGAIN means that nothing was written.
WriteCountExact ==
    [][Returns("write") =>
         /\ errno' # "ERR" => Bytes(retval') = moved'
         /\ retval' # -1 => retval' = moved']_vars

\* read() and read_one_buffer() return every byte the kernel gave, in non-empty
\* buffers, unless a ::read failed; a failed ::read loses none of them either.
\* read_one_buffer_t() drops the bytes of an element that came in part.
ReadKeepsBytes ==
    [][/\ Returns("read") =>
            /\ errno' # "ERR" => Total(result') = moved' /\ 0 \notin Range(result')
            /\ errno' = "ERR" => Total(SubSeq(result', 1, Len(result') - 1)) = moved'
       /\ Returns("read_one_buffer") => Total(result') = moved'
       /\ Returns("read_one_buffer_t") =>
            moved' - Total(result') * SizeofN \in 0 .. SizeofN - 1]_vars

-----------------------------------------------------------------------------
(* Statements of the repository that the code does not satisfy *)

\* IGenericServer.h:154, "return the number of bytes written on success or
\* partial success".
PartialSuccessReported ==
    [][Returns("write") /\ moved' > 0 => retval' = moved']_vars

\* IGenericServer.h:182, "read all available data from socket and return
\* multiple buffers": what is returned is data that was read.
ReadReturnsData == [][Returns("read") => Total(result') = moved']_vars

=============================================================================
