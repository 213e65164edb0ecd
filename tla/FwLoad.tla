------------------------------- MODULE FwLoad -------------------------------
(***************************************************************************)
(* load_fw_for_dma() of sof-vfio/loader.c, which brings the firmware file  *)
(* into memory the DSP's DMA can read, and what its caller                 *)
(* hda_dsp_cl_boot_firmware() does with the result.  Every call to the     *)
(* kernel may fail, and a read() may return less than was asked for.       *)
(* A byte of the file is its offset in the file.                           *)
(***************************************************************************)
EXTENDS Integers

CONSTANTS FileSizes,    \* sizes the firmware file may have
          Indeterminate \* what an uninitialised size_t may hold

ASSUME SizesAssumption == FileSizes \subseteq Nat /\ Indeterminate \subseteq Nat

VARIABLES
  pc,
  size,     \* stat_buf.st_size
  ret,      \* "none", 0 or an error
  fd,       \* the file is open
  window,   \* bytes mapped at the IOVA, 0 for none
  image,    \* what the mapped memory holds, a byte at a time
  readSize, \* read_size
  dmab,     \* info->dmab.bytes, 0 while it is as calloc() left it
  fw,       \* size of load_fw_for_dma()'s own struct firmware
  stripped, \* size of the caller's, which was passed by value
  bufsize   \* what the code-loader stream is told to play

vars == <<pc, size, ret, fd, window, image, readSize, dmab, fw, stripped, bufsize>>

Zero == -1  \* a byte of fresh memory
Offsets == 0..size - 1

Init ==
  /\ pc = "open" /\ size \in FileSizes /\ ret = "none" /\ fd = FALSE
  /\ window = 0 /\ image = [k \in Offsets |-> Zero] /\ readSize = 0
  /\ stripped \in Indeterminate /\ fw = stripped
  /\ dmab = 0 /\ bufsize = 0

Open ==
  /\ pc = "open"
  /\ \/ fd' = TRUE /\ pc' = "stat" /\ UNCHANGED ret
     \/ ret' = "error" /\ pc' = "return" /\ UNCHANGED fd
  /\ UNCHANGED <<size, window, image, readSize, dmab, fw, stripped, bufsize>>

Stat ==
  /\ pc = "stat"
  /\ \/ pc' = "map" /\ UNCHANGED ret
     \/ ret' = "error" /\ pc' = "close"
  /\ UNCHANGED <<size, fd, window, image, readSize, dmab, fw, stripped, bufsize>>

\* mmap() and VFIO_IOMMU_MAP_DMA.  A failed mmap() is not noticed, but its
\* result is no address the ioctl takes; nor does it take an empty range.
Map ==
  /\ pc = "map"
  /\ \/ size > 0 /\ window' = size /\ ret' = "ok" /\ pc' = "read"
     \/ ret' = "error" /\ pc' = "close" /\ UNCHANGED window
  /\ UNCHANGED <<size, fd, image, readSize, dmab, fw, stripped, bufsize>>

\* One read() that returns something; it is always put at vaddr.
Read ==
  /\ pc = "read" /\ readSize < size
  /\ \E n \in 1..size - readSize :
       /\ image' = [k \in Offsets |-> IF k < n THEN readSize + k ELSE image[k]]
       /\ readSize' = readSize + n
  /\ UNCHANGED <<pc, size, ret, fd, window, dmab, fw, stripped, bufsize>>

\* Defect: a failed read() ends the loop as the end of the file does.
ReadFails_Break ==
  /\ pc = "read" /\ readSize < size
  /\ pc' = "loaded" /\ ret' = "error"
  /\ UNCHANGED <<size, fd, window, image, readSize, dmab, fw, stripped, bufsize>>

\* A failed read() leaves with the ioctl's success still in ret.
ReadFails ==
  /\ pc = "read" /\ readSize < size
  /\ pc' = "close"
  /\ UNCHANGED <<size, ret, fd, window, image, readSize, dmab, fw, stripped, bufsize>>

\* All was read, or the file has ended earlier than its size said.
ReadEnds ==
  /\ pc = "read"
  /\ pc' = "loaded"
  /\ UNCHANGED <<size, ret, fd, window, image, readSize, dmab, fw, stripped, bufsize>>

\* Defect: the buffer is described by what was read.
Loaded_ReadSize ==
  /\ pc = "loaded" /\ pc' = "close"
  /\ fw' = size /\ dmab' = readSize
  /\ UNCHANGED <<size, ret, fd, window, image, readSize, stripped, bufsize>>

\* The DMA buffer is described to the caller; the struct firmware filled is
\* the function's own.
Loaded ==
  /\ pc = "loaded" /\ pc' = "close"
  /\ fw' = size /\ dmab' = size
  /\ UNCHANGED <<size, ret, fd, window, image, readSize, stripped, bufsize>>

\* Defect: the file is left open.
Close_Leak ==
  /\ pc = "close" /\ pc' = "return"
  /\ UNCHANGED <<size, ret, fd, window, image, readSize, dmab, fw, stripped, bufsize>>

Close ==
  /\ pc = "close" /\ pc' = "return" /\ fd' = FALSE
  /\ UNCHANGED <<size, ret, window, image, readSize, dmab, fw, stripped, bufsize>>

\* The caller prints an error, if it is told of one, and prepares the stream
\* in any case.
PrepareStream ==
  /\ pc = "return" /\ pc' = "prepare"
  /\ bufsize' = stripped
  /\ UNCHANGED <<size, ret, fd, window, image, readSize, dmab, fw, stripped>>

Next ==
  \/ Open \/ Stat \/ Map \/ Read \/ ReadFails \/ ReadEnds \/ Loaded \/ Close
  \/ PrepareStream

Spec == Init /\ [][Next]_vars

-----------------------------------------------------------------------------
(* Properties.                                                             *)

\* Types; never more is read than the file had.
TypeOK ==
  /\ pc \in {"open", "stat", "map", "read", "loaded", "close", "return", "prepare"}
  /\ size \in FileSizes /\ ret \in {"none", "ok", "error"} /\ fd \in BOOLEAN
  /\ window \in {0, size} /\ dmab \in {0, size} /\ readSize \in 0..size
  /\ image \in [Offsets -> {Zero} \cup Offsets]
  /\ stripped \in Indeterminate /\ fw \in {stripped, size}
  /\ bufsize \in {0} \cup Indeterminate

\* The file is open exactly from the successful open to the end of the
\* function, whichever call fails (loader.c 716-764).
FileClosed == fd <=> pc \in {"stat", "map", "read", "loaded", "close"}

\* What info->dmab says is mapped is mapped, all of it: a buffer is described
\* only once the device may access it, and a load that is reported as failed
\* leaves neither a mapping nor a description (loader.c 734-764).
DmabDescribesMapping ==
  /\ dmab > 0 => window = dmab
  /\ pc \in {"return", "prepare"} /\ ret = "error" => window = 0 /\ dmab = 0

\* "Loaded %s (%zd bytes) to IOVA" (loader.c 753): as many bytes of the file
\* as it says are in place at the IOVA.
LoadedIsFile == pc = "loaded" => \A k \in 0..readSize - 1 : image[k] = k

\* The stream plays the buffer it is given: "size of the play buffer in
\* bytes" (hdaudio.h 27), "buffer size in bytes" (hdaudio.h 11).
PlaysTheBuffer == pc = "prepare" /\ dmab > 0 => bufsize = dmab
=============================================================================
