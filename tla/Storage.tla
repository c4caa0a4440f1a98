------------------------------ MODULE Storage ------------------------------
(***************************************************************************)
(* The free space a job asks for before dovi_convert starts: safety.py's   *)
(* four requirements and the comparison with the file systems of the movie *)
(* and of the temporary directory, which may be one file system.  Sizes    *)
(* are bytes; a restore is sized by an estimate of the movie it returns.   *)
(***************************************************************************)
EXTENDS Integers

Work == {"conversion", "conversion_with_recovery", "recovery_backup", "recovery_restore"}

(* A converted movie takes up to a tenth more than its source.             *)
ConversionBytes(size) == (size * 11 + 9) \div 10

(* How many files of the source's size and how many converted ones a job   *)
(* holds at its peak: on one shared file system, or on each of the two.    *)
Files(plain, converted) == [plain |-> plain, converted |-> converted]

Shared == [conversion |-> Files(0, 2), conversion_with_recovery |-> Files(1, 2),
           recovery_backup |-> Files(2, 0), recovery_restore |-> Files(3, 0)]

Media == [conversion |-> Files(0, 1), conversion_with_recovery |-> Files(1, 1),
          recovery_backup |-> Files(1, 0), recovery_restore |-> Files(1, 0)]

Temp == [conversion |-> Files(0, 1), conversion_with_recovery |-> Files(0, 1),
         recovery_backup |-> Files(1, 0), recovery_restore |-> Files(2, 0)]

Bytes(files, size) == files.plain * size + files.converted * ConversionBytes(size)

Requirement(work, size, reserve, combined) ==
    IF combined
    THEN [media |-> Bytes(Shared[work], size) + reserve, temp |-> 0]
    ELSE [media |-> Bytes(Media[work], size) + reserve, temp |-> Bytes(Temp[work], size) + reserve]

(* require_storage: of a shared file system free.media is the free space.  *)
Enough(required, free, combined) ==
    /\ free.media >= required.media
    /\ ~combined => free.temp >= required.temp

=============================================================================
