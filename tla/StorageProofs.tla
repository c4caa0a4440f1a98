--------------------------- MODULE StorageProofs ---------------------------
(***************************************************************************)
(* The arithmetic of Storage for files of every size.                      *)
(***************************************************************************)
EXTENDS Storage, TLAPS

(* The rounding: the bytes of a conversion are the least number that is    *)
(* not below eleven tenths of the source, so the integer division of       *)
(* safety.py loses nothing and adds less than a byte.                      *)
THEOREM RoundsUp ==
    ASSUME NEW size \in Nat
    PROVE  /\ 10 * ConversionBytes(size) >= 11 * size
           /\ \A bytes \in Nat : 10 * bytes >= 11 * size => bytes >= ConversionBytes(size)
BY DEF ConversionBytes

(* What a shared file system must hold is what the two would hold.         *)
LEMMA SharedIsSum ==
    ASSUME NEW work \in Work, NEW size \in Nat
    PROVE  /\ Bytes(Media[work], size) \in Nat
           /\ Bytes(Temp[work], size) \in Nat
           /\ Bytes(Shared[work], size) = Bytes(Media[work], size) + Bytes(Temp[work], size)
<1>1. ConversionBytes(size) \in Nat
  BY DEF ConversionBytes
<1>2. CASE work = "conversion"
  <2>1. Shared[work] = Files(0, 2) /\ Media[work] = Files(0, 1) /\ Temp[work] = Files(0, 1)
    BY <1>2 DEF Shared, Media, Temp
  <2>. QED BY <1>1, <2>1 DEF Bytes, Files
<1>3. CASE work = "conversion_with_recovery"
  <2>1. Shared[work] = Files(1, 2) /\ Media[work] = Files(1, 1) /\ Temp[work] = Files(0, 1)
    BY <1>3 DEF Shared, Media, Temp
  <2>. QED BY <1>1, <2>1 DEF Bytes, Files
<1>4. CASE work = "recovery_backup"
  <2>1. Shared[work] = Files(2, 0) /\ Media[work] = Files(1, 0) /\ Temp[work] = Files(1, 0)
    BY <1>4 DEF Shared, Media, Temp
  <2>. QED BY <1>1, <2>1 DEF Bytes, Files
<1>5. CASE work = "recovery_restore"
  <2>1. Shared[work] = Files(3, 0) /\ Media[work] = Files(1, 0) /\ Temp[work] = Files(2, 0)
    BY <1>5 DEF Shared, Media, Temp
  <2>. QED BY <1>1, <2>1 DEF Bytes, Files
<1>. QED BY <1>2, <1>3, <1>4, <1>5 DEF Work

(* The promise of the confirmation page, "the configured disk reserve is   *)
(* protected": a job that passed the check and keeps to the bytes it is    *)
(* planned with leaves the reserve free at its peak, on one file system or *)
(* on two.                                                                 *)
THEOREM ReserveProtected ==
    ASSUME NEW work \in Work, NEW size \in Nat, NEW reserve \in Nat, NEW combined \in BOOLEAN,
           NEW free \in [media : Nat, temp : Nat],
           Enough(Requirement(work, size, reserve, combined), free, combined),
           NEW media \in Nat, media <= Bytes(Media[work], size),
           NEW temp \in Nat, temp <= Bytes(Temp[work], size)
    PROVE  IF combined
           THEN free.media - (media + temp) >= reserve
           ELSE free.media - media >= reserve /\ free.temp - temp >= reserve
<1>1. Bytes(Media[work], size) \in Nat /\ Bytes(Temp[work], size) \in Nat
  BY SharedIsSum
<1>2. CASE combined
  <2>1. free.media >= Bytes(Media[work], size) + Bytes(Temp[work], size) + reserve
    BY <1>2, SharedIsSum DEF Enough, Requirement
  <2>. QED BY <1>1, <1>2, <2>1
<1>3. CASE ~combined
  <2>1. /\ free.media >= Bytes(Media[work], size) + reserve
        /\ free.temp >= Bytes(Temp[work], size) + reserve
    BY <1>3 DEF Enough, Requirement
  <2>. QED BY <1>1, <1>3, <2>1
<1>. QED BY <1>2, <1>3

(* Space for a conversion with its archive is space for either alone: a    *)
(* movie that passed the check of the larger job passes that of the parts. *)
THEOREM ArchiveNeedsNoLess ==
    ASSUME NEW part \in {"conversion", "recovery_backup"}, NEW size \in Nat, NEW reserve \in Nat,
           NEW combined \in BOOLEAN, NEW free \in [media : Nat, temp : Nat],
           Enough(Requirement("conversion_with_recovery", size, reserve, combined), free, combined)
    PROVE  Enough(Requirement(part, size, reserve, combined), free, combined)
<1>. DEFINE whole == "conversion_with_recovery"
<1>1. ConversionBytes(size) \in Nat /\ ConversionBytes(size) >= size
  BY DEF ConversionBytes
<1>2. /\ Shared[whole] = Files(1, 2) /\ Media[whole] = Files(1, 1) /\ Temp[whole] = Files(0, 1)
  BY DEF Shared, Media, Temp
<1>3. /\ Bytes(Shared[whole], size) = size + 2 * ConversionBytes(size)
      /\ Bytes(Media[whole], size) = size + ConversionBytes(size)
      /\ Bytes(Temp[whole], size) = ConversionBytes(size)
  BY <1>1, <1>2 DEF Bytes, Files
<1>4. CASE part = "conversion"
  <2>1. Shared[part] = Files(0, 2) /\ Media[part] = Files(0, 1) /\ Temp[part] = Files(0, 1)
    BY <1>4 DEF Shared, Media, Temp
  <2>2. /\ Bytes(Shared[part], size) = 2 * ConversionBytes(size)
        /\ Bytes(Media[part], size) = ConversionBytes(size)
        /\ Bytes(Temp[part], size) = ConversionBytes(size)
    BY <1>1, <2>1 DEF Bytes, Files
  <2>. QED BY <1>1, <1>3, <2>2 DEF Enough, Requirement
<1>5. CASE part = "recovery_backup"
  <2>1. Shared[part] = Files(2, 0) /\ Media[part] = Files(1, 0) /\ Temp[part] = Files(1, 0)
    BY <1>5 DEF Shared, Media, Temp
  <2>2. /\ Bytes(Shared[part], size) = 2 * size
        /\ Bytes(Media[part], size) = size
        /\ Bytes(Temp[part], size) = size
    BY <1>1, <2>1 DEF Bytes, Files
  <2>. QED BY <1>1, <1>3, <2>2 DEF Enough, Requirement
<1>. QED BY <1>4, <1>5

=============================================================================
