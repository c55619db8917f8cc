SPECIFICATION FileSpec
CONSTANTS
 src=src out=out dir=dir t1=t1 t2=t2
 Thread = {t1,t2}
 Source = {src}
 Output = {out}
 Dir = {dir}
 Owner <- OwnedByFirst
 HashOf <- Hashes
 ContentSigned = {src,out}
 NoFile = NoFile EarlyStats = FALSE
 MaxStats = 3
 MaxVersions = 2
 MaxBuilds = 2
 Week = 1
 FirstShift = 3
INVARIANTS SignatureCurrent TablesSound DirectoryMade
CHECK_DEADLOCK FALSE
