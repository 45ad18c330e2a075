SPECIFICATION Spec
CONSTANTS
    Req = {r1, r2}
    Account = {a1, a2}
    NoAccount = noaccount
    Email = {e1, e2}
    NoEmail = noemail
    Sub = {s1}
    NoSub = nosub
    Owner <- OwnerOfAll
    Key = {k1}
    Months = {1}
    MaxName = 1
    MaxTime = 1
    MaxEdits = 2
SYMMETRY Symmetric
INVARIANTS
    TypeOK
    
    PeriodsAppended
