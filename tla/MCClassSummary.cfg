CONSTANTS
    s1 = s1
    s2 = s2
    ann = ann
    cyd = cyd
    teacher = teacher
    newcomer = newcomer
    child = child
    admin = admin
    nobody = nobody
    Students = {ann, cyd}
    Sessions = {s1, s2}
    StudentOf <- MCStudentOf
    Callers = {teacher, newcomer, child, admin, nobody}
    Role <- MCRole
    Child <- MCChild
    Enrollments <- MCEnrollments
    Labels = {"counted_on"}
    MinForARate = 2
    RecurrenceThreshold = 2
    MaxAttempts <- MCMaxAttempts
SPECIFICATION ClassSpec
INVARIANTS
    TotalsOfTheClass
    FairToChildren
CHECK_DEADLOCK FALSE
