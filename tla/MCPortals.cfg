CONSTANTS
    b1 = b1  b2 = b2  w1 = w1  w2 = w2
    u1 = u1  u2 = u2  mailA = mailA  mailB = mailB  g1 = g1  g2 = g2
    None = None  NoRow = NoRow  Nil = Nil
    Users = {u1, u2}
    Mails = {mailA, mailB}
    Subjects = {g1, g2}
    MailOf <- MCMailOf
    Browsers = {b1, b2}
    Workers = {w1, w2}
    MaxFlows = 2
    MaxAddresses = 3
    Tabs = {t1, t2}
    Members = {m1, m2}
    Managers = {a1, a2}
    Desks = {d1, d2}
    MaxForms = 3
    MaxPurchases = 2
    Idle = Idle
SYMMETRY MCSymmetry
SPECIFICATION Spec
INVARIANTS OwnAccountOnly OnePrimary RecordedOnce
PROPERTIES DefaultKept
