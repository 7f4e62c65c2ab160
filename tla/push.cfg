SPECIFICATION Spec
CONSTANTS
    acme = acme  key = key  base = base  mail = mail
    Null = Null
    Tenant = {acme}
    Config = {key}
    Base = {base}
    Given <- Bases
    Static <- InFile
    Conn = {mail}
    KindOf <- KindsHere
    Sub = {sub}
    Grant = {}
    Call = {p1}
    Collection = {}
PROPERTY PushIsRenewed
CHECK_DEADLOCK FALSE
