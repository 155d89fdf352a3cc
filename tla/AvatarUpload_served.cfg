SPECIFICATION Spec
CONSTANTS
    p1 = p1
    p2 = p2
    jpg = jpg
    png = png
    c1 = c1
    c2 = c2
    Users = {u1}
    Extensions = {jpg, png}
    Procs = {p1}
    Contents = {c1, c2}
    Faults <- NoFaults
    Partial = Partial
    None = None
INVARIANT UploadedIsServed
